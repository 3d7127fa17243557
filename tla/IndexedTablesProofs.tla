------------------------ MODULE IndexedTablesProofs ------------------------
(***************************************************************************)
(* Theorems about PoRepProvidersAndDeals and FilecoinPayIndexer, for every *)
(* set of providers, deals and rails, every number of blocks or epochs and *)
(* of contract calls.  No batch of logs throws, so that the deals runner   *)
(* is never stuck on one.  In every batching the state history, the terms  *)
(* and the byte counters of the deals, and the payments of the rails,      *)
(* follow the contracts, and so do the rows, unless a batch writes a       *)
(* column of theirs twice.                                                 *)
(***************************************************************************)
EXTENDS IndexedTablesInvariants, FiniteSetTheorems, SequenceTheorems,
        WellFoundedInduction, TLAPS

-----------------------------------------------------------------------------
(* Numbers and sequences. *)

\* A set of natural numbers has a smallest member.
LEMMA Smallest ==
  ASSUME NEW T \in SUBSET Nat, T # {}
  PROVE  \E x \in T : \A y \in T : x <= y
<1> DEFINE R == {ss \in Nat \X Nat : ss[1] < ss[2]}
<1>1. IsWellFoundedOn(R, Nat)
  BY NatLessThanWellFounded DEF OpToRel
<1>2. \A x, y \in Nat : y < x => <<y, x>> \in R
  OBVIOUS
<1> HIDE DEF R
<1>3. PICK x \in T : \A y \in T : ~(<<y, x>> \in R)
  BY <1>1, WFMin
<1>4. \A y \in T : ~(y < x)
  BY <1>2, <1>3
<1> QED
  BY <1>4

\* SortLogs keeps the logs and turns their order round.
LEMMA SortedLogs ==
  ASSUME NEW S, NEW logs \in Seq(S)
  PROVE  /\ SortLogs(logs) \in Seq(S)
         /\ Len(SortLogs(logs)) = Len(logs)
         /\ \A i \in 1..Len(logs) : SortLogs(logs)[i] = logs[Len(logs) - i + 1]
         /\ ToSet(SortLogs(logs)) = {logs[i] : i \in 1..Len(logs)}
<1> DEFINE n == Len(logs)
<1>1. n \in Nat /\ DOMAIN logs = 1..n /\ \A i \in 1..n : logs[i] \in S
  BY LenProperties
<1>2. SortLogs(logs) = [i \in 1..n |-> logs[(n - i) + 1]]
  BY DEF SortLogs, Reverse
<1> HIDE DEF n
<1>3. \A i \in 1..n : n - i + 1 \in 1..n /\ n - (n - i + 1) + 1 = i
  BY <1>1
<1>4. SortLogs(logs) \in [1..n -> S]
  BY <1>1, <1>2, <1>3
<1>5. SortLogs(logs) \in Seq(S) /\ Len(SortLogs(logs)) = n
  BY <1>4, <1>1
<1>6. \A i \in 1..n : SortLogs(logs)[i] = logs[n - i + 1]
  BY <1>2
<1>7. ToSet(SortLogs(logs)) = {logs[i] : i \in 1..n}
  <2>1. ToSet(SortLogs(logs)) = {SortLogs(logs)[i] : i \in 1..n}
    BY <1>4 DEF ToSet
  <2> QED
    BY <2>1, <1>3, <1>6
<1> QED
  BY <1>5, <1>6, <1>7 DEF n

-----------------------------------------------------------------------------
(* Appended logs. *)

\* The logs of a contract call are well-formed and of the block under construction.
Emitted(logs) ==
  /\ logs \in Seq(PendingLog)
  /\ \A k \in DOMAIN logs : WellFormed(logs[k]) /\ logs[k].blockNumber = block

\* After a contract call, a pending log was pending or is one of its logs.
LEMMA AppendedLogs ==
  ASSUME PendingShape, NEW logs, Emitted(logs),
         pending' = pending \o logs, block' = block
  PROVE  /\ PendingShape'
         /\ Len(pending) \in Nat /\ Len(logs) \in Nat /\ DOMAIN pending = 1..Len(pending)
         /\ DOMAIN logs = 1..Len(logs) /\ DOMAIN pending' = 1..Len(pending')
         /\ Len(pending') = Len(pending) + Len(logs)
         /\ \A i \in DOMAIN pending : i \in DOMAIN pending' /\ pending'[i] = pending[i]
         /\ \A k \in DOMAIN logs : /\ Len(pending) + k \in DOMAIN pending'
                                   /\ pending'[Len(pending) + k] = logs[k]
         /\ \A i \in DOMAIN pending' :
               i \in DOMAIN pending \/ \E k \in DOMAIN logs : i = Len(pending) + k
<1> DEFINE m == Len(pending)
           n == Len(logs)
<1>1. m \in Nat /\ DOMAIN pending = 1..m /\ n \in Nat /\ DOMAIN logs = 1..n
  BY LenProperties DEF PendingShape, Emitted
<1>2. /\ pending' \in Seq(PendingLog) /\ Len(pending') = m + n /\ DOMAIN pending' = 1..(m + n)
      /\ \A i \in 1..(m + n) : pending'[i] = IF i <= m THEN pending[i] ELSE logs[i - m]
  <2>1. pending \in Seq(PendingLog) /\ logs \in Seq(PendingLog)
    BY DEF PendingShape, Emitted
  <2>2. /\ pending \o logs \in Seq(PendingLog) /\ Len(pending \o logs) = m + n
        /\ \A i \in 1..(m + n) : (pending \o logs)[i] = IF i <= m THEN pending[i] ELSE logs[i - m]
    BY <2>1, ConcatProperties
  <2> QED
    BY <2>2, LenProperties
<1> HIDE DEF m, n
<1>3. \A i \in 1..m : i \in 1..(m + n) /\ pending'[i] = pending[i]
  BY <1>1, <1>2
<1>4. \A k \in 1..n : m + k \in 1..(m + n) /\ pending'[m + k] = logs[k]
  <2> SUFFICES ASSUME NEW k \in 1..n
               PROVE  m + k \in 1..(m + n) /\ pending'[m + k] = logs[k]
    OBVIOUS
  <2> DEFINE i == m + k
  <2>1. i \in 1..(m + n) /\ ~(i <= m) /\ i - m = k
    BY <1>1
  <2> HIDE DEF i
  <2>2. pending'[i] = logs[i - m]
    BY <2>1, <1>2
  <2> QED
    BY <2>1, <2>2 DEF i
<1>5. \A i \in 1..(m + n) : i \in 1..m \/ \E k \in 1..n : i = m + k
  <2> SUFFICES ASSUME NEW i \in 1..(m + n), i \notin 1..m
               PROVE  i - m \in 1..n /\ i = m + (i - m)
    OBVIOUS
  <2> QED
    BY <1>1
<1>6. \A i \in 1..(m + n) : WellFormed(pending'[i]) /\ pending'[i].blockNumber <= block
  <2>1. \A i \in 1..m : WellFormed(pending'[i]) /\ pending'[i].blockNumber <= block
    BY <1>1, <1>3 DEF PendingShape
  <2>2. ASSUME NEW k \in 1..n
        PROVE  WellFormed(pending'[m + k]) /\ pending'[m + k].blockNumber <= block
    <3>1. pending'[m + k] = logs[k]
      BY <1>4
    <3>2. WellFormed(logs[k]) /\ logs[k].blockNumber = block /\ block \in Nat
      BY <1>1 DEF PendingShape, Emitted
    <3> QED
      BY <3>1, <3>2
  <2> QED
    BY <1>5, <2>1, <2>2
<1>7. \A i, j \in 1..(m + n) : i <= j => pending'[i].blockNumber <= pending'[j].blockNumber
  <2> SUFFICES ASSUME NEW i \in 1..(m + n), NEW j \in 1..(m + n), i <= j
               PROVE  pending'[i].blockNumber <= pending'[j].blockNumber
    OBVIOUS
  <2>1. CASE j \in 1..m
    <3>1. i \in 1..m
      BY <2>1, <1>1
    <3> QED
      BY <3>1, <2>1, <1>1, <1>3 DEF PendingShape
  <2>2. CASE j \notin 1..m
    <3>1. j - m \in 1..n /\ m + (j - m) = j
      BY <2>2, <1>1, <1>2
    <3>2. pending'[j] = logs[j - m]
      BY <3>1, <1>4
    <3>3. logs[j - m].blockNumber = block
      BY <3>1, <1>1 DEF Emitted
    <3> QED
      BY <3>2, <3>3, <1>6
  <2> QED
    BY <2>1, <2>2
<1>8. PendingShape'
  <2>1. \A i \in DOMAIN pending' : WellFormed(pending[i])' <=> WellFormed(pending'[i])
    BY DEF WellFormed
  <2> QED
    BY <2>1, <1>2, <1>6, <1>7 DEF PendingShape
<1> QED
  BY <1>1, <1>2, <1>3, <1>4, <1>5, <1>8 DEF m, n
-----------------------------------------------------------------------------
(* A batch. *)

\* The logs of the blocks up to one come first among those in chain order.
LEMMA UpToIsPrefix ==
  ASSUME NEW S, NEW all \in Seq(S), NEW b \in Nat, \A l \in S : l.blockNumber \in Nat,
         \A i, j \in DOMAIN all : i <= j => all[i].blockNumber <= all[j].blockNumber
  PROVE  \E n \in 0..Len(all) :
            /\ UpTo(all, b) = SubSeq(all, 1, n)
            /\ \A i \in DOMAIN all : all[i].blockNumber <= b <=> i <= n
<1> DEFINE m == Len(all)
           B(i) == all[i].blockNumber
           T == {n \in 0..m : \A i \in 1..m : i > n => ~(B(i) <= b)}
<1>1. m \in Nat /\ DOMAIN all = 1..m
  BY LenProperties
<1>2. \A i \in 1..m : B(i) \in Nat
  <2>1. all \in [1..m -> S]
    BY LenProperties
  <2> QED
    BY <2>1
<1>3. \A i, j \in 1..m : i <= j => B(i) <= B(j)
  BY <1>1
<1> HIDE DEF m, B
<1>4. PICK n \in T : \A k \in T : n <= k
  <2>1. m \in T
    BY <1>1
  <2>2. T \in SUBSET Nat
    BY <1>1
  <2> HIDE DEF T
  <2> QED
    BY <2>1, <2>2, Smallest
<1>5. \A i \in 1..m : B(i) <= b <=> i <= n
  <2>1. \A i \in 1..m : B(i) <= b => i <= n
    BY <1>1, <1>4
  <2>2. CASE n = 0
    BY <2>1, <2>2, <1>1
  <2>3. CASE n # 0
    <3>1. n \in 1..m /\ n - 1 \in 0..m /\ n - 1 \notin T
      BY <2>3, <1>1, <1>4
    <3>2. PICK i \in 1..m : i > n - 1 /\ B(i) <= b
      BY <3>1
    <3>3. n <= i
      BY <3>1, <3>2, <1>1
    <3>4. B(n) <= b
      BY <3>1, <3>2, <3>3, <1>2, <1>3
    <3>5. \A j \in 1..m : j <= n => B(j) <= b
      BY <3>1, <3>4, <1>2, <1>3
    <3> QED
      BY <2>1, <3>5
  <2> QED
    BY <2>2, <2>3
<1>6. \E k \in 0..m : \A i \in 1..m : B(i) <= b <=> i <= k
  BY <1>4, <1>5
<1> DEFINE c == CHOOSE k \in 0..m : \A i \in 1..m : B(i) <= b <=> i <= k
<1>7. c \in 0..m /\ \A i \in 1..m : B(i) <= b <=> i <= c
  BY <1>6
<1>8. UpTo(all, b) = SubSeq(all, 1, c)
  BY <1>1 DEF UpTo, m, B
<1> HIDE DEF c
<1> QED
  BY <1>1, <1>7, <1>8 DEF m, B

\* The logs of a batch that is a prefix, newest first, and what remains.
LEMMA PrefixOfLogs ==
  ASSUME NEW S, NEW all \in Seq(S), NEW n \in 0..Len(all)
  PROVE  LET logs == SortLogs(SubSeq(all, 1, n))
             rest == SubSeq(all, n + 1, Len(all))
         IN /\ Len(SubSeq(all, 1, n)) = n
            /\ logs \in Seq(S) /\ DOMAIN logs = 1..n
            /\ \A i \in 1..n : n - i + 1 \in 1..n /\ logs[i] = all[n - i + 1]
            /\ ToSet(logs) = {all[i] : i \in 1..n}
            /\ rest \in Seq(S) /\ Len(rest) = Len(all) - n
            /\ DOMAIN rest = 1..(Len(all) - n)
            /\ \A i \in 1..(Len(all) - n) :
                  n + i \in (n + 1)..Len(all) /\ rest[i] = all[n + i]
<1> DEFINE m == Len(all)
           prefix == SubSeq(all, 1, n)
           logs == SortLogs(prefix)
           rest == SubSeq(all, n + 1, m)
<1>1. m \in Nat /\ \A i \in 1..m : all[i] \in S
  BY LenProperties
<1>2. n \in Nat /\ n <= m
  BY <1>1
<1>3. prefix \in Seq(S) /\ Len(prefix) = n /\ \A i \in 1..n : prefix[i] = all[i]
  <2>1. \A i \in 1..n : all[i] \in S
    BY <1>1, <1>2
  <2>2. /\ prefix \in Seq(S) /\ Len(prefix) = IF 1 <= n THEN n - 1 + 1 ELSE 0
        /\ \A i \in 1..(n - 1 + 1) : prefix[i] = all[1 + i - 1]
    BY <2>1, <1>2, SubSeqProperties
  <2>3. n - 1 + 1 = n /\ \A i \in 1..n : 1 + i - 1 = i
    BY <1>2
  <2> QED
    BY <2>2, <2>3, <1>2
<1>4. rest \in Seq(S) /\ Len(rest) = m - n /\ \A i \in 1..(m - n) : rest[i] = all[n + i]
  <2>1. \A i \in (n + 1)..m : all[i] \in S
    BY <1>1, <1>2
  <2>2. /\ rest \in Seq(S) /\ Len(rest) = IF n + 1 <= m THEN m - (n + 1) + 1 ELSE 0
        /\ \A i \in 1..(m - (n + 1) + 1) : rest[i] = all[(n + 1) + i - 1]
    BY <2>1, <1>1, <1>2, SubSeqProperties
  <2>3. m - (n + 1) + 1 = m - n /\ \A i \in 1..(m - n) : (n + 1) + i - 1 = n + i
    BY <1>1, <1>2
  <2>4. ~(n + 1 <= m) => m - n = 0
    BY <1>1, <1>2
  <2>5. Len(rest) = m - n
    BY <2>2, <2>3, <2>4
  <2> HIDE DEF rest
  <2> QED
    BY <2>2, <2>3, <2>5
<1>5. /\ logs \in Seq(S) /\ Len(logs) = n
      /\ \A i \in 1..n : logs[i] = prefix[n - i + 1]
      /\ ToSet(logs) = {prefix[i] : i \in 1..n}
  <2> HIDE DEF prefix
  <2> QED
    BY <1>3, SortedLogs
<1> HIDE DEF prefix, logs, rest, m
<1>6. \A i \in 1..n : n - i + 1 \in 1..n
  BY <1>2
<1>7. \A i \in 1..(m - n) : n + i \in (n + 1)..m
  BY <1>1, <1>2
<1>8. \A i \in 1..n : logs[i] = all[n - i + 1]
  BY <1>3, <1>5, <1>6
<1>9. ToSet(logs) = {all[i] : i \in 1..n}
  BY <1>3, <1>5
<1>10. DOMAIN logs = 1..n /\ DOMAIN rest = 1..(m - n)
  BY <1>4, <1>5, LenProperties
<1> QED
  BY <1>3, <1>4, <1>5, <1>6, <1>7, <1>8, <1>9, <1>10 DEF prefix, logs, rest, m
\* The pending logs of the blocks up to one come first.
LEMMA BatchIsPrefix ==
  ASSUME PendingShape, NEW b \in Nat
  PROVE  \E n \in 0..Len(pending) :
            /\ Batch(b) = SubSeq(pending, 1, n)
            /\ \A i \in DOMAIN pending : pending[i].blockNumber <= b <=> i <= n
<1>1. \A l \in PendingLog : l.blockNumber \in Nat
  BY DEF PendingLog
<1>2. /\ pending \in Seq(PendingLog)
      /\ \A i, j \in DOMAIN pending : i <= j => pending[i].blockNumber <= pending[j].blockNumber
  BY DEF PendingShape
<1> QED
  BY <1>1, <1>2, UpToIsPrefix DEF Batch

\* The logs of a batch that is a prefix of the pending ones, and what remains.
LEMMA PrefixLogs ==
  ASSUME PendingShape, NEW n \in 0..Len(pending)
  PROVE  LET logs == SortLogs(SubSeq(pending, 1, n))
             rest == SubSeq(pending, n + 1, Len(pending))
         IN /\ Len(SubSeq(pending, 1, n)) = n
            /\ logs \in Seq(PendingLog) /\ DOMAIN logs = 1..n
            /\ \A i \in 1..n : n - i + 1 \in 1..n /\ logs[i] = pending[n - i + 1]
            /\ ToSet(logs) = {pending[i] : i \in 1..n}
            /\ rest \in Seq(PendingLog) /\ Len(rest) = Len(pending) - n
            /\ DOMAIN rest = 1..(Len(pending) - n)
            /\ \A i \in 1..(Len(pending) - n) :
                  n + i \in (n + 1)..Len(pending) /\ rest[i] = pending[n + i]
BY PrefixOfLogs DEF PendingShape

-----------------------------------------------------------------------------
(* The operations of a batch: which rows there are after each, and does it throw? *)

Fields == {"providers", "capabilities", "deals", "terms", "thrown"}

\* The entities that the logs of an event are about.
Subjects(logs, event) == {l.entity : l \in EventsOf(logs, event)}

\* prepareProvidersCreations adds a row for every registration.
LEMMA CreateProvidersRows ==
  ASSUME NEW t, DOMAIN t = Fields, NEW logs
  PROVE  LET u == CreateProviders(t, logs)
             new == Subjects(logs, "ProviderRegistered")
         IN /\ DOMAIN u = Fields
            /\ DOMAIN u.providers = DOMAIN t.providers \cup new
            /\ DOMAIN u.capabilities = DOMAIN t.capabilities \cup new
            /\ u.deals = t.deals /\ u.terms = t.terms /\ u.thrown = t.thrown
<1> DEFINE new == Subjects(logs, "ProviderRegistered")
           p == Spread(t.providers, [x \in new |-> NewProvider])
           c == Spread(t.capabilities, [x \in new |-> Default])
<1>1. CreateProviders(t, logs) = [t EXCEPT !.providers = p, !.capabilities = c]
  BY DEF CreateProviders, Subjects
<1>2. DOMAIN p = DOMAIN t.providers \cup new /\ DOMAIN c = DOMAIN t.capabilities \cup new
  BY DEF Spread
<1> HIDE DEF p, c, new
<1> QED
  BY <1>1, <1>2 DEF Fields, new

\* prepareProvidersUpdates changes rows and throws if one is missing.
LEMMA UpdateProvidersRows ==
  ASSUME NEW t, DOMAIN t = Fields, NEW logs
  PROVE  LET u == UpdateProviders(t, logs)
         IN /\ DOMAIN u = Fields
            /\ DOMAIN u.providers = DOMAIN t.providers
            /\ u.capabilities = t.capabilities /\ u.deals = t.deals /\ u.terms = t.terms
            /\ u.thrown = (t.thrown \/ ~(Entities(logs) \cap Providers \subseteq DOMAIN t.providers))
<1> DEFINE f(p) == ApplyUpdate(t.providers[p], UpdateInput(ByteColumns, ProviderUpdates(logs, p)))
           g == [p \in DOMAIN t.providers |-> f(p)]
           x == t.thrown \/ ~(Entities(logs) \cap Providers \subseteq DOMAIN t.providers)
<1>1. UpdateProviders(t, logs) = [t EXCEPT !.providers = g, !.thrown = x]
  BY DEF UpdateProviders
<1> HIDE DEF f
<1>2. DOMAIN g = DOMAIN t.providers
  OBVIOUS
<1> HIDE DEF g, x
<1> QED
  BY <1>1, <1>2 DEF Fields, x

\* prepareProvidersCapabilitiesUpdates changes rows.
LEMMA UpdateProvidersCapabilitiesRows ==
  ASSUME NEW t, DOMAIN t = Fields, NEW logs
  PROVE  LET u == UpdateProvidersCapabilities(t, logs)
         IN /\ DOMAIN u = Fields
            /\ DOMAIN u.capabilities = DOMAIN t.capabilities
            /\ u.providers = t.providers /\ u.deals = t.deals /\ u.terms = t.terms
            /\ u.thrown = t.thrown
<1> DEFINE of(p) == {i \in DOMAIN logs : logs[i].entity = p /\ logs[i].eventName = "CapabilitiesUpdated"}
           g == [p \in DOMAIN t.capabilities |->
                   IF of(p) = {} THEN t.capabilities[p] ELSE logs[Max(of(p))].args.value]
<1>1. UpdateProvidersCapabilities(t, logs) = [t EXCEPT !.capabilities = g]
  BY DEF UpdateProvidersCapabilities
<1> HIDE DEF of
<1>2. DOMAIN g = DOMAIN t.capabilities
  OBVIOUS
<1> HIDE DEF g
<1> QED
  BY <1>1, <1>2 DEF Fields

\* prepareDealsCreations adds a row for every proposal, and its terms if the contract lists it.
LEMMA CreateDealsRows ==
  ASSUME NEW t, DOMAIN t = Fields, NEW logs, NEW allDeals
  PROVE  LET u == CreateDeals(t, logs, allDeals)
             ids == Subjects(logs, "DealProposalCreated")
         IN /\ DOMAIN u = Fields
            /\ u.providers = t.providers /\ u.capabilities = t.capabilities
            /\ DOMAIN u.deals = DOMAIN t.deals \cup ids
            /\ DOMAIN u.terms = DOMAIN t.terms \cup (DOMAIN allDeals \cap ids)
            /\ u.thrown = t.thrown
<1> DEFINE ids == Subjects(logs, "DealProposalCreated")
           log(x) == CHOOSE l \in EventsOf(logs, "DealProposalCreated") : l.entity = x
           f(x) == NewDeal(log(x).args.provider, log(x).args.totalDealSize,
                           log(x).args.manifestLocation)
           d == Spread(t.deals, [x \in ids |-> f(x)])
           e == Spread(t.terms, [x \in DOMAIN allDeals \cap ids |-> allDeals[x].totalDealSize])
<1>1. CreateDeals(t, logs, allDeals) = [t EXCEPT !.deals = d, !.terms = e]
  BY DEF CreateDeals, Subjects
<1> HIDE DEF f, ids
<1>2. /\ DOMAIN d = DOMAIN t.deals \cup ids
      /\ DOMAIN e = DOMAIN t.terms \cup (DOMAIN allDeals \cap ids)
  BY DEF Spread
<1> HIDE DEF d, e
<1> QED
  BY <1>1, <1>2 DEF Fields, ids

\* prepareDealsUpdates changes rows and throws if one is missing.
LEMMA UpdateDealsRows ==
  ASSUME NEW t, DOMAIN t = Fields, NEW logs
  PROVE  LET u == UpdateDeals(t, logs)
         IN /\ DOMAIN u = Fields
            /\ DOMAIN u.deals = DOMAIN t.deals
            /\ u.providers = t.providers /\ u.capabilities = t.capabilities /\ u.terms = t.terms
            /\ u.thrown = (t.thrown \/ ~(Entities(logs) \cap Deals \subseteq DOMAIN t.deals))
<1> DEFINE f(d) == ApplyUpdate(t.deals[d], UpdateInput({}, DealUpdates(logs, d)))
           g == [d \in DOMAIN t.deals |-> f(d)]
           x == t.thrown \/ ~(Entities(logs) \cap Deals \subseteq DOMAIN t.deals)
<1>1. UpdateDeals(t, logs) = [t EXCEPT !.deals = g, !.thrown = x]
  BY DEF UpdateDeals
<1> HIDE DEF f
<1>2. DOMAIN g = DOMAIN t.deals
  OBVIOUS
<1> HIDE DEF g, x
<1> QED
  BY <1>1, <1>2 DEF Fields, x

\* After the operations of a batch the tables have the old rows and the inserted ones,
\* and none has thrown if the rows the logs are about are among them.
LEMMA BatchRows ==
  ASSUME NEW t, DOMAIN t = Fields, t.thrown = FALSE, NEW logs, NEW allDeals
  PROVE  LET u == BatchTables(t, logs, allDeals)
             new == Subjects(logs, "ProviderRegistered")
             ids == Subjects(logs, "DealProposalCreated")
         IN /\ DOMAIN u = Fields
            /\ DOMAIN u.providers = DOMAIN t.providers \cup new
            /\ DOMAIN u.capabilities = DOMAIN t.capabilities \cup new
            /\ DOMAIN u.deals = DOMAIN t.deals \cup ids
            /\ DOMAIN u.terms = DOMAIN t.terms \cup (DOMAIN allDeals \cap ids)
            /\ u.thrown = ~( /\ Entities(logs) \cap Providers \subseteq DOMAIN t.providers \cup new
                             /\ Entities(logs) \cap Deals \subseteq DOMAIN t.deals \cup ids)
<1> DEFINE t1 == CreateProviders(t, logs)
           t2 == UpdateProviders(t1, logs)
           t3 == UpdateProvidersCapabilities(t2, logs)
           t4 == CreateDeals(t3, logs, allDeals)
           u == UpdateDeals(t4, logs)
           new == Subjects(logs, "ProviderRegistered")
           ids == Subjects(logs, "DealProposalCreated")
<1>1. BatchTables(t, logs, allDeals) = u
  BY DEF BatchTables
<1>2. /\ DOMAIN t1 = Fields
      /\ DOMAIN t1.providers = DOMAIN t.providers \cup new
      /\ DOMAIN t1.capabilities = DOMAIN t.capabilities \cup new
      /\ t1.deals = t.deals /\ t1.terms = t.terms /\ t1.thrown = FALSE
  BY CreateProvidersRows
<1> HIDE DEF t1
<1>3. /\ DOMAIN t2 = Fields
      /\ DOMAIN t2.providers = DOMAIN t1.providers
      /\ t2.capabilities = t1.capabilities /\ t2.deals = t1.deals /\ t2.terms = t1.terms
      /\ t2.thrown = (t1.thrown \/ ~(Entities(logs) \cap Providers \subseteq DOMAIN t1.providers))
  BY <1>2, UpdateProvidersRows
<1> HIDE DEF t2
<1>4. /\ DOMAIN t3 = Fields
      /\ DOMAIN t3.capabilities = DOMAIN t2.capabilities
      /\ t3.providers = t2.providers /\ t3.deals = t2.deals /\ t3.terms = t2.terms
      /\ t3.thrown = t2.thrown
  BY <1>3, UpdateProvidersCapabilitiesRows
<1> HIDE DEF t3
<1>5. /\ DOMAIN t4 = Fields
      /\ t4.providers = t3.providers /\ t4.capabilities = t3.capabilities
      /\ DOMAIN t4.deals = DOMAIN t3.deals \cup ids
      /\ DOMAIN t4.terms = DOMAIN t3.terms \cup (DOMAIN allDeals \cap ids)
      /\ t4.thrown = t3.thrown
  BY <1>4, CreateDealsRows
<1> HIDE DEF t4
<1>6. /\ DOMAIN u = Fields
      /\ DOMAIN u.deals = DOMAIN t4.deals
      /\ u.providers = t4.providers /\ u.capabilities = t4.capabilities /\ u.terms = t4.terms
      /\ u.thrown = (t4.thrown \/ ~(Entities(logs) \cap Deals \subseteq DOMAIN t4.deals))
  BY <1>5, UpdateDealsRows
<1> HIDE DEF u, new, ids
<1>7. u.thrown = ~( /\ Entities(logs) \cap Providers \subseteq DOMAIN t.providers \cup new
                    /\ Entities(logs) \cap Deals \subseteq DOMAIN t.deals \cup ids)
  BY <1>2, <1>3, <1>4, <1>5, <1>6
<1>8. /\ DOMAIN u.providers = DOMAIN t.providers \cup new
      /\ DOMAIN u.capabilities = DOMAIN t.capabilities \cup new
      /\ DOMAIN u.deals = DOMAIN t.deals \cup ids
      /\ DOMAIN u.terms = DOMAIN t.terms \cup (DOMAIN allDeals \cap ids)
  BY <1>2, <1>3, <1>4, <1>5, <1>6
<1> QED
  BY <1>1, <1>6, <1>7, <1>8 DEF new, ids
-----------------------------------------------------------------------------
(* No batch throws. *)

\* A pending log, and what it says of its entity.
LEMMA PendingLogs ==
  ASSUME PendingShape, NEW i \in DOMAIN pending
  PROVE  /\ i \in 1..Len(pending) /\ Len(pending) \in Nat
         /\ pending[i] \in PendingLog /\ pending[i].entity \in Providers \cup Deals
         /\ pending[i].eventName = "ProviderRegistered" => pending[i].entity \in Providers
         /\ pending[i].eventName \in StateEvents => pending[i].entity \in Deals
         /\ pending[i].eventName = "DealProposalCreated" =>
               pending[i].entity \in Deals /\ pending[i].args.provider \in Providers
<1>1. pending[i] \in PendingLog /\ i \in 1..Len(pending) /\ Len(pending) \in Nat
  BY LenProperties DEF PendingShape
<1>2. pending[i].entity \in Providers \cup Deals
  BY <1>1 DEF PendingLog
<1> QED
  BY <1>1, <1>2 DEF PendingShape, WellFormed

\* Rows of providers are inserted by registrations, rows of deals by proposals.
LEMMA InsertedBy ==
  ASSUME PendingShape, NEW e, NEW i \in Int, Inserted(e, i)
  PROVE  \E j \in DOMAIN pending :
            /\ j <= i /\ pending[j].entity = e
            /\ e \in Providers => pending[j].eventName = "ProviderRegistered"
            /\ e \in Deals => pending[j].eventName = "DealProposalCreated"
<1>1. PICK j \in DOMAIN pending : /\ j <= i /\ pending[j].eventName \in RowEvents
                                  /\ pending[j].entity = e
  BY DEF Inserted
<1>2. e \in Providers => e \notin Deals
  BY ConstantsAssumption
<1>3. e \in Providers => pending[j].eventName = "ProviderRegistered"
  BY <1>1, <1>2, PendingLogs DEF RowEvents
<1>4. e \in Deals => pending[j].eventName = "DealProposalCreated"
  BY <1>1, <1>2, PendingLogs DEF RowEvents
<1> QED
  BY <1>1, <1>3, <1>4

\* Which table has the row of an entity.
LEMMA PresentIn ==
  ASSUME TablesShape, ChainShape, NEW e
  PROVE  /\ e \in Providers => /\ Present(e) <=> e \in DOMAIN tables.providers
                               /\ Known(e) <=> e \in DOMAIN chain.providers
         /\ e \in Deals => /\ Present(e) <=> e \in DOMAIN tables.deals
                           /\ Known(e) <=> e \in DOMAIN chain.deals
BY ConstantsAssumption DEF TablesShape, ChainShape, Present, Known

\* The logs of a batch are the pending ones up to a position.
LEMMA BatchLogs ==
  ASSUME PendingShape, NEW b \in Nat
  PROVE  \E n \in 0..Len(pending) :
            LET logs == SortLogs(Batch(b))
            IN /\ Batch(b) = SubSeq(pending, 1, n) /\ Len(Batch(b)) = n
               /\ logs \in Seq(PendingLog) /\ DOMAIN logs = 1..n
               /\ \A i \in 1..n : n - i + 1 \in 1..n /\ logs[i] = pending[n - i + 1]
               /\ \A l : l \in ToSet(logs) <=> \E i \in 1..n : l = pending[i]
               /\ Entities(logs) = {pending[i].entity : i \in 1..n}
               /\ \A event, e : e \in Subjects(logs, event) <=>
                     \E i \in 1..n : pending[i].eventName = event /\ pending[i].entity = e
<1>1. PICK n \in 0..Len(pending) : Batch(b) = SubSeq(pending, 1, n)
  BY BatchIsPrefix
<1> DEFINE logs == SortLogs(Batch(b))
<1>2. /\ Len(SubSeq(pending, 1, n)) = n
      /\ logs \in Seq(PendingLog) /\ DOMAIN logs = 1..n
      /\ \A i \in 1..n : n - i + 1 \in 1..n /\ logs[i] = pending[n - i + 1]
      /\ ToSet(logs) = {pending[i] : i \in 1..n}
  BY <1>1, PrefixLogs
<1> HIDE DEF logs
<1>3. Entities(logs) = {l.entity : l \in ToSet(logs)}
  BY DEF Entities, ToSet
<1>4. Entities(logs) = {pending[i].entity : i \in 1..n}
  BY <1>2, <1>3
<1>5. \A event, e : e \in Subjects(logs, event) <=>
                     \E i \in 1..n : pending[i].eventName = event /\ pending[i].entity = e
  BY <1>2 DEF Subjects, EventsOf
<1> QED
  BY <1>1, <1>2, <1>4, <1>5 DEF logs

\* Every batch of pending logs finds the rows it updates and inserts none that is there.
LEMMA BatchSucceeds ==
  ASSUME IInv, NEW b \in Nat
  PROVE  Succeeds(SortLogs(Batch(b)))
<1>1. ChainShape /\ TablesShape /\ PendingShape /\ RowsInv /\ OnceInv /\ HistoryInv
  BY DEF IInv
<1> DEFINE logs == SortLogs(Batch(b))
           t == BatchTables(tables, logs, chain.deals)
           new == Subjects(logs, "ProviderRegistered")
           ids == Subjects(logs, "DealProposalCreated")
<1>2. PICK n \in 0..Len(pending) :
               /\ DOMAIN logs = 1..n
               /\ \A i \in 1..n : n - i + 1 \in 1..n /\ logs[i] = pending[n - i + 1]
               /\ \A l : l \in ToSet(logs) <=> \E i \in 1..n : l = pending[i]
               /\ Entities(logs) = {pending[i].entity : i \in 1..n}
               /\ \A event, e : e \in Subjects(logs, event) <=>
                     \E i \in 1..n : pending[i].eventName = event /\ pending[i].entity = e
  BY <1>1, BatchLogs
<1>3. Len(pending) \in Nat /\ DOMAIN pending = 1..Len(pending)
  BY <1>1, LenProperties DEF PendingShape
<1>4. n \in Nat /\ \A i \in 1..n : i \in DOMAIN pending
  BY <1>3
<1>5. /\ DOMAIN t.providers = DOMAIN tables.providers \cup new
      /\ t.thrown = ~( /\ Entities(logs) \cap Providers \subseteq DOMAIN tables.providers \cup new
                       /\ Entities(logs) \cap Deals \subseteq DOMAIN tables.deals \cup ids)
  BY <1>1, BatchRows DEF TablesShape, Fields
<1> HIDE DEF logs, t
<1>6. ASSUME NEW e, NEW i \in 1..n, Present(e) \/ Inserted(e, i)
      PROVE  /\ e \in Providers => e \in DOMAIN tables.providers \cup new
             /\ e \in Deals => e \in DOMAIN tables.deals \cup ids
  <2>1. CASE Present(e)
    BY <2>1, <1>1, PresentIn
  <2>2. CASE Inserted(e, i)
    <3>1. PICK j \in DOMAIN pending :
            /\ j <= i /\ pending[j].entity = e
            /\ e \in Providers => pending[j].eventName = "ProviderRegistered"
            /\ e \in Deals => pending[j].eventName = "DealProposalCreated"
      BY <2>2, <1>1, <1>4, InsertedBy
    <3>2. j \in 1..n
      BY <3>1, <1>3, <1>4
    <3> QED
      BY <3>1, <3>2, <1>2
  <2> QED
    BY <2>1, <2>2, <1>6
<1>7. \A i \in 1..n : Present(pending[i].entity) \/ Inserted(pending[i].entity, i)
  BY <1>1, <1>4 DEF RowsInv
<1>8. ~t.thrown
  <2>0. ASSUME NEW i \in 1..n
        PROVE  /\ pending[i].entity \in Providers => pending[i].entity \in DOMAIN tables.providers \cup new
               /\ pending[i].entity \in Deals => pending[i].entity \in DOMAIN tables.deals \cup ids
    <3>1. Present(pending[i].entity) \/ Inserted(pending[i].entity, i)
      BY <1>7
    <3> HIDE DEF new, ids
    <3> QED
      BY <3>1, <1>6
  <2> HIDE DEF new, ids
  <2>1. Entities(logs) \cap Providers \subseteq DOMAIN tables.providers \cup new
    BY <1>2, <2>0
  <2>2. Entities(logs) \cap Deals \subseteq DOMAIN tables.deals \cup ids
    BY <1>2, <2>0
  <2> QED
    BY <2>1, <2>2, <1>5
<1>9. \A l \in EventsOf(logs, "ProviderRegistered") : l.entity \notin DOMAIN tables.providers
  <2> SUFFICES ASSUME NEW i \in 1..n, pending[i].eventName = "ProviderRegistered"
               PROVE  pending[i].entity \notin DOMAIN tables.providers
    BY <1>2 DEF EventsOf
  <2>1. i \in DOMAIN pending /\ pending[i].entity \in Providers /\ ~Present(pending[i].entity)
    BY <1>1, <1>4, PendingLogs DEF RowsInv, RowEvents
  <2> QED
    BY <2>1 DEF Present
<1>10. \A l \in EventsOf(logs, "DealProposalCreated") :
          l.entity \notin DOMAIN tables.deals /\ l.args.provider \in DOMAIN t.providers
  <2> SUFFICES ASSUME NEW i \in 1..n, pending[i].eventName = "DealProposalCreated"
               PROVE  /\ pending[i].entity \notin DOMAIN tables.deals
                      /\ pending[i].args.provider \in DOMAIN t.providers
    BY <1>2 DEF EventsOf
  <2>1. i \in DOMAIN pending /\ ~Present(pending[i].entity)
    BY <1>1, <1>4 DEF RowsInv, RowEvents
  <2>2. /\ Present(pending[i].args.provider) \/ Inserted(pending[i].args.provider, i)
        /\ pending[i].args.provider \in Providers
    BY <1>1, <1>4, PendingLogs DEF RowsInv
  <2>3. pending[i].args.provider \in DOMAIN t.providers
    BY <2>2, <1>5, <1>6
  <2> QED
    BY <2>1, <2>3 DEF Present
<1>11. DOMAIN EventNameToDealState = StateEvents
  BY DEF EventNameToDealState, StateEvents
<1>12. StateChangeRows(logs) \cap stateChanges = {}
  <2> SUFFICES ASSUME NEW x \in StateChangeRows(logs)
               PROVE  x \notin stateChanges
    OBVIOUS
  <2>1. PICK l \in ToSet(logs) : /\ l.eventName \in StateEvents
                                 /\ x = <<l.entity, EventNameToDealState[l.eventName]>>
    BY <1>11 DEF StateChangeRows
  <2>2. PICK i \in 1..n : l = pending[i]
    BY <1>2
  <2> QED
    BY <1>1, <1>4, <2>1, <2>2 DEF HistoryInv
<1>13. \A i, j \in DOMAIN logs : /\ logs[i].eventName \in InsertingEvents
                                 /\ logs[i].eventName = logs[j].eventName
                                 /\ logs[i].entity = logs[j].entity
                                 => i = j
  <2> SUFFICES ASSUME NEW i \in 1..n, NEW j \in 1..n,
                      logs[i].eventName \in InsertingEvents,
                      logs[i].eventName = logs[j].eventName,
                      logs[i].entity = logs[j].entity
               PROVE  i = j
    BY <1>2
  <2>1. InsertingEvents = RowEvents \cup StateEvents
    BY <1>11 DEF InsertingEvents, RowEvents
  <2>2. /\ n - i + 1 \in DOMAIN pending /\ logs[i] = pending[n - i + 1]
        /\ n - j + 1 \in DOMAIN pending /\ logs[j] = pending[n - j + 1]
    BY <1>2, <1>4
  <2>3. n - i + 1 = n - j + 1
    BY <2>1, <2>2, <1>1 DEF OnceInv
  <2> QED
    BY <2>3, <1>4
<1> QED
  BY <1>8, <1>9, <1>10, <1>12, <1>13 DEF Succeeds, t, logs
-----------------------------------------------------------------------------
(* The runner's step. *)

\* What a batch of the first n pending logs does to the rows, the history and the logs.
LEMMA IndexedBatch ==
  ASSUME IInv, NEW b \in Nat, Index(b)
  PROVE  \E n \in 0..Len(pending) :
            /\ \A e : Present(e)' <=> Present(e) \/ Inserted(e, n)
            /\ \A e, s : <<e, s>> \in stateChanges' <=>
                  \/ <<e, s>> \in stateChanges
                  \/ \E i \in 1..n : /\ pending[i].eventName \in StateEvents /\ pending[i].entity = e
                                     /\ EventNameToDealState[pending[i].eventName] = s
            /\ stateChanges \subseteq Deals \X States => stateChanges' \subseteq Deals \X States
            /\ pending' \in Seq(PendingLog) /\ Len(pending') = Len(pending) - n
            /\ DOMAIN pending' = 1..(Len(pending) - n)
            /\ \A i \in DOMAIN pending' : n + i \in DOMAIN pending /\ pending'[i] = pending[n + i]
            /\ \A j \in DOMAIN pending : j > n => j - n \in DOMAIN pending' /\ pending'[j - n] = pending[j]
            /\ TablesShape'
<1>1. ChainShape /\ TablesShape /\ PendingShape /\ RowsInv /\ OnceInv /\ HistoryInv
  BY DEF IInv
<1> DEFINE logs == SortLogs(Batch(b))
           new == Subjects(logs, "ProviderRegistered")
           ids == Subjects(logs, "DealProposalCreated")
<1>2. PICK n \in 0..Len(pending) :
               /\ Batch(b) = SubSeq(pending, 1, n) /\ Len(Batch(b)) = n
               /\ \A l : l \in ToSet(logs) <=> \E i \in 1..n : l = pending[i]
               /\ \A event, e : e \in Subjects(logs, event) <=>
                     \E i \in 1..n : pending[i].eventName = event /\ pending[i].entity = e
  BY <1>1, BatchLogs
<1>3. Len(pending) \in Nat /\ DOMAIN pending = 1..Len(pending)
  BY <1>1, LenProperties DEF PendingShape
<1>4. n \in Nat /\ \A i \in 1..n : i \in DOMAIN pending
  BY <1>3
<1>5. /\ tables' = BatchTables(tables, logs, chain.deals)
      /\ stateChanges' = stateChanges \cup StateChangeRows(logs)
      /\ pending' = SubSeq(pending, n + 1, Len(pending))
      /\ ~BatchTables(tables, logs, chain.deals).thrown
  BY <1>2 DEF Index, Succeeds
<1>6. /\ DOMAIN tables' = Fields
      /\ DOMAIN tables'.providers = DOMAIN tables.providers \cup new
      /\ DOMAIN tables'.capabilities = DOMAIN tables.capabilities \cup new
      /\ DOMAIN tables'.deals = DOMAIN tables.deals \cup ids
      /\ DOMAIN tables'.terms = DOMAIN tables.terms \cup (DOMAIN chain.deals \cap ids)
      /\ tables'.thrown \in BOOLEAN
  <2> DEFINE u == BatchTables(tables, logs, chain.deals)
  <2>1. DOMAIN tables = Fields /\ tables.thrown = FALSE
    BY <1>1 DEF TablesShape, Fields
  <2> HIDE DEF logs
  <2>2. /\ DOMAIN u = Fields
        /\ DOMAIN u.providers = DOMAIN tables.providers \cup new
        /\ DOMAIN u.capabilities = DOMAIN tables.capabilities \cup new
        /\ DOMAIN u.deals = DOMAIN tables.deals \cup ids
        /\ DOMAIN u.terms = DOMAIN tables.terms \cup (DOMAIN chain.deals \cap ids)
        /\ u.thrown = ~( /\ Entities(logs) \cap Providers \subseteq DOMAIN tables.providers \cup new
                         /\ Entities(logs) \cap Deals \subseteq DOMAIN tables.deals \cup ids)
    BY <2>1, BatchRows
  <2>3. tables' = u
    BY <1>5
  <2> HIDE DEF u, new, ids
  <2> QED
    BY <2>2, <2>3
<1>7. tables'.thrown = FALSE
  BY <1>5, <1>6
<1> HIDE DEF logs
<1>8. /\ pending' \in Seq(PendingLog) /\ Len(pending') = Len(pending) - n
      /\ DOMAIN pending' = 1..(Len(pending) - n)
      /\ \A i \in 1..(Len(pending) - n) :
            n + i \in (n + 1)..Len(pending) /\ pending'[i] = pending[n + i]
  BY <1>1, <1>5, PrefixLogs
<1>9. \A i \in DOMAIN pending' : n + i \in DOMAIN pending /\ pending'[i] = pending[n + i]
  BY <1>3, <1>4, <1>8
<1>10. ASSUME NEW j \in DOMAIN pending, j > n
       PROVE  j - n \in DOMAIN pending' /\ pending'[j - n] = pending[j]
  <2> DEFINE i == j - n
  <2>1. i \in 1..(Len(pending) - n) /\ n + i = j
    BY <1>3, <1>4, <1>10
  <2> HIDE DEF i
  <2>2. pending'[i] = pending[j]
    BY <2>1, <1>8
  <2> QED
    BY <2>1, <2>2, <1>8 DEF i
<1>11. \A e : Inserted(e, n) <=> e \in new \cup ids
  <2> SUFFICES ASSUME NEW e PROVE Inserted(e, n) <=> e \in new \cup ids
    OBVIOUS
  <2>1. Inserted(e, n) <=> \E i \in 1..n : pending[i].eventName \in RowEvents /\ pending[i].entity = e
    BY <1>3, <1>4 DEF Inserted
  <2> QED
    BY <2>1, <1>2 DEF RowEvents
<1>12. \A e \in new : e \in Providers
  BY <1>1, <1>2, <1>4, PendingLogs
<1>13. \A e \in ids : e \in Deals /\ e \in DOMAIN chain.deals
  <2> SUFFICES ASSUME NEW e \in ids PROVE e \in Deals /\ e \in DOMAIN chain.deals
    OBVIOUS
  <2>1. PICK i \in 1..n : pending[i].eventName = "DealProposalCreated" /\ pending[i].entity = e
    BY <1>2
  <2>2. e \in Deals /\ Inserted(e, Len(pending))
    BY <2>1, <1>1, <1>3, <1>4, PendingLogs DEF Inserted, RowEvents
  <2>3. Known(e)
    BY <2>2, <1>1 DEF RowsInv
  <2> QED
    BY <2>2, <2>3, <1>1, PresentIn
<1> HIDE DEF new, ids
<1>14. \A e : Present(e)' <=> Present(e) \/ Inserted(e, n)
  BY <1>6, <1>11 DEF Present
<1>15. TablesShape'
  <2>1. DOMAIN tables'.providers \subseteq Providers /\ DOMAIN tables'.deals \subseteq Deals
    BY <1>1, <1>6, <1>12, <1>13 DEF TablesShape
  <2>2. DOMAIN tables'.capabilities = DOMAIN tables'.providers
    BY <1>1, <1>6 DEF TablesShape
  <2>3. DOMAIN tables'.terms = DOMAIN tables'.deals
    BY <1>1, <1>6, <1>13 DEF TablesShape
  <2> QED
    BY <2>1, <2>2, <2>3, <1>6, <1>7 DEF TablesShape, Fields
<1>16. DOMAIN EventNameToDealState = StateEvents
  BY DEF EventNameToDealState, StateEvents
<1>17. \A e, s : <<e, s>> \in StateChangeRows(logs) <=>
            \E i \in 1..n : /\ pending[i].eventName \in StateEvents /\ pending[i].entity = e
                            /\ EventNameToDealState[pending[i].eventName] = s
  <2> SUFFICES ASSUME NEW e, NEW s
               PROVE  <<e, s>> \in StateChangeRows(logs) <=>
                        \E i \in 1..n : /\ pending[i].eventName \in StateEvents /\ pending[i].entity = e
                                        /\ EventNameToDealState[pending[i].eventName] = s
    OBVIOUS
  <2>1. <<e, s>> \in StateChangeRows(logs) <=>
          \E l \in ToSet(logs) : /\ l.eventName \in StateEvents
                                 /\ <<e, s>> = <<l.entity, EventNameToDealState[l.eventName]>>
    BY <1>16 DEF StateChangeRows
  <2>2. \A l : l \in ToSet(logs) <=> \E i \in 1..n : l = pending[i]
    BY <1>2
  <2>3. \A l : <<e, s>> = <<l.entity, EventNameToDealState[l.eventName]>>
               <=> e = l.entity /\ s = EventNameToDealState[l.eventName]
    OBVIOUS
  <2> QED
    BY ONLY <2>1, <2>2, <2>3
<1>18. StateChangeRows(logs) \subseteq Deals \X States
  <2> SUFFICES ASSUME NEW x \in StateChangeRows(logs) PROVE x \in Deals \X States
    OBVIOUS
  <2>1. PICK l \in ToSet(logs) : /\ l.eventName \in StateEvents
                                 /\ x = <<l.entity, EventNameToDealState[l.eventName]>>
    BY <1>16 DEF StateChangeRows
  <2>2. PICK i \in 1..n : l = pending[i]
    BY <1>2
  <2>3. l.entity \in Deals
    BY <2>1, <2>2, <1>1, <1>4, PendingLogs
  <2>4. EventNameToDealState[l.eventName] \in States
    BY <2>1 DEF EventNameToDealState, StateEvents, States
  <2> QED
    BY <2>1, <2>3, <2>4
<1> WITNESS n \in 0..Len(pending)
<1> QED
  BY <1>5, <1>8, <1>9, <1>10, <1>14, <1>15, <1>17, <1>18

\* The runner keeps the invariant.
LEMMA IndexKeepsIInv ==
  ASSUME IInv, NEW b \in Nat, Index(b)
  PROVE  IInv'
<1>1. ChainShape /\ TablesShape /\ PendingShape /\ RowsInv /\ OnceInv /\ HistoryInv
  BY DEF IInv
<1>2. chain' = chain /\ block' = block
  BY DEF Index
<1>3. Len(pending) \in Nat /\ DOMAIN pending = 1..Len(pending)
  BY <1>1, LenProperties DEF PendingShape
<1>4. PICK n \in 0..Len(pending) :
            /\ \A e : Present(e)' <=> Present(e) \/ Inserted(e, n)
            /\ \A e, s : <<e, s>> \in stateChanges' <=>
                  \/ <<e, s>> \in stateChanges
                  \/ \E i \in 1..n : /\ pending[i].eventName \in StateEvents /\ pending[i].entity = e
                                     /\ EventNameToDealState[pending[i].eventName] = s
            /\ stateChanges \subseteq Deals \X States => stateChanges' \subseteq Deals \X States
            /\ pending' \in Seq(PendingLog) /\ Len(pending') = Len(pending) - n
            /\ DOMAIN pending' = 1..(Len(pending) - n)
            /\ \A i \in DOMAIN pending' : n + i \in DOMAIN pending /\ pending'[i] = pending[n + i]
            /\ \A j \in DOMAIN pending : j > n => j - n \in DOMAIN pending' /\ pending'[j - n] = pending[j]
            /\ TablesShape'
  BY IndexedBatch
<1>5. n \in Nat /\ \A i \in 1..n : i \in DOMAIN pending
  BY <1>3
<1>6. \A i \in DOMAIN pending' : i \in Nat /\ n < n + i
  BY <1>4, <1>5
<1>7. ChainShape'
  BY <1>1, <1>2 DEF ChainShape
<1>8. PendingShape'
  <2>1. \A i \in DOMAIN pending' : WellFormed(pending'[i]) /\ pending'[i].blockNumber <= block
    BY <1>1, <1>4 DEF PendingShape
  <2>2. \A i \in DOMAIN pending' : WellFormed(pending[i])' <=> WellFormed(pending'[i])
    BY DEF WellFormed
  <2>3. ASSUME NEW i \in DOMAIN pending', NEW j \in DOMAIN pending', i <= j
        PROVE  pending'[i].blockNumber <= pending'[j].blockNumber
    <3>1. n + i \in DOMAIN pending /\ n + j \in DOMAIN pending /\ n + i <= n + j
      BY <1>4, <1>5, <1>6, <2>3
    <3>2. pending[n + i].blockNumber <= pending[n + j].blockNumber
      BY <3>1, <1>1 DEF PendingShape
    <3> QED
      BY <3>2, <1>4
  <2> QED
    BY <1>1, <1>2, <1>4, <2>1, <2>2, <2>3 DEF PendingShape
\* A row is inserted by the batch or by what remains.
<1>9. ASSUME NEW e, NEW i \in Nat, i <= Len(pending')
      PROVE  Present(e)' \/ Inserted(e, i)' <=> Present(e) \/ Inserted(e, n + i)
  <2>1. Inserted(e, i)' <=> \E j \in DOMAIN pending' : /\ j <= i /\ pending'[j].eventName \in RowEvents
                                                      /\ pending'[j].entity = e
    BY DEF Inserted, RowEvents
  <2>2. Inserted(e, n + i) => Inserted(e, n) \/ Inserted(e, i)'
    <3> SUFFICES ASSUME NEW j \in DOMAIN pending, j <= n + i, ~(j <= n),
                        pending[j].eventName \in RowEvents, pending[j].entity = e
                 PROVE  Inserted(e, i)'
      BY <1>5 DEF Inserted
    <3>1. j > n /\ j - n <= i
      BY <1>3, <1>5
    <3>2. j - n \in DOMAIN pending' /\ pending'[j - n] = pending[j]
      BY <3>1, <1>4
    <3> QED
      BY <3>1, <3>2, <2>1
  <2>3. Inserted(e, n) => Inserted(e, n + i)
    BY <1>3, <1>5 DEF Inserted
  <2>4. Inserted(e, i)' => Inserted(e, n + i)
    <3> SUFFICES ASSUME NEW j \in DOMAIN pending', j <= i,
                        pending'[j].eventName \in RowEvents, pending'[j].entity = e
                 PROVE  Inserted(e, n + i)
      BY <2>1
    <3>1. n + j \in DOMAIN pending /\ n + j <= n + i
      BY <1>4, <1>5, <1>6
    <3>2. pending[n + j] = pending'[j]
      BY <1>4
    <3>3. pending[n + j].eventName \in RowEvents /\ pending[n + j].entity = e
      BY <3>2
    <3> QED
      BY <3>1, <3>3 DEF Inserted
  <2> QED
    BY <2>2, <2>3, <2>4, <1>4
<1>10. PICK m \in Nat : m = Len(pending') /\ n + m = Len(pending)
  <2>1. Len(pending') \in Nat /\ Len(pending') = Len(pending) - n
    BY <1>3, <1>4, <1>5
  <2>2. n + Len(pending') = Len(pending)
    BY <2>1, <1>3, <1>5
  <2> QED
    BY <2>1, <2>2
<1>11. RowsInv'
  <2>1. ASSUME NEW e \in Providers \cup Deals
        PROVE  Known(e)' <=> Present(e)' \/ Inserted(e, Len(pending))'
    <3>1. Known(e) <=> Present(e) \/ Inserted(e, n + m)
      BY <1>1, <1>10 DEF RowsInv
    <3>2. Known(e)' <=> Known(e)
      BY <1>2 DEF Known
    <3>3. Inserted(e, Len(pending))' <=> Inserted(e, m)'
      BY <1>10 DEF Inserted
    <3> QED
      BY <3>1, <3>2, <3>3, <1>9, <1>10
  <2>2. ASSUME NEW i \in DOMAIN pending', NEW e, e \in Providers \cup Deals,
               Present(e) \/ Inserted(e, n + i)
        PROVE  Present(e)' \/ Inserted(e, i)'
    BY <2>2, <1>4, <1>6, <1>9, <1>10
  <2>3. ASSUME NEW i \in DOMAIN pending', NEW e, e = pending'[i].entity
        PROVE  /\ Present(e)' \/ Inserted(e, i)'
               /\ pending'[i].eventName \in RowEvents => ~Present(e)'
               /\ pending'[i].eventName = "DealProposalCreated" =>
                    \A p : p = pending'[i].args.provider => Present(p)' \/ Inserted(p, i)'
    <3>1. n + i \in DOMAIN pending /\ pending'[i] = pending[n + i] /\ n < n + i
      BY <1>4, <1>6
    <3>2. Present(e) \/ Inserted(e, n + i)
      BY <3>1, <2>3, <1>1 DEF RowsInv
    <3>3. e \in Providers \cup Deals
      BY <3>1, <2>3, <1>1, PendingLogs
    <3>4. ASSUME pending'[i].eventName \in RowEvents, Present(e)'
          PROVE  FALSE
      <4>1. ~Present(e)
        BY <3>1, <3>4, <2>3, <1>1 DEF RowsInv
      <4>2. Inserted(e, n)
        BY <4>1, <3>4, <1>4
      <4>3. PICK j \in DOMAIN pending :
            /\ j <= n /\ pending[j].entity = e
            /\ e \in Providers => pending[j].eventName = "ProviderRegistered"
            /\ e \in Deals => pending[j].eventName = "DealProposalCreated"
        BY <4>2, <1>1, <1>5, InsertedBy
      <4>4. /\ e \in Providers => pending[n + i].eventName = "ProviderRegistered"
            /\ e \in Deals => pending[n + i].eventName = "DealProposalCreated"
        BY <3>1, <3>4, <2>3, <1>1, PendingLogs, ConstantsAssumption DEF RowEvents
      <4>5. pending[n + i].eventName = pending[j].eventName /\ pending[n + i].entity = pending[j].entity
        BY <3>1, <3>3, <4>3, <4>4, <2>3
      <4>6. n + i = j
        BY <3>1, <3>4, <4>3, <4>5, <1>1 DEF OnceInv
      <4> QED
        BY <4>3, <4>6, <3>1, <1>3, <1>5
    <3>5. ASSUME NEW p, p = pending'[i].args.provider, pending'[i].eventName = "DealProposalCreated"
          PROVE  Present(p)' \/ Inserted(p, i)'
      <4>1. Present(p) \/ Inserted(p, n + i)
        BY <3>1, <3>5, <1>1 DEF RowsInv
      <4>2. p \in Providers
        BY <3>1, <3>5, <1>1, PendingLogs
      <4> QED
        BY <4>1, <4>2, <2>2
    <3> QED
      BY <3>2, <3>3, <3>4, <3>5, <2>2
  <2>4. ASSUME NEW i \in DOMAIN pending'
        PROVE  /\ Present(pending[i].entity)' \/ Inserted(pending[i].entity, i)'
               /\ pending'[i].eventName \in RowEvents => ~Present(pending[i].entity)'
               /\ pending'[i].eventName = "DealProposalCreated" =>
                    Present(pending[i].args.provider)' \/ Inserted(pending[i].args.provider, i)'
    <3>1. PICK e, p : e = pending'[i].entity /\ p = pending'[i].args.provider
      OBVIOUS
    <3>2. /\ Present(pending[i].entity)' <=> Present(e)'
          /\ Present(pending[i].args.provider)' <=> Present(p)'
      BY <3>1 DEF Present
    <3>3. /\ Inserted(pending[i].entity, i)' <=> Inserted(e, i)'
          /\ Inserted(pending[i].args.provider, i)' <=> Inserted(p, i)'
      BY <3>1 DEF Inserted
    <3> QED
      BY <2>3, <3>1, <3>2, <3>3
  <2> QED
    BY <2>1, <2>4 DEF RowsInv, RowEvents
<1>12. OnceInv'
  <2> SUFFICES ASSUME NEW i \in DOMAIN pending', NEW j \in DOMAIN pending',
                      pending'[i].eventName \in RowEvents \cup StateEvents,
                      pending'[i].eventName = pending'[j].eventName,
                      pending'[i].entity = pending'[j].entity
               PROVE  i = j
    BY DEF OnceInv, RowEvents, StateEvents
  <2>1. n + i = n + j
    BY <1>1, <1>4 DEF OnceInv
  <2> QED
    BY <2>1, <1>5, <1>6
\* The history is the same, part of it has moved into its table.
<1>13. ASSUME NEW d, NEW s
       PROVE  Reached(d, s)' <=> Reached(d, s)
  <2>1. Reached(d, s)' <=> \/ <<d, s>> \in stateChanges'
                          \/ \E i \in DOMAIN pending' :
                                 /\ pending'[i].eventName \in StateEvents
                                 /\ pending'[i].entity = d
                                 /\ EventNameToDealState[pending'[i].eventName] = s
    BY DEF Reached, StateEvents, EventNameToDealState
  <2>2. Reached(d, s)' => Reached(d, s)
    BY <2>1, <1>4, <1>5 DEF Reached
  <2>3. ASSUME NEW i \in DOMAIN pending, i > n
        PROVE  \E j \in DOMAIN pending' : pending'[j] = pending[i]
    BY <2>3, <1>4
  <2>4. \A i \in DOMAIN pending : i > n \/ i \in 1..n
    BY <1>3, <1>5
  <2>5. Reached(d, s) => Reached(d, s)'
    BY <2>1, <2>3, <2>4, <1>4 DEF Reached
  <2> QED
    BY <2>2, <2>5
<1>14. HistoryInv'
  <2>1. stateChanges' \subseteq Deals \X States
    BY <1>1, <1>4 DEF HistoryInv
  <2>2. ASSUME NEW i \in DOMAIN pending', pending'[i].eventName \in StateEvents,
               <<pending'[i].entity, EventNameToDealState[pending'[i].eventName]>> \in stateChanges'
        PROVE  FALSE
    <3>1. n + i \in DOMAIN pending /\ pending'[i] = pending[n + i] /\ n < n + i
      BY <1>4, <1>6
    <3>2. <<pending[n + i].entity, EventNameToDealState[pending[n + i].eventName]>> \notin stateChanges
      BY <3>1, <2>2, <1>1 DEF HistoryInv
    <3>3. PICK j \in 1..n : /\ pending[j].eventName \in StateEvents
                            /\ pending[j].entity = pending[n + i].entity
                            /\ EventNameToDealState[pending[j].eventName] =
                                  EventNameToDealState[pending[n + i].eventName]
      <4>1. PICK e, s : e = pending[n + i].entity /\ s = EventNameToDealState[pending[n + i].eventName]
        OBVIOUS
      <4>2. <<e, s>> \in stateChanges' /\ <<e, s>> \notin stateChanges
        BY <4>1, <3>1, <3>2, <2>2
      <4> QED
        BY <4>1, <4>2, <1>4
    <3>4. pending[j].eventName = pending[n + i].eventName
      BY <3>1, <3>3, <2>2 DEF StateEvents, EventNameToDealState
    <3>5. n + i = j
      BY <3>1, <3>3, <3>4, <1>1, <1>5 DEF OnceInv
    <3> QED
      BY <3>1, <3>5, <1>5
  <2>3. chain' = chain
    BY <1>2
  <2> QED
    BY <1>1, <1>13, <2>1, <2>2, <2>3 DEF HistoryInv, EventNameToDealState, StateEvents
<1> QED
  BY <1>4, <1>7, <1>8, <1>11, <1>12, <1>14 DEF IInv
-----------------------------------------------------------------------------
(* The contracts' steps. *)

\* A call appends its logs and leaves the tables alone.
Called(logs) == /\ Emitted(logs) /\ pending' = pending \o logs
                /\ UNCHANGED <<block, tables, stateChanges>>

\* An insertion is the last log of its call and of an entity that is not known
\* yet; any other log is of one that is.
Introduces(logs) ==
  \A k \in DOMAIN logs :
     /\ logs[k].eventName \in RowEvents => k = Len(logs) /\ ~Known(logs[k].entity)
     /\ logs[k].eventName \notin RowEvents => Known(logs[k].entity)
     /\ logs[k].eventName = "DealProposalCreated" => Known(logs[k].args.provider)

\* A state is the last log of its call and one that the deal has not reached.
Decides(logs) ==
  \A k \in DOMAIN logs : logs[k].eventName \in StateEvents =>
     /\ k = Len(logs)
     /\ ~Reached(logs[k].entity, EventNameToDealState[logs[k].eventName])

\* After a call an insertion is pending if it was or if the call made it.
LEMMA InsertedByCall ==
  ASSUME PendingShape, NEW logs, Called(logs), NEW e
  PROVE  /\ \A i \in DOMAIN pending : Inserted(e, i) => Inserted(e, i)'
         /\ Inserted(e, Len(pending))' <=>
              \/ Inserted(e, Len(pending))
              \/ \E k \in DOMAIN logs : logs[k].eventName \in RowEvents /\ logs[k].entity = e
         /\ \A i \in DOMAIN pending' : i \notin DOMAIN pending /\ Inserted(e, Len(pending)) =>
              Inserted(e, i)'
<1>1. Emitted(logs) /\ pending' = pending \o logs /\ block' = block
  BY DEF Called
<1>2. /\ Len(pending) \in Nat /\ Len(logs) \in Nat /\ DOMAIN pending = 1..Len(pending)
      /\ DOMAIN logs = 1..Len(logs) /\ DOMAIN pending' = 1..Len(pending')
      /\ Len(pending') = Len(pending) + Len(logs)
      /\ \A i \in DOMAIN pending : i \in DOMAIN pending' /\ pending'[i] = pending[i]
      /\ \A k \in DOMAIN logs : /\ Len(pending) + k \in DOMAIN pending'
                                /\ pending'[Len(pending) + k] = logs[k]
      /\ \A i \in DOMAIN pending' :
            i \in DOMAIN pending \/ \E k \in DOMAIN logs : i = Len(pending) + k
  BY <1>1, AppendedLogs
<1>3. \A i : Inserted(e, i)' <=> \E j \in DOMAIN pending' : /\ j <= i /\ pending'[j].eventName \in RowEvents
                                                        /\ pending'[j].entity = e
  BY DEF Inserted, RowEvents
<1>4. \A i : Inserted(e, i) => Inserted(e, i)'
  BY <1>2, <1>3 DEF Inserted
<1>5. Inserted(e, Len(pending))' <=>
         \E j \in DOMAIN pending' : pending'[j].eventName \in RowEvents /\ pending'[j].entity = e
  BY <1>2 DEF Inserted, RowEvents
<1>6. Inserted(e, Len(pending)) <=>
         \E j \in DOMAIN pending : pending[j].eventName \in RowEvents /\ pending[j].entity = e
  BY <1>2 DEF Inserted
<1>7. Inserted(e, Len(pending))' <=>
              \/ Inserted(e, Len(pending))
              \/ \E k \in DOMAIN logs : logs[k].eventName \in RowEvents /\ logs[k].entity = e
  <2>1. ASSUME NEW j \in DOMAIN pending', pending'[j].eventName \in RowEvents, pending'[j].entity = e
        PROVE  \/ Inserted(e, Len(pending))
               \/ \E k \in DOMAIN logs : logs[k].eventName \in RowEvents /\ logs[k].entity = e
    BY <2>1, <1>2, <1>6
  <2>2. ASSUME NEW k \in DOMAIN logs, logs[k].eventName \in RowEvents, logs[k].entity = e
        PROVE  Inserted(e, Len(pending))'
    BY <2>2, <1>2, <1>5
  <2>3. Inserted(e, Len(pending)) => Inserted(e, Len(pending))'
    BY <1>2, <1>5, <1>6
  <2> QED
    BY <2>1, <2>2, <2>3, <1>5
<1>8. ASSUME NEW i \in DOMAIN pending', i \notin DOMAIN pending, Inserted(e, Len(pending))
      PROVE  Inserted(e, i)'
  <2>1. PICK j \in DOMAIN pending : pending[j].eventName \in RowEvents /\ pending[j].entity = e
    BY <1>6, <1>8
  <2>2. j <= i
    BY <1>2, <1>8
  <2> QED
    BY <2>1, <2>2, <1>2, <1>3
<1> QED
  BY <1>4, <1>7, <1>8

\* A call keeps what the logs and the rows have in common.
LEMMA CallKeepsRows ==
  ASSUME IInv, NEW logs, Called(logs), Introduces(logs),
         \A e \in Providers \cup Deals : Known(e)' <=>
            Known(e) \/ \E k \in DOMAIN logs : logs[k].eventName \in RowEvents /\ logs[k].entity = e
  PROVE  RowsInv'
<1>1. PendingShape /\ RowsInv /\ TablesShape /\ ChainShape
  BY DEF IInv
<1>2. Emitted(logs) /\ pending' = pending \o logs /\ block' = block /\ tables' = tables
  BY DEF Called
<1>3. /\ Len(pending) \in Nat /\ Len(logs) \in Nat /\ DOMAIN pending = 1..Len(pending)
      /\ DOMAIN logs = 1..Len(logs) /\ DOMAIN pending' = 1..Len(pending')
      /\ Len(pending') = Len(pending) + Len(logs)
      /\ \A i \in DOMAIN pending : i \in DOMAIN pending' /\ pending'[i] = pending[i]
      /\ \A k \in DOMAIN logs : /\ Len(pending) + k \in DOMAIN pending'
                                /\ pending'[Len(pending) + k] = logs[k]
      /\ \A i \in DOMAIN pending' :
            i \in DOMAIN pending \/ \E k \in DOMAIN logs : i = Len(pending) + k
  BY <1>1, <1>2, AppendedLogs
<1>4. \A e : Present(e)' <=> Present(e)
  BY <1>2 DEF Present
<1>5. \A e \in Providers \cup Deals : Known(e) <=> Present(e) \/ Inserted(e, Len(pending))
  BY <1>1 DEF RowsInv
<1>6. \A e : /\ \A i \in DOMAIN pending : Inserted(e, i) => Inserted(e, i)'
             /\ Inserted(e, Len(pending))' <=>
                  \/ Inserted(e, Len(pending))
                  \/ \E k \in DOMAIN logs : logs[k].eventName \in RowEvents /\ logs[k].entity = e
             /\ \A i \in DOMAIN pending' : i \notin DOMAIN pending /\ Inserted(e, Len(pending)) =>
                  Inserted(e, i)'
  BY <1>1, InsertedByCall
<1>7. \A e \in Providers \cup Deals : Known(e)' <=> Present(e)' \/ Inserted(e, Len(pending))'
  <2> SUFFICES ASSUME NEW e \in Providers \cup Deals
               PROVE  Known(e)' <=> Present(e)' \/ Inserted(e, Len(pending))'
    OBVIOUS
  <2>1. Known(e)' <=> Known(e) \/ \E k \in DOMAIN logs : logs[k].eventName \in RowEvents /\ logs[k].entity = e
    OBVIOUS
  <2> QED
    BY <2>1, <1>4, <1>5, <1>6
<1>8. ASSUME NEW i \in DOMAIN pending', NEW e, e = pending'[i].entity
      PROVE  /\ Present(e)' \/ Inserted(e, i)'
             /\ pending'[i].eventName \in RowEvents => ~Present(e)'
             /\ pending'[i].eventName = "DealProposalCreated" =>
                  \A p : p = pending'[i].args.provider => Present(p)' \/ Inserted(p, i)'
  <2>1. CASE i \in DOMAIN pending
    <3>1. pending'[i] = pending[i]
      BY <2>1, <1>3
    <3>2. /\ Present(e) \/ Inserted(e, i)
          /\ pending[i].eventName \in RowEvents => ~Present(e)
          /\ pending[i].eventName = "DealProposalCreated" =>
               \A p : p = pending[i].args.provider => Present(p) \/ Inserted(p, i)
      BY <2>1, <3>1, <1>1, <1>8 DEF RowsInv
    <3>3. \A x : Inserted(x, i) => Inserted(x, i)'
      BY <2>1, <1>6
    <3> QED
      BY <3>1, <3>2, <3>3, <1>4
  <2>2. CASE i \notin DOMAIN pending
    <3>1. PICK k \in DOMAIN logs : i = Len(pending) + k
      BY <2>2, <1>3
    <3>2. pending'[i] = logs[k]
      BY <3>1, <1>3
    <3>3. logs[k].entity \in Providers \cup Deals /\ WellFormed(logs[k])
      <4>1. logs[k] \in PendingLog
        BY <1>2, LenProperties DEF Emitted
      <4> QED
        BY <4>1, <1>2 DEF Emitted, PendingLog
    <3>4. \A x \in Providers \cup Deals : Known(x) => Present(x)' \/ Inserted(x, i)'
      BY <2>2, <1>4, <1>5, <1>6
    <3>5. CASE logs[k].eventName \in RowEvents
      <4>1. ~Known(e)
        BY <3>2, <3>5, <1>8 DEF Introduces
      <4>2. Inserted(e, i)'
        <5>1. i \in DOMAIN pending' /\ pending'[i].eventName \in RowEvents /\ pending'[i].entity = e /\ i <= i
          BY <3>2, <3>5, <1>3, <1>8
        <5> QED
          BY <5>1 DEF Inserted, RowEvents
      <4>3. ~Present(e)'
        BY <4>1, <3>2, <3>3, <1>4, <1>5, <1>8
      <4>4. logs[k].eventName = "DealProposalCreated" =>
              /\ logs[k].args.provider \in Providers
              /\ Known(logs[k].args.provider)
        BY <3>3 DEF Introduces, WellFormed
      <4> QED
        BY <4>2, <4>3, <4>4, <3>2, <3>4
    <3>6. CASE logs[k].eventName \notin RowEvents
      <4>1. Known(e)
        BY <3>2, <3>6, <1>8 DEF Introduces
      <4>2. logs[k].eventName # "DealProposalCreated"
        BY <3>6 DEF RowEvents
      <4> QED
        BY <4>1, <4>2, <3>2, <3>3, <3>4, <3>6, <1>8
    <3> QED
      BY <3>5, <3>6
  <2> QED
    BY <2>1, <2>2
<1>9. ASSUME NEW i \in DOMAIN pending'
      PROVE  /\ Present(pending[i].entity)' \/ Inserted(pending[i].entity, i)'
             /\ pending'[i].eventName \in RowEvents => ~Present(pending[i].entity)'
             /\ pending'[i].eventName = "DealProposalCreated" =>
                  Present(pending[i].args.provider)' \/ Inserted(pending[i].args.provider, i)'
  <2>1. PICK e, p : e = pending'[i].entity /\ p = pending'[i].args.provider
    OBVIOUS
  <2>2. /\ Present(pending[i].entity)' <=> Present(e)'
        /\ Present(pending[i].args.provider)' <=> Present(p)'
    BY <2>1 DEF Present
  <2>3. /\ Inserted(pending[i].entity, i)' <=> Inserted(e, i)'
        /\ Inserted(pending[i].args.provider, i)' <=> Inserted(p, i)'
    BY <2>1 DEF Inserted
  <2> QED
    BY <1>8, <2>1, <2>2, <2>3
<1> QED
  BY <1>7, <1>9 DEF RowsInv, RowEvents

\* A call emits no insertion that is pending.
LEMMA CallKeepsOnce ==
  ASSUME IInv, NEW logs, Called(logs), Introduces(logs), Decides(logs)
  PROVE  OnceInv'
<1>1. PendingShape /\ RowsInv /\ OnceInv
  BY DEF IInv
<1>2. Emitted(logs) /\ pending' = pending \o logs /\ block' = block
  BY DEF Called
<1>3. /\ Len(pending) \in Nat /\ Len(logs) \in Nat /\ DOMAIN pending = 1..Len(pending)
      /\ \A i \in DOMAIN pending : i \in DOMAIN pending' /\ pending'[i] = pending[i]
      /\ \A k \in DOMAIN logs : /\ Len(pending) + k \in DOMAIN pending'
                                /\ pending'[Len(pending) + k] = logs[k]
      /\ \A i \in DOMAIN pending' :
            i \in DOMAIN pending \/ \E k \in DOMAIN logs : i = Len(pending) + k
  BY <1>1, <1>2, AppendedLogs
\* No insertion of the call is pending.
<1>4. ASSUME NEW i \in DOMAIN pending, NEW k \in DOMAIN logs,
             logs[k].eventName \in RowEvents \cup StateEvents,
             logs[k].eventName = pending[i].eventName, logs[k].entity = pending[i].entity
      PROVE  FALSE
  <2>1. CASE logs[k].eventName \in RowEvents
    <3>1. ~Known(pending[i].entity)
      BY <2>1, <1>4 DEF Introduces
    <3>2. Inserted(pending[i].entity, Len(pending))
      BY <2>1, <1>3, <1>4 DEF Inserted
    <3>3. pending[i].entity \in Providers \cup Deals
      BY <1>1, PendingLogs
    <3> QED
      BY <3>1, <3>2, <3>3, <1>1 DEF RowsInv
  <2>2. CASE logs[k].eventName \in StateEvents
    <3>1. ~Reached(pending[i].entity, EventNameToDealState[pending[i].eventName])
      BY <2>2, <1>4 DEF Decides
    <3> QED
      BY <3>1, <2>2, <1>4 DEF Reached
  <2> QED
    BY <2>1, <2>2, <1>4
<1>5. \A k, m \in DOMAIN logs :
         logs[k].eventName \in RowEvents \cup StateEvents /\ logs[k].eventName = logs[m].eventName
         => k = m
  <2> SUFFICES ASSUME NEW k \in DOMAIN logs, NEW m \in DOMAIN logs,
                      logs[k].eventName \in RowEvents \cup StateEvents,
                      logs[k].eventName = logs[m].eventName
               PROVE  k = m
    OBVIOUS
  <2>1. k = Len(logs)
    BY DEF Introduces, Decides
  <2>2. m = Len(logs)
    BY DEF Introduces, Decides
  <2> QED
    BY <2>1, <2>2
<1> SUFFICES ASSUME NEW i \in DOMAIN pending', NEW j \in DOMAIN pending',
                    pending'[i].eventName \in RowEvents \cup StateEvents,
                    pending'[i].eventName = pending'[j].eventName,
                    pending'[i].entity = pending'[j].entity
             PROVE  i = j
  BY DEF OnceInv, RowEvents, StateEvents
<1>6. CASE i \in DOMAIN pending /\ j \in DOMAIN pending
  BY <1>6, <1>1, <1>3 DEF OnceInv
<1>7. CASE i \in DOMAIN pending /\ j \notin DOMAIN pending
  <2>1. PICK k \in DOMAIN logs : j = Len(pending) + k
    BY <1>3, <1>7
  <2> QED
    BY <2>1, <1>3, <1>4, <1>7
<1>8. CASE i \notin DOMAIN pending /\ j \in DOMAIN pending
  <2>1. PICK k \in DOMAIN logs : i = Len(pending) + k
    BY <1>3, <1>8
  <2> QED
    BY <2>1, <1>3, <1>4, <1>8
<1>9. CASE i \notin DOMAIN pending /\ j \notin DOMAIN pending
  <2>1. PICK k \in DOMAIN logs, m \in DOMAIN logs : i = Len(pending) + k /\ j = Len(pending) + m
    BY <1>3, <1>9
  <2> QED
    BY <2>1, <1>3, <1>5
<1> QED
  BY <1>6, <1>7, <1>8, <1>9
\* A deal has reached a state after a call if it had or if the call says so.
LEMMA ReachedByCall ==
  ASSUME PendingShape, NEW logs, Called(logs), NEW d, NEW s
  PROVE  Reached(d, s)' <=>
           \/ Reached(d, s)
           \/ \E k \in DOMAIN logs : /\ logs[k].eventName \in StateEvents /\ logs[k].entity = d
                                     /\ EventNameToDealState[logs[k].eventName] = s
<1>1. Emitted(logs) /\ pending' = pending \o logs /\ block' = block /\ stateChanges' = stateChanges
  BY DEF Called
<1>2. /\ \A i \in DOMAIN pending : i \in DOMAIN pending' /\ pending'[i] = pending[i]
      /\ \A k \in DOMAIN logs : /\ Len(pending) + k \in DOMAIN pending'
                                /\ pending'[Len(pending) + k] = logs[k]
      /\ \A i \in DOMAIN pending' :
            i \in DOMAIN pending \/ \E k \in DOMAIN logs : i = Len(pending) + k
  BY <1>1, AppendedLogs
<1> DEFINE Says(l) == /\ l.eventName \in StateEvents /\ l.entity = d
                      /\ EventNameToDealState[l.eventName] = s
<1>3. Reached(d, s)' <=> <<d, s>> \in stateChanges \/ \E i \in DOMAIN pending' : Says(pending'[i])
  BY <1>1 DEF Reached, StateEvents, EventNameToDealState
<1>4. Reached(d, s) <=> <<d, s>> \in stateChanges \/ \E i \in DOMAIN pending : Says(pending[i])
  BY DEF Reached
<1> HIDE DEF Says
<1>5. ASSUME NEW i \in DOMAIN pending', Says(pending'[i])
      PROVE  (\E j \in DOMAIN pending : Says(pending[j])) \/ \E k \in DOMAIN logs : Says(logs[k])
  BY <1>2, <1>5
<1>6. ASSUME NEW j \in DOMAIN pending, Says(pending[j])
      PROVE  \E i \in DOMAIN pending' : Says(pending'[i])
  BY <1>2, <1>6
<1>7. ASSUME NEW k \in DOMAIN logs, Says(logs[k])
      PROVE  \E i \in DOMAIN pending' : Says(pending'[i])
  BY <1>2, <1>7
<1>8. Reached(d, s)' <=> Reached(d, s) \/ \E k \in DOMAIN logs : Says(logs[k])
  BY <1>3, <1>4, <1>5, <1>6, <1>7
<1> QED
  BY <1>8 DEF Says

\* No pending state is in the table, also after a call.
LEMMA CallKeepsTable ==
  ASSUME IInv, NEW logs, Called(logs), Decides(logs)
  PROVE  /\ stateChanges' \subseteq Deals \X States
         /\ \A i \in DOMAIN pending' : pending'[i].eventName \in StateEvents =>
              <<pending'[i].entity, EventNameToDealState[pending'[i].eventName]>> \notin stateChanges'
<1>1. PendingShape /\ HistoryInv
  BY DEF IInv
<1>2. Emitted(logs) /\ pending' = pending \o logs /\ block' = block /\ stateChanges' = stateChanges
  BY DEF Called
<1>3. /\ \A i \in DOMAIN pending : i \in DOMAIN pending' /\ pending'[i] = pending[i]
      /\ \A k \in DOMAIN logs : /\ Len(pending) + k \in DOMAIN pending'
                                /\ pending'[Len(pending) + k] = logs[k]
      /\ \A i \in DOMAIN pending' :
            i \in DOMAIN pending \/ \E k \in DOMAIN logs : i = Len(pending) + k
  BY <1>1, <1>2, AppendedLogs
<1>4. ASSUME NEW i \in DOMAIN pending', pending'[i].eventName \in StateEvents
      PROVE  <<pending'[i].entity, EventNameToDealState[pending'[i].eventName]>> \notin stateChanges
  <2>1. CASE i \in DOMAIN pending
    BY <2>1, <1>1, <1>3, <1>4 DEF HistoryInv
  <2>2. CASE i \notin DOMAIN pending
    <3>1. PICK k \in DOMAIN logs : pending'[i] = logs[k]
      BY <2>2, <1>3
    <3>2. ~Reached(logs[k].entity, EventNameToDealState[logs[k].eventName])
      BY <3>1, <1>4 DEF Decides
    <3> QED
      BY <3>1, <3>2 DEF Reached
  <2> QED
    BY <2>1, <2>2
<1> QED
  BY <1>1, <1>2, <1>4 DEF HistoryInv

\* A call that decides nothing keeps the history.
LEMMA QuietCallKeepsHistory ==
  ASSUME IInv, NEW logs, Called(logs),
         \A k \in DOMAIN logs : logs[k].eventName \notin StateEvents,
         DOMAIN chain.deals \subseteq DOMAIN chain'.deals,
         \A d \in DOMAIN chain'.deals :
            chain'.deals[d].state = IF d \in DOMAIN chain.deals THEN chain.deals[d].state ELSE "PROPOSED"
  PROVE  HistoryInv'
<1>1. PendingShape /\ HistoryInv
  BY DEF IInv
<1>2. \A d, s : Reached(d, s)' <=> Reached(d, s)
  BY <1>1, ReachedByCall
<1>3. Decides(logs)
  BY DEF Decides
<1>4. /\ stateChanges' \subseteq Deals \X States
      /\ \A i \in DOMAIN pending' : pending'[i].eventName \in StateEvents =>
           <<pending'[i].entity, EventNameToDealState[pending'[i].eventName]>> \notin stateChanges'
  BY <1>3, CallKeepsTable
<1>5. ASSUME NEW d \in Deals, NEW s \in States, Reached(d, s)'
      PROVE  /\ d \in DOMAIN chain'.deals
             /\ s # "PROPOSED"
             /\ s = "REJECTED" <=> chain'.deals[d].state = "REJECTED"
             /\ s = "COMPLETED" => chain'.deals[d].state \in {"COMPLETED", "TERMINATED"}
             /\ s = "TERMINATED" => chain'.deals[d].state = "TERMINATED"
             /\ chain'.deals[d].state # "PROPOSED"
  <2>1. Reached(d, s) /\ d \in DOMAIN chain.deals
    BY <1>1, <1>2, <1>5 DEF HistoryInv
  <2>2. chain'.deals[d].state = chain.deals[d].state /\ d \in DOMAIN chain'.deals
    BY <2>1
  <2> QED
    BY <2>1, <2>2, <1>1 DEF HistoryInv
<1>6. ASSUME NEW d \in DOMAIN chain'.deals
      PROVE  /\ chain'.deals[d].state # "PROPOSED" =>
                  \A s : s = chain'.deals[d].state => Reached(d, s)'
             /\ chain'.deals[d].state \in {"COMPLETED", "TERMINATED"} => Reached(d, "ACCEPTED")'
  <2>1. CASE d \in DOMAIN chain.deals
    <3>1. chain'.deals[d].state = chain.deals[d].state
      BY <2>1
    <3>2. /\ chain.deals[d].state # "PROPOSED" => Reached(d, chain.deals[d].state)
          /\ chain.deals[d].state \in {"COMPLETED", "TERMINATED"} => Reached(d, "ACCEPTED")
      BY <2>1, <1>1 DEF HistoryInv
    <3> QED
      BY <3>1, <3>2, <1>2
  <2>2. CASE d \notin DOMAIN chain.deals
    <3>1. chain'.deals[d].state = "PROPOSED"
      BY <2>2
    <3> QED
      BY <3>1
  <2> QED
    BY <2>1, <2>2
<1>7. ASSUME NEW d \in DOMAIN chain'.deals, chain'.deals[d].state # "PROPOSED"
      PROVE  Reached(d, chain.deals[d].state)'
  <2>1. PICK s : s = chain'.deals[d].state
    OBVIOUS
  <2>2. Reached(d, chain.deals[d].state)' <=> Reached(d, s)'
    BY <2>1 DEF Reached
  <2> QED
    BY <2>1, <2>2, <1>6, <1>7
<1> QED
  BY <1>4, <1>5, <1>6, <1>7 DEF HistoryInv, StateEvents, EventNameToDealState, States

\* A call that decides on a deal adds one state to its history.
LEMMA DecidingCallKeepsHistory ==
  ASSUME IInv, NEW logs, Called(logs), Decides(logs),
         NEW d \in DOMAIN chain.deals, NEW s \in States \ {"PROPOSED"},
         \E k \in DOMAIN logs : /\ logs[k].eventName \in StateEvents /\ logs[k].entity = d
                                /\ EventNameToDealState[logs[k].eventName] = s,
         \A k \in DOMAIN logs : logs[k].eventName \in StateEvents =>
            logs[k].entity = d /\ EventNameToDealState[logs[k].eventName] = s,
         DOMAIN chain'.deals = DOMAIN chain.deals,
         \A x \in DOMAIN chain.deals :
            chain'.deals[x].state = IF x = d THEN s ELSE chain.deals[x].state,
         chain.deals[d].state = "PROPOSED" => s \in {"ACCEPTED", "REJECTED"},
         chain.deals[d].state # "PROPOSED" =>
            /\ s \in {"COMPLETED", "TERMINATED"}
            /\ chain.deals[d].state \in {"ACCEPTED"} \cup (IF s = "TERMINATED" THEN {"COMPLETED"} ELSE {})
  PROVE  HistoryInv'
<1>1. PendingShape /\ HistoryInv
  BY DEF IInv
<1>2. \A x, r : Reached(x, r)' <=> Reached(x, r) \/ (x = d /\ r = s)
  BY <1>1, ReachedByCall
<1>3. /\ stateChanges' \subseteq Deals \X States
      /\ \A i \in DOMAIN pending' : pending'[i].eventName \in StateEvents =>
           <<pending'[i].entity, EventNameToDealState[pending'[i].eventName]>> \notin stateChanges'
  BY CallKeepsTable
<1> DEFINE old(x) == chain.deals[x].state
           new(x) == chain'.deals[x].state
<1>4. \A x \in Deals, r \in States : Reached(x, r) =>
        /\ x \in DOMAIN chain.deals
        /\ r # "PROPOSED"
        /\ r = "REJECTED" <=> old(x) = "REJECTED"
        /\ r = "COMPLETED" => old(x) \in {"COMPLETED", "TERMINATED"}
        /\ r = "TERMINATED" => old(x) = "TERMINATED"
        /\ old(x) # "PROPOSED"
  BY <1>1 DEF HistoryInv
<1>5. \A x \in DOMAIN chain.deals :
        /\ old(x) # "PROPOSED" => Reached(x, old(x))
        /\ old(x) \in {"COMPLETED", "TERMINATED"} => Reached(x, "ACCEPTED")
  BY <1>1 DEF HistoryInv
<1>6. new(d) = s /\ \A x \in DOMAIN chain.deals : x # d => new(x) = old(x)
  OBVIOUS
<1>7. ASSUME NEW x \in Deals, NEW r \in States, Reached(x, r)'
      PROVE  /\ x \in DOMAIN chain'.deals
             /\ r # "PROPOSED"
             /\ r = "REJECTED" <=> new(x) = "REJECTED"
             /\ r = "COMPLETED" => new(x) \in {"COMPLETED", "TERMINATED"}
             /\ r = "TERMINATED" => new(x) = "TERMINATED"
             /\ new(x) # "PROPOSED"
  <2>1. CASE x # d
    BY <2>1, <1>2, <1>4, <1>6, <1>7
  <2>2. CASE x = d /\ Reached(d, r)
    <3>1. old(d) # "PROPOSED"
      BY <2>2, <1>4
    <3>2. /\ s \in {"COMPLETED", "TERMINATED"}
          /\ old(d) = "ACCEPTED" \/ (s = "TERMINATED" /\ old(d) = "COMPLETED")
      BY <3>1
    <3> QED
      BY <2>2, <3>1, <3>2, <1>4, <1>6
  <2>3. CASE x = d /\ r = s
    BY <2>3, <1>6
  <2> QED
    BY <2>1, <2>2, <2>3, <1>2, <1>7
<1>8. ASSUME NEW x \in DOMAIN chain'.deals
      PROVE  /\ new(x) # "PROPOSED" => \A r : r = new(x) => Reached(x, r)'
             /\ new(x) \in {"COMPLETED", "TERMINATED"} => Reached(x, "ACCEPTED")'
  <2>1. CASE x # d
    BY <2>1, <1>2, <1>5, <1>6
  <2>2. CASE x = d
    <3>1. Reached(d, s)'
      BY <1>2
    <3>2. s \in {"COMPLETED", "TERMINATED"} => Reached(d, "ACCEPTED")
      <4> SUFFICES ASSUME s \in {"COMPLETED", "TERMINATED"} PROVE Reached(d, "ACCEPTED")
        OBVIOUS
      <4>1. old(d) \in {"ACCEPTED", "COMPLETED"}
        OBVIOUS
      <4> QED
        BY <4>1, <1>5
    <3> QED
      BY <2>2, <3>1, <3>2, <1>2, <1>6
  <2> QED
    BY <2>1, <2>2
<1>9. ASSUME NEW x \in DOMAIN chain'.deals, new(x) # "PROPOSED"
      PROVE  Reached(x, chain.deals[x].state)'
  <2>1. PICK r : r = chain'.deals[x].state
    OBVIOUS
  <2>2. Reached(x, chain.deals[x].state)' <=> Reached(x, r)'
    BY <2>1 DEF Reached
  <2> QED
    BY <2>1, <2>2, <1>8, <1>9
<1> QED
  BY <1>3, <1>7, <1>8, <1>9 DEF HistoryInv, StateEvents, EventNameToDealState, States
\* A log that inserts nothing, of an entity that is known.
Quiet(l) == /\ l \in PendingLog /\ l.blockNumber = block
            /\ l.eventName \notin RowEvents \cup StateEvents /\ Known(l.entity)

\* In the logs of a call only the last one may insert something.
LEMMA LastLog ==
  ASSUME NEW logs \in Seq(PendingLog), NEW l, Len(logs) > 0, l = logs[Len(logs)],
         \A k \in 1..Len(logs) : k # Len(logs) => Quiet(logs[k]),
         WellFormed(l), l.blockNumber = block,
         l.eventName \in RowEvents => ~Known(l.entity),
         l.eventName \notin RowEvents => Known(l.entity),
         l.eventName = "DealProposalCreated" => Known(l.args.provider),
         l.eventName \in StateEvents => ~Reached(l.entity, EventNameToDealState[l.eventName])
  PROVE  /\ Emitted(logs) /\ Introduces(logs) /\ Decides(logs)
         /\ \E k \in DOMAIN logs : logs[k] = l
         /\ \A k \in DOMAIN logs : logs[k].eventName \in RowEvents \cup StateEvents => logs[k] = l
<1> DEFINE n == Len(logs)
<1>1. n \in Nat /\ n \in 1..n /\ DOMAIN logs = 1..n
  BY LenProperties
<1>2. \A k \in 1..n : k # n => Quiet(logs[k])
  OBVIOUS
<1>3. logs[n] = l
  OBVIOUS
<1> HIDE DEF n
<1>4. ASSUME NEW k \in 1..n, k # n
      PROVE  /\ WellFormed(logs[k]) /\ logs[k].blockNumber = block
             /\ logs[k].eventName \notin RowEvents \cup StateEvents /\ Known(logs[k].entity)
    BY <1>2, <1>4 DEF Quiet, WellFormed, RowEvents, StateEvents
<1>5. Emitted(logs)
  BY <1>1, <1>3, <1>4 DEF Emitted
<1>6. Introduces(logs)
  <2>1. \A k \in 1..n : /\ logs[k].eventName \in RowEvents => k = n /\ ~Known(logs[k].entity)
                        /\ logs[k].eventName \notin RowEvents => Known(logs[k].entity)
    BY <1>3, <1>4
  <2>2. \A k \in 1..n : logs[k].eventName = "DealProposalCreated" => Known(logs[k].args.provider)
    BY <1>3, <1>4 DEF RowEvents
  <2> QED
    BY <2>1, <2>2, <1>1 DEF Introduces, n
<1>7. Decides(logs)
  <2>1. \A k \in 1..n : logs[k].eventName \in StateEvents =>
          k = n /\ ~Reached(logs[k].entity, EventNameToDealState[logs[k].eventName])
    BY <1>3, <1>4
  <2> QED
    BY <2>1, <1>1 DEF Decides, n
<1> QED
  BY <1>1, <1>3, <1>4, <1>5, <1>6, <1>7

\* What is left to show of a call.
LEMMA CallKeepsIInv ==
  ASSUME IInv, NEW logs, Called(logs), Introduces(logs), Decides(logs), ChainShape', HistoryInv',
         \A e \in Providers \cup Deals : Known(e)' <=>
            Known(e) \/ \E k \in DOMAIN logs : logs[k].eventName \in RowEvents /\ logs[k].entity = e
  PROVE  IInv'
<1>1. RowsInv'
  BY CallKeepsRows
<1>2. OnceInv'
  BY CallKeepsOnce
<1>3. PendingShape'
  BY AppendedLogs DEF Called, IInv
<1>4. TablesShape'
  BY DEF Called, IInv, TablesShape
<1> QED
  BY <1>1, <1>2, <1>3, <1>4 DEF IInv

\* A log of a call is of the block under construction.
LEMMA LogTyped ==
  ASSUME IInv, NEW event \in Events, NEW e \in Providers \cup Deals, NEW args \in Arguments
  PROVE  /\ Log(event, e, args) \in PendingLog
         /\ Log(event, e, args).eventName = event /\ Log(event, e, args).entity = e
         /\ Log(event, e, args).blockNumber = block /\ Log(event, e, args).args = args
<1>1. block \in Nat
  BY DEF IInv, PendingShape
<1> QED
  BY <1>1 DEF Log, PendingLog

\* A call that neither registers, proposes nor decides, with one log.
LEMMA QuietCall ==
  ASSUME IInv, NEW event \in Events, event \notin RowEvents \cup StateEvents,
         NEW e \in Providers \cup Deals, Known(e), NEW args \in Arguments,
         Emit(<<Log(event, e, args)>>), ChainShape',
         DOMAIN chain'.providers = DOMAIN chain.providers,
         DOMAIN chain'.deals = DOMAIN chain.deals,
         \A d \in DOMAIN chain.deals : chain'.deals[d].state = chain.deals[d].state
  PROVE  IInv'
<1> DEFINE l == Log(event, e, args)
           logs == <<l>>
<1>1. l \in PendingLog /\ l.eventName = event /\ l.entity = e /\ l.blockNumber = block
  BY LogTyped
<1>2. WellFormed(l)
  BY <1>1 DEF WellFormed, RowEvents, StateEvents
<1>3. pending' = pending \o logs /\ UNCHANGED <<block, tables, stateChanges>>
  BY DEF Emit
<1> HIDE DEF l
<1>4. logs \in Seq(PendingLog) /\ Len(logs) = 1 /\ logs[1] = l
  BY <1>1
<1> HIDE DEF logs
<1>5. /\ Emitted(logs) /\ Introduces(logs) /\ Decides(logs)
      /\ \A k \in DOMAIN logs : logs[k].eventName \in RowEvents \cup StateEvents => logs[k] = l
  <2>1. \A k \in 1..Len(logs) : k # Len(logs) => Quiet(logs[k])
    BY <1>4
  <2>2. l = logs[Len(logs)] /\ Len(logs) > 0
    BY <1>4
  <2>3. l.eventName \notin RowEvents /\ l.eventName \notin StateEvents
        /\ l.eventName # "DealProposalCreated" /\ Known(l.entity)
    BY <1>1 DEF RowEvents
  <2> QED
    BY <2>1, <2>2, <2>3, <1>1, <1>2, <1>4, LastLog
<1>6. Called(logs)
  BY <1>3, <1>5 DEF Called
<1>7. \A k \in DOMAIN logs : logs[k].eventName \notin RowEvents \cup StateEvents
  BY <1>1, <1>5
<1>8. HistoryInv'
  BY <1>6, <1>7, QuietCallKeepsHistory
<1>9. \A x : Known(x)' <=> Known(x)
  BY DEF Known
<1> QED
  BY <1>5, <1>6, <1>7, <1>8, <1>9, CallKeepsIInv

\* A registration inserts a provider.
LEMMA RegisterProviderKeepsIInv ==
  ASSUME IInv, NEW p \in Providers, RegisterProvider(p)
  PROVE  IInv'
<1> DEFINE l == Log("ProviderRegistered", p, <<>>)
           logs == <<l>>
           ps == Spread(chain.providers, [x \in {p} |-> NewProvider])
           cs == Spread(chain.capabilities, [x \in {p} |-> Default])
<1>1. l \in PendingLog /\ l.eventName = "ProviderRegistered" /\ l.entity = p /\ l.blockNumber = block
  <2>1. <<>> \in Arguments
    BY DEF Arguments
  <2>2. p \in Providers \cup Deals /\ "ProviderRegistered" \in Events
    BY DEF Events, RowEvents
  <2> QED
    BY <2>1, <2>2, LogTyped
<1>2. WellFormed(l)
  BY <1>1 DEF WellFormed, RowEvents, StateEvents
<1>3. /\ pending' = pending \o logs /\ UNCHANGED <<block, tables, stateChanges>>
      /\ chain' = [chain EXCEPT !.providers = ps, !.capabilities = cs] /\ ~Registered(p)
  BY DEF RegisterProvider, Emit
<1>4. DOMAIN ps = DOMAIN chain.providers \cup {p} /\ DOMAIN cs = DOMAIN chain.capabilities \cup {p}
  BY DEF Spread
<1> HIDE DEF l, ps, cs
<1>5. logs \in Seq(PendingLog) /\ Len(logs) = 1 /\ logs[1] = l
  BY <1>1
<1> HIDE DEF logs
<1>6. ChainShape /\ TablesShape
  BY DEF IInv
<1>7. ~Known(p)
  BY <1>3, <1>6, PresentIn DEF Registered
<1>8. /\ Emitted(logs) /\ Introduces(logs) /\ Decides(logs)
      /\ \E k \in DOMAIN logs : logs[k] = l
      /\ \A k \in DOMAIN logs : logs[k].eventName \in RowEvents \cup StateEvents => logs[k] = l
  <2>1. \A k \in 1..Len(logs) : k # Len(logs) => Quiet(logs[k])
    BY <1>5
  <2>2. l = logs[Len(logs)] /\ Len(logs) > 0
    BY <1>5
  <2>3. l.eventName \in RowEvents /\ l.eventName \notin StateEvents
        /\ l.eventName # "DealProposalCreated" /\ ~Known(l.entity)
    BY <1>1, <1>7 DEF RowEvents, StateEvents
  <2> QED
    BY <2>1, <2>2, <2>3, <1>1, <1>2, <1>5, LastLog
<1>9. Called(logs)
  BY <1>3, <1>8 DEF Called
<1>10. /\ DOMAIN chain' = DOMAIN chain /\ chain'.deals = chain.deals
       /\ DOMAIN chain'.providers = DOMAIN chain.providers \cup {p}
       /\ DOMAIN chain'.capabilities = DOMAIN chain.capabilities \cup {p}
  BY <1>3, <1>4, <1>6 DEF ChainShape
<1>11. ChainShape'
  BY <1>6, <1>10 DEF ChainShape
<1>12. HistoryInv'
  <2>1. \A k \in DOMAIN logs : logs[k].eventName \notin StateEvents
    BY <1>1, <1>8 DEF StateEvents
  <2> QED
    BY <2>1, <1>9, <1>10, QuietCallKeepsHistory
<1>13. \A e : Known(e)' <=> Known(e) \/ e = p
  BY <1>10 DEF Known
<1>14. \A e : (\E k \in DOMAIN logs : logs[k].eventName \in RowEvents /\ logs[k].entity = e) <=> e = p
  BY <1>1, <1>8 DEF RowEvents
<1> QED
  BY <1>8, <1>9, <1>11, <1>12, <1>13, <1>14, CallKeepsIInv

\* A proposal inserts a deal of a registered provider.
LEMMA ProposeDealKeepsIInv ==
  ASSUME IInv, NEW p \in Providers, NEW d \in Deals, NEW size \in Sizes, ProposeDeal(d, p, size)
  PROVE  IInv'
<1> DEFINE args == [provider |-> p, totalDealSize |-> size, manifestLocation |-> Default]
           q == Log("PendingCapacityReserved", p, [bytes |-> size])
           l == Log("DealProposalCreated", d, args)
           logs == <<q, l>>
           deal == NewDeal(p, size, Default)
           ds == Spread(chain.deals, [x \in {d} |-> deal])
<1>1. args \in Arguments /\ [bytes |-> size] \in Arguments
  BY DEF Arguments
<1>2. /\ l \in PendingLog /\ l.eventName = "DealProposalCreated" /\ l.entity = d
      /\ l.blockNumber = block /\ l.args.provider = p
  <2> HIDE DEF args
  <2>1. d \in Providers \cup Deals /\ "DealProposalCreated" \in Events
    BY DEF Events, RowEvents
  <2>2. l \in PendingLog /\ l.eventName = "DealProposalCreated" /\ l.entity = d
        /\ l.blockNumber = block /\ l.args = args
    BY <1>1, <2>1, LogTyped
  <2> QED
    BY <2>2 DEF args
<1>3. WellFormed(l)
  BY <1>2 DEF WellFormed, RowEvents, StateEvents
<1>4. /\ pending' = pending \o logs /\ UNCHANGED <<block, tables, stateChanges>>
      /\ chain' = [chain EXCEPT !.deals = ds, !.providers = Bytes(p, size, 0)]
      /\ d \notin DOMAIN chain.deals /\ p \in DOMAIN chain.providers
  BY DEF ProposeDeal, Emit, Registered
<1>5. ChainShape /\ TablesShape
  BY DEF IInv
<1>6. ~Known(d) /\ Known(p)
  BY <1>4, <1>5, PresentIn
<1>7. Quiet(q)
  <2>1. /\ q \in PendingLog /\ q.eventName = "PendingCapacityReserved" /\ q.entity = p
        /\ q.blockNumber = block
    <3>1. p \in Providers \cup Deals /\ "PendingCapacityReserved" \in Events
      BY DEF Events, ByteEvents
    <3> QED
      BY <1>1, <3>1, LogTyped
  <2> QED
    BY <2>1, <1>6 DEF Quiet, RowEvents, StateEvents
<1>8. deal \in DealRow /\ deal.state = "PROPOSED" /\ deal.provider = p
  BY DEF NewDeal, DealRow, States
<1> HIDE DEF deal
<1>9. /\ DOMAIN ds = DOMAIN chain.deals \cup {d} /\ ds[d] = deal
      /\ \A x \in DOMAIN chain.deals : ds[x] = chain.deals[x]
  BY <1>4 DEF Spread
<1>10. ds = [x \in DOMAIN ds |-> ds[x]]
  BY DEF Spread
<1>11. DOMAIN Bytes(p, size, 0) = DOMAIN chain.providers
  BY DEF Bytes
<1> HIDE DEF l, q, args, ds
<1>12. logs \in Seq(PendingLog) /\ Len(logs) = 2 /\ logs[1] = q /\ logs[2] = l
  BY <1>2, <1>7 DEF Quiet
<1> HIDE DEF logs
<1>13. /\ Emitted(logs) /\ Introduces(logs) /\ Decides(logs)
       /\ \E k \in DOMAIN logs : logs[k] = l
       /\ \A k \in DOMAIN logs : logs[k].eventName \in RowEvents \cup StateEvents => logs[k] = l
  <2>1. \A k \in 1..Len(logs) : k # Len(logs) => Quiet(logs[k])
    BY <1>7, <1>12
  <2>2. l = logs[Len(logs)] /\ Len(logs) > 0
    BY <1>12
  <2>3. l.eventName \in RowEvents /\ l.eventName \notin StateEvents
        /\ Known(l.args.provider) /\ ~Known(l.entity)
    BY <1>2, <1>6 DEF RowEvents, StateEvents
  <2> QED
    BY <2>1, <2>2, <2>3, <1>2, <1>3, <1>12, LastLog
<1>14. Called(logs)
  BY <1>4, <1>13 DEF Called
<1>15. /\ DOMAIN chain' = DOMAIN chain /\ chain'.capabilities = chain.capabilities
       /\ DOMAIN chain'.providers = DOMAIN chain.providers /\ chain'.deals = ds
  BY <1>4, <1>5, <1>11 DEF ChainShape
<1>16. ChainShape'
  <2>1. ds \in [DOMAIN ds -> DealRow]
    BY <1>5, <1>8, <1>9, <1>10 DEF ChainShape
  <2>2. \A x \in DOMAIN ds : ds[x].provider \in DOMAIN chain.providers
    BY <1>4, <1>5, <1>8, <1>9 DEF ChainShape
  <2> QED
    BY <2>1, <2>2, <1>5, <1>9, <1>15 DEF ChainShape
<1>17. HistoryInv'
  <2>1. \A k \in DOMAIN logs : logs[k].eventName \notin StateEvents
    BY <1>2, <1>13 DEF StateEvents
  <2>2. DOMAIN chain.deals \subseteq DOMAIN chain'.deals
    BY <1>9, <1>15
  <2>3. \A x \in DOMAIN chain'.deals :
          chain'.deals[x].state = IF x \in DOMAIN chain.deals THEN chain.deals[x].state ELSE "PROPOSED"
    BY <1>8, <1>9, <1>15
  <2> QED
    BY <2>1, <2>2, <2>3, <1>14, QuietCallKeepsHistory
<1>18. \A e : Known(e)' <=> Known(e) \/ e = d
  BY <1>9, <1>15 DEF Known
<1>19. \A e : (\E k \in DOMAIN logs : logs[k].eventName \in RowEvents /\ logs[k].entity = e) <=> e = d
  BY <1>2, <1>13 DEF RowEvents
<1> QED
  BY <1>13, <1>14, <1>16, <1>17, <1>18, <1>19, CallKeepsIInv
\* Of a change of a column the contracts emit one log.
LEMMA UpdateCapabilitiesKeepsIInv ==
  ASSUME IInv, NEW p \in Providers, NEW v \in Values, UpdateCapabilities(p, v)
  PROVE  IInv'
<1>1. ChainShape /\ TablesShape
  BY DEF IInv
<1>2. /\ p \in DOMAIN chain.providers /\ Emit(<<Log("CapabilitiesUpdated", p, [value |-> v])>>)
      /\ chain' = [chain EXCEPT !.capabilities = [chain.capabilities EXCEPT ![p] = v]]
  BY DEF UpdateCapabilities, Registered
<1>3. /\ DOMAIN chain' = DOMAIN chain /\ chain'.deals = chain.deals
      /\ chain'.providers = chain.providers
      /\ DOMAIN chain'.capabilities = DOMAIN chain.capabilities
  BY <1>1, <1>2 DEF ChainShape
<1>4. ChainShape'
  BY <1>1, <1>3 DEF ChainShape
<1>5. /\ "CapabilitiesUpdated" \in Events
      /\ "CapabilitiesUpdated" \notin RowEvents \cup StateEvents
      /\ [value |-> v] \in Arguments /\ p \in Providers \cup Deals
  BY DEF Events, ValueEvents, RowEvents, StateEvents, Arguments
<1>6. Known(p)
  BY <1>1, <1>2, PresentIn
<1> QED
  BY <1>2, <1>3, <1>4, <1>5, <1>6, QuietCall

\* A setting's log is about a provider the contract knows.
LEMMA UpdateSettingKeepsIInv ==
  ASSUME IInv, NEW p \in Providers, NEW s \in Settings, NEW v \in Values, UpdateSetting(p, s, v)
  PROVE  IInv'
<1>1. ChainShape /\ TablesShape
  BY DEF IInv
<1> DEFINE ps == [chain.providers EXCEPT ![p] = [chain.providers[p] EXCEPT ![s] = v]]
<1>2. /\ p \in DOMAIN chain.providers /\ Emit(<<Log(SettingEvent[s], p, [value |-> v])>>)
      /\ chain' = [chain EXCEPT !.providers = ps]
  BY DEF UpdateSetting, Registered
<1>3. DOMAIN ps = DOMAIN chain.providers
  OBVIOUS
<1> HIDE DEF ps
<1>4. /\ DOMAIN chain' = DOMAIN chain /\ chain'.deals = chain.deals
      /\ DOMAIN chain'.providers = DOMAIN chain.providers
      /\ chain'.capabilities = chain.capabilities
  BY <1>1, <1>2, <1>3 DEF ChainShape
<1>5. ChainShape'
  BY <1>1, <1>4 DEF ChainShape
<1>6. s \in {"availableBytes", "pricePerSectorPerMonth", "payee", "dealDurationDays"}
  BY ConstantsAssumption DEF SettingEvent
<1>7. /\ SettingEvent[s] \in Events /\ SettingEvent[s] \notin RowEvents \cup StateEvents
  BY <1>6 DEF SettingEvent, Events, ValueEvents, RowEvents, StateEvents
<1>8. [value |-> v] \in Arguments /\ p \in Providers \cup Deals
  BY DEF Arguments
<1>9. Known(p)
  BY <1>1, <1>2, PresentIn
<1> QED
  BY <1>2, <1>4, <1>5, <1>7, <1>8, <1>9, QuietCall

\* A flag's log is about a provider the contract knows.
LEMMA ToggleFlagKeepsIInv ==
  ASSUME IInv, NEW p \in Providers, NEW f \in DOMAIN FlagEvents, ToggleFlag(p, f)
  PROVE  IInv'
<1>1. ChainShape /\ TablesShape
  BY DEF IInv
<1> DEFINE event == FlagEvents[f][IF chain.providers[p][f] THEN 2 ELSE 1]
           ps == [chain.providers EXCEPT ![p] = [chain.providers[p] EXCEPT ![f] = ~chain.providers[p][f]]]
<1>2. /\ p \in DOMAIN chain.providers /\ Emit(<<Log(event, p, <<>>)>>)
      /\ chain' = [chain EXCEPT !.providers = ps]
  BY DEF ToggleFlag, Registered
<1>3. DOMAIN ps = DOMAIN chain.providers
  OBVIOUS
<1>4. event \in SwitchEvents
  <2>1. f \in {"blocked", "paused"}
    BY DEF FlagEvents
  <2>2. event \in {FlagEvents[f][1], FlagEvents[f][2]}
    OBVIOUS
  <2> HIDE DEF event
  <2> QED
    BY <2>1, <2>2 DEF FlagEvents, SwitchEvents
<1> HIDE DEF ps, event
<1>5. /\ DOMAIN chain' = DOMAIN chain /\ chain'.deals = chain.deals
      /\ DOMAIN chain'.providers = DOMAIN chain.providers
      /\ chain'.capabilities = chain.capabilities
  BY <1>1, <1>2, <1>3 DEF ChainShape
<1>6. ChainShape'
  BY <1>1, <1>5 DEF ChainShape
<1>7. event \in Events /\ event \notin RowEvents \cup StateEvents
  BY <1>4 DEF Events, SwitchEvents, RowEvents, StateEvents
<1>8. <<>> \in Arguments /\ p \in Providers \cup Deals
  BY DEF Arguments
<1>9. Known(p)
  BY <1>1, <1>2, PresentIn
<1> QED
  BY <1>2, <1>5, <1>6, <1>7, <1>8, <1>9, QuietCall

\* The log of a rail or a location is about a deal the contract knows.
LEMMA UpdateDealKeepsIInv ==
  ASSUME IInv, NEW d \in Deals, NEW v \in Values,
         NEW event \in {"RailIdUpdated", "ManifestLocationUpdated"},
         NEW column \in {"railId", "manifestLocation"}, UpdateDeal(d, event, column, v)
  PROVE  IInv'
<1>1. ChainShape /\ TablesShape
  BY DEF IInv
<1> DEFINE deal == [chain.deals[d] EXCEPT ![column] = v]
           ds == [chain.deals EXCEPT ![d] = deal]
<1>2. /\ d \in DOMAIN chain.deals /\ Emit(<<Log(event, d, [value |-> v])>>)
      /\ chain' = [chain EXCEPT !.deals = ds]
  BY DEF UpdateDeal, InState
<1>3. chain.deals[d] \in DealRow
  BY <1>1, <1>2 DEF ChainShape
<1>4. /\ deal \in DealRow /\ deal.provider = chain.deals[d].provider
      /\ deal.state = chain.deals[d].state
  BY <1>3 DEF DealRow
<1> HIDE DEF deal
<1>5. /\ DOMAIN ds = DOMAIN chain.deals /\ ds \in [DOMAIN chain.deals -> DealRow]
      /\ \A x \in DOMAIN chain.deals : /\ ds[x].provider = chain.deals[x].provider
                                       /\ ds[x].state = chain.deals[x].state
  BY <1>1, <1>2, <1>4 DEF ChainShape
<1> HIDE DEF ds
<1>6. /\ DOMAIN chain' = DOMAIN chain /\ chain'.deals = ds
      /\ chain'.providers = chain.providers /\ chain'.capabilities = chain.capabilities
  BY <1>1, <1>2 DEF ChainShape
<1>7. ChainShape'
  BY <1>1, <1>5, <1>6 DEF ChainShape
<1>8. /\ event \in Events /\ event \notin RowEvents \cup StateEvents
      /\ [value |-> v] \in Arguments /\ d \in Providers \cup Deals
  BY DEF Events, ValueEvents, RowEvents, StateEvents, Arguments
<1>9. Known(d)
  BY <1>1, <1>2, PresentIn
<1> QED
  BY <1>2, <1>5, <1>6, <1>7, <1>8, <1>9, QuietCall

-----------------------------------------------------------------------------
(* The contracts' decisions. *)

\* A decision emits logs of bytes of the deal's provider, then the deal's new state.
LEMMA DecidingCall ==
  ASSUME IInv, NEW d \in DOMAIN chain.deals, NEW event \in StateEvents,
         NEW s, s = EventNameToDealState[event],
         NEW logs \in Seq(PendingLog), Len(logs) > 0, logs[Len(logs)] = Log(event, d, <<>>),
         \A k \in 1..Len(logs) : k # Len(logs) => Quiet(logs[k]),
         Emit(logs), NEW ps, DOMAIN ps = DOMAIN chain.providers,
         chain' = [chain EXCEPT !.deals = [chain.deals EXCEPT ![d] = [chain.deals[d] EXCEPT !.state = s]],
                                !.providers = ps],
         chain.deals[d].state = "PROPOSED" => s \in {"ACCEPTED", "REJECTED"},
         chain.deals[d].state # "PROPOSED" =>
            /\ s \in {"COMPLETED", "TERMINATED"}
            /\ chain.deals[d].state \in {"ACCEPTED"} \cup (IF s = "TERMINATED" THEN {"COMPLETED"} ELSE {})
  PROVE  IInv'
<1> DEFINE l == Log(event, d, <<>>)
           deal == [chain.deals[d] EXCEPT !.state = s]
           ds == [chain.deals EXCEPT ![d] = deal]
<1>1. ChainShape /\ TablesShape /\ HistoryInv
  BY DEF IInv
<1>2. d \in Deals /\ s \in States \ {"PROPOSED"}
  BY <1>1 DEF ChainShape, StateEvents, EventNameToDealState, States
<1>3. l \in PendingLog /\ l.eventName = event /\ l.entity = d /\ l.blockNumber = block
  <2>1. <<>> \in Arguments /\ d \in Providers \cup Deals /\ event \in Events
    BY <1>2 DEF Arguments, Events
  <2> QED
    BY <2>1, LogTyped
<1>4. WellFormed(l) /\ Known(d)
  BY <1>1, <1>2, <1>3, PresentIn DEF WellFormed, StateEvents
<1>5. ~Reached(d, s)
  <2>1. Reached(d, s) =>
        /\ s = "REJECTED" <=> chain.deals[d].state = "REJECTED"
        /\ s = "COMPLETED" => chain.deals[d].state \in {"COMPLETED", "TERMINATED"}
        /\ s = "TERMINATED" => chain.deals[d].state = "TERMINATED"
        /\ chain.deals[d].state # "PROPOSED"
    BY <1>1, <1>2 DEF HistoryInv
  <2> QED
    BY <2>1
<1>6. /\ Emitted(logs) /\ Introduces(logs) /\ Decides(logs)
      /\ \E k \in DOMAIN logs : logs[k] = l
      /\ \A k \in DOMAIN logs : logs[k].eventName \in RowEvents \cup StateEvents => logs[k] = l
  <2>1. l.eventName \notin RowEvents /\ l.eventName # "DealProposalCreated"
        /\ Known(l.entity) /\ ~Reached(l.entity, EventNameToDealState[l.eventName])
    BY <1>3, <1>4, <1>5 DEF RowEvents, StateEvents
  <2>2. l = logs[Len(logs)]
    OBVIOUS
  <2> HIDE DEF l
  <2>3. /\ WellFormed(l) /\ l.blockNumber = block
        /\ l.eventName \in RowEvents => ~Known(l.entity)
        /\ l.eventName \notin RowEvents => Known(l.entity)
        /\ l.eventName = "DealProposalCreated" => Known(l.args.provider)
        /\ l.eventName \in StateEvents => ~Reached(l.entity, EventNameToDealState[l.eventName])
    BY <2>1, <1>3, <1>4
  <2>4. logs \in Seq(PendingLog) /\ Len(logs) > 0
        /\ \A k \in 1..Len(logs) : k # Len(logs) => Quiet(logs[k])
    OBVIOUS
  <2> QED
    BY ONLY <2>2, <2>3, <2>4, LastLog
<1>7. Called(logs)
  BY <1>6 DEF Emit, Called
<1>8. deal \in DealRow /\ deal.state = s /\ deal.provider = chain.deals[d].provider
  <2>1. chain.deals[d] \in DealRow
    BY <1>1 DEF ChainShape
  <2> QED
    BY <2>1, <1>2 DEF DealRow
<1>9. chain' = [chain EXCEPT !.deals = ds, !.providers = ps]
  OBVIOUS
<1> HIDE DEF l, deal
<1>10. /\ DOMAIN ds = DOMAIN chain.deals /\ ds \in [DOMAIN chain.deals -> DealRow]
       /\ \A x \in DOMAIN chain.deals :
             /\ ds[x].provider = chain.deals[x].provider
             /\ ds[x].state = IF x = d THEN s ELSE chain.deals[x].state
  BY <1>1, <1>8 DEF ChainShape
<1> HIDE DEF ds
<1>11. /\ DOMAIN chain' = DOMAIN chain /\ chain'.deals = ds
       /\ chain'.providers = ps /\ chain'.capabilities = chain.capabilities
  BY <1>1, <1>9 DEF ChainShape
<1>12. ChainShape'
  BY <1>1, <1>10, <1>11 DEF ChainShape
<1>13. HistoryInv'
  <2>1. \E k \in DOMAIN logs : /\ logs[k].eventName \in StateEvents /\ logs[k].entity = d
                               /\ EventNameToDealState[logs[k].eventName] = s
    BY <1>3, <1>6
  <2>2. \A k \in DOMAIN logs : logs[k].eventName \in StateEvents =>
            logs[k].entity = d /\ EventNameToDealState[logs[k].eventName] = s
    BY <1>3, <1>6
  <2>3. DOMAIN chain'.deals = DOMAIN chain.deals
    BY <1>10, <1>11
  <2>4. \A x \in DOMAIN chain.deals :
            chain'.deals[x].state = IF x = d THEN s ELSE chain.deals[x].state
    BY <1>10, <1>11
  <2> QED
    BY <2>1, <2>2, <2>3, <2>4, <1>2, <1>6, <1>7, DecidingCallKeepsHistory
<1>14. \A e : Known(e)' <=> Known(e)
  BY <1>10, <1>11 DEF Known
<1>15. \A k \in DOMAIN logs : logs[k].eventName \notin RowEvents
  BY <1>3, <1>6 DEF RowEvents, StateEvents
<1> QED
  BY <1>6, <1>7, <1>12, <1>13, <1>14, <1>15, CallKeepsIInv

\* A log of the bytes of a deal's provider.
LEMMA ByteLog ==
  ASSUME IInv, NEW d \in DOMAIN chain.deals, NEW event \in ByteEvents
  PROVE  Quiet(Log(event, chain.deals[d].provider, [bytes |-> chain.deals[d].totalDealSize]))
<1> DEFINE p == chain.deals[d].provider
           args == [bytes |-> chain.deals[d].totalDealSize]
<1>1. p \in DOMAIN chain.providers /\ p \in Providers /\ chain.deals[d].totalDealSize \in Sizes
  <2>1. chain.deals[d] \in DealRow /\ p \in DOMAIN chain.providers
    BY DEF IInv, ChainShape
  <2> QED
    BY <2>1 DEF DealRow
<1>2. args \in Arguments /\ event \in Events /\ p \in Providers \cup Deals
  BY <1>1 DEF Arguments, Events
<1>3. event \notin RowEvents \cup StateEvents
  BY DEF ByteEvents, RowEvents, StateEvents
<1>4. Known(p)
  BY <1>1 DEF Known
<1> DEFINE l == Log(event, p, args)
<1>5. l \in PendingLog /\ l.eventName = event /\ l.entity = p /\ l.blockNumber = block
  <2> HIDE DEF p, args
  <2> QED
    BY <1>2, LogTyped
<1> HIDE DEF l
<1>6. Quiet(l)
  BY <1>3, <1>4, <1>5 DEF Quiet
<1> QED
  BY <1>6 DEF l, p, args

\* An acceptance adds the state that follows the proposal.
LEMMA AcceptDealKeepsIInv ==
  ASSUME IInv, NEW d \in Deals, AcceptDeal(d)
  PROVE  IInv'
<1> DEFINE deal == chain.deals[d]
           q1 == Log("PendingCapacityReleased", deal.provider, [bytes |-> deal.totalDealSize])
           q2 == Log("CapacityCommitted", deal.provider, [bytes |-> deal.totalDealSize])
           l == Log("DealAccepted", d, <<>>)
           logs == <<q1, q2, l>>
           ps == Bytes(deal.provider, -deal.totalDealSize, deal.totalDealSize)
<1>1. /\ d \in DOMAIN chain.deals /\ deal.state = "PROPOSED" /\ Emit(logs)
      /\ chain' = [chain EXCEPT !.deals = [chain.deals EXCEPT ![d] = [chain.deals[d] EXCEPT !.state = "ACCEPTED"]],
                                !.providers = ps]
  BY DEF AcceptDeal, InState
<1>2. Quiet(q1) /\ Quiet(q2)
  BY <1>1, ByteLog DEF ByteEvents
<1>3. l \in PendingLog
  <2>1. "DealAccepted" \in Events /\ d \in Providers \cup Deals /\ <<>> \in Arguments
    BY DEF Events, StateEvents, Arguments
  <2> QED
    BY <2>1, LogTyped
<1>4. DOMAIN ps = DOMAIN chain.providers
  BY DEF Bytes
<1>5. "DealAccepted" \in StateEvents /\ "ACCEPTED" = EventNameToDealState["DealAccepted"]
  BY DEF StateEvents, EventNameToDealState
<1> HIDE DEF q1, q2, ps
<1>6. logs \in Seq(PendingLog) /\ Len(logs) = 3 /\ logs[1] = q1 /\ logs[2] = q2 /\ logs[3] = l
  <2> HIDE DEF l
  <2> QED
    BY <1>2, <1>3 DEF Quiet
<1> HIDE DEF logs
<1>7. /\ Len(logs) > 0 /\ logs[Len(logs)] = Log("DealAccepted", d, <<>>)
      /\ \A k \in 1..Len(logs) : k # Len(logs) => Quiet(logs[k])
  BY <1>2, <1>6
<1> QED
  BY <1>1, <1>4, <1>5, <1>6, <1>7, DecidingCall

\* A rejection adds the only state of a rejected deal.
LEMMA RejectDealKeepsIInv ==
  ASSUME IInv, NEW d \in Deals, RejectDeal(d)
  PROVE  IInv'
<1> DEFINE deal == chain.deals[d]
           q == Log("PendingCapacityReleased", deal.provider, [bytes |-> deal.totalDealSize])
           l == Log("DealRejected", d, <<>>)
           logs == <<q, l>>
           ps == Bytes(deal.provider, -deal.totalDealSize, 0)
<1>1. /\ d \in DOMAIN chain.deals /\ deal.state = "PROPOSED" /\ Emit(logs)
      /\ chain' = [chain EXCEPT !.deals = [chain.deals EXCEPT ![d] = [chain.deals[d] EXCEPT !.state = "REJECTED"]],
                                !.providers = ps]
  BY DEF RejectDeal, InState
<1>2. Quiet(q)
  BY <1>1, ByteLog DEF ByteEvents
<1>3. l \in PendingLog
  <2>1. "DealRejected" \in Events /\ d \in Providers \cup Deals /\ <<>> \in Arguments
    BY DEF Events, StateEvents, Arguments
  <2> QED
    BY <2>1, LogTyped
<1>4. DOMAIN ps = DOMAIN chain.providers
  BY DEF Bytes
<1>5. "DealRejected" \in StateEvents /\ "REJECTED" = EventNameToDealState["DealRejected"]
  BY DEF StateEvents, EventNameToDealState
<1> HIDE DEF q, ps
<1>6. logs \in Seq(PendingLog) /\ Len(logs) = 2 /\ logs[1] = q /\ logs[2] = l
  <2> HIDE DEF l
  <2> QED
    BY <1>2, <1>3 DEF Quiet
<1> HIDE DEF logs
<1>7. /\ Len(logs) > 0 /\ logs[Len(logs)] = Log("DealRejected", d, <<>>)
      /\ \A k \in 1..Len(logs) : k # Len(logs) => Quiet(logs[k])
  BY <1>2, <1>6
<1> QED
  BY <1>1, <1>4, <1>5, <1>6, <1>7, DecidingCall

\* A termination adds a state that follows the acceptance.
LEMMA TerminateDealKeepsIInv ==
  ASSUME IInv, NEW d \in Deals, TerminateDeal(d)
  PROVE  IInv'
<1> DEFINE deal == chain.deals[d]
           q == Log("CapacityReleased", deal.provider, [bytes |-> deal.totalDealSize])
           l == Log("DealTerminated", d, <<>>)
           logs == <<q, l>>
           ps == Bytes(deal.provider, 0, -deal.totalDealSize)
<1>1. /\ d \in DOMAIN chain.deals /\ deal.state \in {"ACCEPTED", "COMPLETED"} /\ Emit(logs)
      /\ chain' = [chain EXCEPT !.deals = [chain.deals EXCEPT ![d] = [chain.deals[d] EXCEPT !.state = "TERMINATED"]],
                                !.providers = ps]
  BY DEF TerminateDeal, InState
<1>2. Quiet(q)
  BY <1>1, ByteLog DEF ByteEvents
<1>3. l \in PendingLog
  <2>1. "DealTerminated" \in Events /\ d \in Providers \cup Deals /\ <<>> \in Arguments
    BY DEF Events, StateEvents, Arguments
  <2> QED
    BY <2>1, LogTyped
<1>4. DOMAIN ps = DOMAIN chain.providers
  BY DEF Bytes
<1>5. "DealTerminated" \in StateEvents /\ "TERMINATED" = EventNameToDealState["DealTerminated"]
  BY DEF StateEvents, EventNameToDealState
<1> HIDE DEF q, ps
<1>6. logs \in Seq(PendingLog) /\ Len(logs) = 2 /\ logs[1] = q /\ logs[2] = l
  <2> HIDE DEF l
  <2> QED
    BY <1>2, <1>3 DEF Quiet
<1> HIDE DEF logs
<1>7. /\ Len(logs) > 0 /\ logs[Len(logs)] = Log("DealTerminated", d, <<>>)
      /\ \A k \in 1..Len(logs) : k # Len(logs) => Quiet(logs[k])
  BY <1>2, <1>6
<1> QED
  BY <1>1, <1>4, <1>5, <1>6, <1>7, DecidingCall

\* A completion adds a state that follows the acceptance.
LEMMA CompleteDealKeepsIInv ==
  ASSUME IInv, NEW d \in Deals, CompleteDeal(d)
  PROVE  IInv'
<1> DEFINE l == Log("DealCompleted", d, <<>>)
           logs == <<l>>
           ds == [chain.deals EXCEPT ![d] = [chain.deals[d] EXCEPT !.state = "COMPLETED"]]
<1>1. /\ d \in DOMAIN chain.deals /\ chain.deals[d].state = "ACCEPTED" /\ Emit(logs)
      /\ chain' = [chain EXCEPT !.deals = ds]
  BY DEF CompleteDeal, InState
<1>2. l \in PendingLog
  <2>1. "DealCompleted" \in Events /\ d \in Providers \cup Deals /\ <<>> \in Arguments
    BY DEF Events, StateEvents, Arguments
  <2> QED
    BY <2>1, LogTyped
<1>3. "DealCompleted" \in StateEvents /\ "COMPLETED" = EventNameToDealState["DealCompleted"]
  BY DEF StateEvents, EventNameToDealState
<1> DEFINE ps == chain.providers
<1>4. chain' = [chain EXCEPT !.deals = ds, !.providers = ps] /\ DOMAIN ps = DOMAIN chain.providers
  <2>1. DOMAIN chain = {"providers", "capabilities", "deals"}
    BY DEF IInv, ChainShape
  <2> HIDE DEF ds
  <2> QED
    BY <1>1, <2>1
<1> HIDE DEF ps
<1>5. logs \in Seq(PendingLog) /\ Len(logs) = 1 /\ logs[1] = l
  <2> HIDE DEF l
  <2> QED
    BY <1>2
<1> HIDE DEF logs
<1>6. /\ Len(logs) > 0 /\ logs[Len(logs)] = Log("DealCompleted", d, <<>>)
      /\ \A k \in 1..Len(logs) : k # Len(logs) => Quiet(logs[k])
  BY <1>5
<1>7. PICK s : s = EventNameToDealState["DealCompleted"]
  OBVIOUS
<1>8. chain' = [chain EXCEPT !.deals = [chain.deals EXCEPT ![d] = [chain.deals[d] EXCEPT !.state = s]],
                             !.providers = ps]
  BY <1>3, <1>4, <1>7
<1> HIDE DEF ds
<1>9. /\ chain.deals[d].state = "PROPOSED" => s \in {"ACCEPTED", "REJECTED"}
      /\ chain.deals[d].state # "PROPOSED" =>
            /\ s \in {"COMPLETED", "TERMINATED"}
            /\ chain.deals[d].state \in {"ACCEPTED"} \cup (IF s = "TERMINATED" THEN {"COMPLETED"} ELSE {})
  BY <1>1, <1>3, <1>7
<1>10. d \in DOMAIN chain.deals /\ Emit(logs)
  BY <1>1
<1>11. DOMAIN ps = DOMAIN chain.providers /\ logs \in Seq(PendingLog)
  BY <1>4, <1>5
<1> QED
  BY <1>3, <1>6, <1>7, <1>8, <1>9, <1>10, <1>11, DecidingCall

-----------------------------------------------------------------------------
(* The theorems. *)

\* The closing of a block keeps the invariant.
LEMMA NextBlockKeepsIInv ==
  ASSUME IInv, NextBlock
  PROVE  IInv'
<1>1. block' = block + 1 /\ UNCHANGED <<chain, pending, tables, stateChanges>>
  BY DEF NextBlock
<1>2. PendingShape'
  <2>1. /\ block \in Nat /\ pending \in Seq(PendingLog)
        /\ \A i \in DOMAIN pending : WellFormed(pending[i]) /\ pending[i].blockNumber <= block
        /\ \A i, j \in DOMAIN pending : i <= j => pending[i].blockNumber <= pending[j].blockNumber
    BY DEF IInv, PendingShape
  <2>2. \A i \in DOMAIN pending : pending[i] \in PendingLog
    BY <2>1, LenProperties
  <2>3. ASSUME NEW i \in DOMAIN pending PROVE pending[i].blockNumber <= block + 1
    <3>1. pending[i].blockNumber \in Nat
      BY <2>2 DEF PendingLog
    <3> QED
      BY <3>1, <2>1
  <2>4. \A i \in DOMAIN pending : WellFormed(pending[i])' <=> WellFormed(pending[i])
    BY <1>1 DEF WellFormed
  <2> QED
    BY <2>1, <2>3, <2>4, <1>1 DEF PendingShape
<1>3. ChainShape' /\ TablesShape' /\ RowsInv' /\ OnceInv' /\ HistoryInv'
  BY <1>1 DEF IInv, ChainShape, TablesShape, RowsInv, OnceInv, HistoryInv, Known, Present, Inserted,
              Reached, RowEvents, StateEvents, EventNameToDealState
<1> QED
  BY <1>2, <1>3 DEF IInv

\* What the contracts have emitted, the tables and the history fit together, in
\* every batching of the logs.
THEOREM Invariance == Spec => []IInv
<1>1. Init => IInv
  <2> SUFFICES ASSUME Init PROVE IInv
    OBVIOUS
  <2>1. /\ block = 1 /\ pending = <<>> /\ stateChanges = {}
        /\ DOMAIN chain = {"providers", "capabilities", "deals"} /\ DOMAIN tables = Fields
        /\ chain.providers = <<>> /\ chain.capabilities = <<>> /\ chain.deals = <<>>
        /\ tables.providers = <<>> /\ tables.capabilities = <<>> /\ tables.deals = <<>>
        /\ tables.terms = <<>> /\ tables.thrown = FALSE
    BY DEF Init, Fields
  <2>2. DOMAIN <<>> = {} /\ Len(<<>>) = 0
    OBVIOUS
  <2>3. ChainShape /\ TablesShape
    BY <2>1, <2>2 DEF ChainShape, TablesShape, Fields
  <2>4. PendingShape
    BY <2>1, <2>2 DEF PendingShape
  <2>5. RowsInv /\ OnceInv /\ HistoryInv
    BY <2>1, <2>2 DEF RowsInv, OnceInv, HistoryInv, Known, Present, Inserted, Reached
  <2> QED
    BY <2>3, <2>4, <2>5 DEF IInv
<1>2. IInv /\ [Next]_vars => IInv'
  <2> SUFFICES ASSUME IInv, [Next]_vars PROVE IInv'
    OBVIOUS
  <2>1. CASE NextBlock
    BY <2>1, NextBlockKeepsIInv
  <2>2. ASSUME NEW p \in Providers, RegisterProvider(p) PROVE IInv'
    BY <2>2, RegisterProviderKeepsIInv
  <2>3. ASSUME NEW p \in Providers, NEW v \in Values, UpdateCapabilities(p, v) PROVE IInv'
    BY <2>3, UpdateCapabilitiesKeepsIInv
  <2>4. ASSUME NEW p \in Providers, NEW s \in Settings, NEW v \in Values, UpdateSetting(p, s, v)
        PROVE  IInv'
    BY <2>4, UpdateSettingKeepsIInv
  <2>5. ASSUME NEW p \in Providers, NEW f \in DOMAIN FlagEvents, ToggleFlag(p, f) PROVE IInv'
    BY <2>5, ToggleFlagKeepsIInv
  <2>6. ASSUME NEW p \in Providers, NEW d \in Deals, NEW n \in Sizes, ProposeDeal(d, p, n)
        PROVE  IInv'
    BY <2>6, ProposeDealKeepsIInv
  <2>7. ASSUME NEW d \in Deals, AcceptDeal(d) PROVE IInv'
    BY <2>7, AcceptDealKeepsIInv
  <2>8. ASSUME NEW d \in Deals, RejectDeal(d) PROVE IInv'
    BY <2>8, RejectDealKeepsIInv
  <2>9. ASSUME NEW d \in Deals, CompleteDeal(d) PROVE IInv'
    BY <2>9, CompleteDealKeepsIInv
  <2>10. ASSUME NEW d \in Deals, TerminateDeal(d) PROVE IInv'
    BY <2>10, TerminateDealKeepsIInv
  <2>11. ASSUME NEW d \in Deals, NEW v \in Values, UpdateDeal(d, "RailIdUpdated", "railId", v)
         PROVE  IInv'
    BY <2>11, UpdateDealKeepsIInv
  <2>12. ASSUME NEW d \in Deals, NEW v \in Values,
                UpdateDeal(d, "ManifestLocationUpdated", "manifestLocation", v)
         PROVE  IInv'
    BY <2>12, UpdateDealKeepsIInv
  <2>13. ASSUME NEW b \in 1..MaxBlock, Index(b) PROVE IInv'
    <3>1. b \in Nat
      BY ConstantsAssumption
    <3> QED
      BY <3>1, <2>13, IndexKeepsIInv
  <2>14. CASE UNCHANGED vars
    <3>1. UNCHANGED <<block, chain, pending, tables, stateChanges>>
      BY <2>14 DEF vars
    <3> QED
      BY <3>1 DEF IInv, PendingShape, WellFormed, ChainShape, TablesShape, RowsInv, OnceInv, HistoryInv,
                  Known, Present, Inserted, Reached
  <2> QED
    BY <2>1, <2>2, <2>3, <2>4, <2>5, <2>6, <2>7, <2>8, <2>9, <2>10, <2>11, <2>12, <2>13, <2>14
       DEF Next
<1> QED
  BY <1>1, <1>2, PTL DEF Spec

\* No batch is rolled back for ever: every updated row exists, no row is inserted
\* twice and a deal's provider is there when the deal is (prepareUpdates() and the
\* transaction of execute()).
THEOREM NoPoisonBatchCorrect == Spec => []NoPoisonBatch
<1>1. IInv => NoPoisonBatch
  <2> SUFFICES ASSUME IInv, NEW b \in 1..(block - 1) PROVE Succeeds(SortLogs(Batch(b)))
    BY DEF NoPoisonBatch
  <2>1. b \in Nat
    BY DEF IInv, PendingShape
  <2> QED
    BY <2>1, BatchSucceeds
<1> QED
  BY <1>1, Invariance, PTL

\* The state history of a deal ends in the contract's state and holds a decision
\* before a completion, in any batching (prepareDealStateChangeCreations()).
THEOREM HistoryMirrorsChainCorrect == Spec => []HistoryMirrorsChain
<1>1. IInv => HistoryMirrorsChain
  <2> SUFFICES ASSUME IInv, CaughtUp, NEW d \in Deals
               PROVE  LET reached == {s \in States : <<d, s>> \in stateChanges}
                      IN IF ~InState(d, States \ {"PROPOSED"}) THEN reached = {}
                         ELSE /\ chain.deals[d].state \in reached
                              /\ "REJECTED" \in reached => reached = {"REJECTED"}
                              /\ reached \cap {"COMPLETED", "TERMINATED"} # {} => "ACCEPTED" \in reached
    BY DEF HistoryMirrorsChain
  <2> DEFINE reached == {s \in States : <<d, s>> \in stateChanges}
  <2>1. \A s \in States : s \in reached <=> Reached(d, s)
    BY DEF CaughtUp, Reached
  <2>2. HistoryInv /\ ChainShape
    BY DEF IInv
  <2>3. \A s \in States : Reached(d, s) =>
        /\ d \in DOMAIN chain.deals
        /\ s = "REJECTED" <=> chain.deals[d].state = "REJECTED"
        /\ s = "COMPLETED" => chain.deals[d].state \in {"COMPLETED", "TERMINATED"}
        /\ s = "TERMINATED" => chain.deals[d].state = "TERMINATED"
        /\ chain.deals[d].state # "PROPOSED"
    BY <2>2 DEF HistoryInv
  <2>4. d \in DOMAIN chain.deals =>
        /\ chain.deals[d].state \in States
        /\ chain.deals[d].state # "PROPOSED" => Reached(d, chain.deals[d].state)
        /\ chain.deals[d].state \in {"COMPLETED", "TERMINATED"} => Reached(d, "ACCEPTED")
    BY <2>2 DEF HistoryInv, ChainShape, DealRow
  <2>5. reached \subseteq States
    OBVIOUS
  <2> HIDE DEF reached
  <2>6. CASE ~InState(d, States \ {"PROPOSED"})
    <3>1. \A s \in States : ~Reached(d, s)
      BY <2>3, <2>4, <2>6 DEF InState
    <3>2. reached = {}
      BY <3>1, <2>1, <2>5
    <3> QED
      BY <3>2, <2>6 DEF reached
  <2>7. CASE InState(d, States \ {"PROPOSED"})
    <3>1. d \in DOMAIN chain.deals /\ chain.deals[d].state \in States \ {"PROPOSED"}
      BY <2>7 DEF InState
    <3>2. chain.deals[d].state \in reached
      BY <3>1, <2>1, <2>4
    <3>3. "REJECTED" \in reached => reached = {"REJECTED"}
      BY <3>1, <2>1, <2>3, <2>5
    <3>4. reached \cap {"COMPLETED", "TERMINATED"} # {} => "ACCEPTED" \in reached
      <4>1. ASSUME reached \cap {"COMPLETED", "TERMINATED"} # {}
            PROVE  chain.deals[d].state \in {"COMPLETED", "TERMINATED"}
        BY <4>1, <2>1, <2>3, <2>5
      <4> QED
        BY <4>1, <3>1, <2>1, <2>4 DEF States
    <3> QED
      BY <3>2, <3>3, <3>4, <2>7 DEF reached
  <2> QED
    BY <2>6, <2>7
<1> QED
  BY <1>1, Invariance, PTL

\* A deal is never without its terms, though its proposal is read from the logs and
\* its terms from the contract, which may be ahead (prepareDealsCreations()).
THEOREM DealsHaveTermsCorrect == Spec => []DealsHaveTerms
<1>1. IInv => DealsHaveTerms
  BY DEF IInv, TablesShape, DealsHaveTerms
<1> QED
  BY <1>1, Invariance, PTL

-----------------------------------------------------------------------------
(* The reduction of a batch. *)

\* An update input is the last of the inputs so far, and each adds one update.
LEMMA ReducedUpdates ==
  ASSUME NEW merged, NEW updates, Len(updates) \in Nat
  PROVE  \E acc : /\ acc[0] = <<>>
                  /\ \A i \in 1..Len(updates) : acc[i] = AddUpdate(merged, acc[i - 1], updates[i])
                  /\ UpdateInput(merged, updates) = acc[Len(updates)]
<1> DEFINE n == Len(updates)
           F(g, i) == IF i = 0 THEN <<>> ELSE AddUpdate(merged, g[i - 1], updates[i])
           Is(g, k) == g = [i \in 0..k |-> F(g, i)]
           T == {k \in 0..n : ~ \E g : Is(g, k)}
<1>1. T = {}
  <2> SUFFICES ASSUME T # {} PROVE FALSE
    OBVIOUS
  <2>1. PICK k \in T : \A j \in T : k <= j
    <3>1. T \in SUBSET Nat
      OBVIOUS
    <3> HIDE DEF T
    <3> QED
      BY <3>1, Smallest
  <2>2. k \in 0..n /\ ~ \E g : Is(g, k)
    OBVIOUS
  <2>3. CASE k = 0
    <3> DEFINE g == [i \in 0..0 |-> <<>>]
    <3>1. \A i \in 0..0 : F(g, i) = <<>>
      OBVIOUS
    <3>2. Is(g, 0)
      BY <3>1
    <3> QED
      BY <3>2, <2>2, <2>3
  <2>4. CASE k # 0
    <3>1. k - 1 \in 0..n /\ k \in Nat /\ ~(k <= k - 1)
      BY <2>2, <2>4
    <3>2. k - 1 \notin T
      BY <2>1, <3>1
    <3>3. PICK h : Is(h, k - 1)
      BY <3>1, <3>2
    <3> DEFINE g == [i \in 0..k |-> IF i = k THEN F(h, k) ELSE h[i]]
    <3>4. \A i \in 0..k : F(g, i) = F(h, i)
      <4> SUFFICES ASSUME NEW i \in 0..k, i # 0 PROVE g[i - 1] = h[i - 1]
        OBVIOUS
      <4>1. i - 1 \in 0..k /\ i - 1 # k
        BY <3>1
      <4> QED
        BY <4>1
    <3>5. \A i \in 0..(k - 1) : h[i] = F(h, i)
      <4> HIDE DEF F
      <4> QED
        BY <3>3
    <3> HIDE DEF F
    <3>6. \A i \in 0..k : g[i] = F(g, i)
      <4> SUFFICES ASSUME NEW i \in 0..k PROVE g[i] = F(h, i)
        BY <3>4
      <4>1. i # k => i \in 0..(k - 1)
        BY <3>1
      <4> QED
        BY <4>1, <3>5
    <3>7. Is(g, k)
      BY <3>6
    <3> HIDE DEF g
    <3> QED
      BY <3>7, <2>2
  <2> QED
    BY <2>3, <2>4
<1>2. PICK g : Is(g, n)
  <2>1. n \in 0..n
    OBVIOUS
  <2> QED
    BY <1>1, <2>1
<1> DEFINE acc == CHOOSE g_1 : g_1 = [i \in 0..Len(updates) |->
                     IF i = 0 THEN <<>> ELSE AddUpdate(merged, g_1[i - 1], updates[i])]
<1>3. acc = [i \in 0..n |-> F(acc, i)]
  BY <1>2
<1>4. UpdateInput(merged, updates) = acc[n]
  BY DEF UpdateInput
<1> HIDE DEF acc
<1>5. acc[0] = <<>>
  BY <1>3
<1>6. ASSUME NEW i \in 1..n
      PROVE  acc[i] = AddUpdate(merged, acc[i - 1], updates[i])
  <2>1. i \in 0..n /\ i # 0
    BY <1>6
  <2>2. acc[i] = F(acc, i)
    <3> HIDE DEF F
    <3> QED
      BY <1>3, <2>1
  <2> QED
    BY <2>1, <2>2
<1> QED
  BY <1>4, <1>5, <1>6

\* An operation that moves a number.
IsMove(op) == op.op \in {"increment", "decrement"} /\ op.arg \in Int

\* An overwritten column is in the input if an update has it, as one of them has it.
LEMMA OverwrittenColumn ==
  ASSUME NEW merged, NEW updates, Len(updates) \in Nat, NEW c, c \notin merged
  PROVE  LET input == UpdateInput(merged, updates)
         IN /\ c \in DOMAIN input <=> \E i \in 1..Len(updates) : c \in DOMAIN updates[i]
            /\ c \in DOMAIN input =>
                 \E i \in 1..Len(updates) : c \in DOMAIN updates[i] /\ input[c] = updates[i][c]
<1> DEFINE n == Len(updates)
<1>1. PICK acc : /\ acc[0] = <<>>
                 /\ \A i \in 1..n : acc[i] = AddUpdate(merged, acc[i - 1], updates[i])
                 /\ UpdateInput(merged, updates) = acc[n]
  BY ReducedUpdates
<1> DEFINE Good(k) == /\ c \in DOMAIN acc[k] <=> \E i \in 1..k : c \in DOMAIN updates[i]
                      /\ c \in DOMAIN acc[k] =>
                           \E i \in 1..k : c \in DOMAIN updates[i] /\ acc[k][c] = updates[i][c]
           T == {k \in 0..n : ~Good(k)}
<1>2. ASSUME NEW k \in 1..n, Good(k - 1)
      PROVE  Good(k)
  <2>1. acc[k] = AddUpdate(merged, acc[k - 1], updates[k])
    BY <1>1
  <2> DEFINE u == [x \in DOMAIN updates[k] |->
               IF x \in merged THEN MergeBigIntFieldUpdate(x, acc[k - 1], updates[k][x]) ELSE updates[k][x]]
  <2>2. c \in DOMAIN u <=> c \in DOMAIN updates[k]
    OBVIOUS
  <2>3. c \in DOMAIN u => u[c] = updates[k][c]
    OBVIOUS
  <2>4. acc[k] = Spread(acc[k - 1], u)
    BY <2>1 DEF AddUpdate
  <2> HIDE DEF u
  <2>5. /\ c \in DOMAIN acc[k] <=> c \in DOMAIN acc[k - 1] \/ c \in DOMAIN updates[k]
        /\ c \in DOMAIN updates[k] => acc[k][c] = updates[k][c]
        /\ c \in DOMAIN acc[k - 1] /\ c \notin DOMAIN updates[k] => acc[k][c] = acc[k - 1][c]
    BY <2>2, <2>3, <2>4 DEF Spread
  <2>6. k \in 1..k /\ \A i \in 1..k : i = k \/ i \in 1..(k - 1)
    OBVIOUS
  <2>7. \A i \in 1..(k - 1) : i \in 1..k
    OBVIOUS
  <2> QED
    BY <2>5, <2>6, <2>7, <1>2
<1>3. Good(0)
  BY <1>1
<1>4. T = {}
  <2> SUFFICES ASSUME T # {} PROVE FALSE
    OBVIOUS
  <2>1. PICK k \in T : \A j \in T : k <= j
    <3>1. T \in SUBSET Nat
      OBVIOUS
    <3> HIDE DEF T
    <3> QED
      BY <3>1, Smallest
  <2>2. k \in 0..n /\ ~Good(k)
    OBVIOUS
  <2> HIDE DEF Good
  <2>3. k \in 1..n
    BY <2>2, <1>3
  <2>4. k - 1 \in 0..n /\ ~(k <= k - 1)
    BY <2>3
  <2>5. Good(k - 1)
    BY <2>1, <2>4
  <2> QED
    BY <2>2, <2>3, <2>5, <1>2
<1>5. Good(n)
  <2>1. n \in 0..n
    OBVIOUS
  <2> HIDE DEF Good
  <2> QED
    BY <1>4, <2>1
<1> QED
  BY <1>1, <1>5

\* The operations on a merged column add up: it moves by the sum of its moves.
LEMMA MergedColumn ==
  ASSUME NEW merged, NEW updates, Len(updates) \in Nat, NEW c \in merged,
         \A i \in 1..Len(updates) : c \in DOMAIN updates[i] => IsMove(updates[i][c]),
         NEW sum \in [0..Len(updates) -> Int], sum[0] = 0,
         \A i \in 1..Len(updates) : sum[i] = sum[i - 1] + Moved(updates[i], c)
  PROVE  LET input == UpdateInput(merged, updates)
         IN /\ c \in DOMAIN input => IsMove(input[c])
            /\ Moved(input, c) = sum[Len(updates)]
<1> DEFINE n == Len(updates)
<1>1. PICK acc : /\ acc[0] = <<>>
                 /\ \A i \in 1..n : acc[i] = AddUpdate(merged, acc[i - 1], updates[i])
                 /\ UpdateInput(merged, updates) = acc[n]
  BY ReducedUpdates
<1> DEFINE Good(k) == /\ c \in DOMAIN acc[k] => IsMove(acc[k][c])
                      /\ Moved(acc[k], c) = sum[k]
           T == {k \in 0..n : ~Good(k)}
<1>2. ASSUME NEW k \in 1..n, Good(k - 1)
      PROVE  Good(k)
  <2>1. acc[k] = AddUpdate(merged, acc[k - 1], updates[k])
    BY <1>1
  <2> DEFINE u == [x \in DOMAIN updates[k] |->
               IF x \in merged THEN MergeBigIntFieldUpdate(x, acc[k - 1], updates[k][x]) ELSE updates[k][x]]
  <2>2. c \in DOMAIN u <=> c \in DOMAIN updates[k]
    OBVIOUS
  <2>3. c \in DOMAIN u => u[c] = MergeBigIntFieldUpdate(c, acc[k - 1], updates[k][c])
    OBVIOUS
  <2>4. acc[k] = Spread(acc[k - 1], u)
    BY <2>1 DEF AddUpdate
  <2> HIDE DEF u
  <2>5. /\ c \in DOMAIN acc[k] <=> c \in DOMAIN acc[k - 1] \/ c \in DOMAIN updates[k]
        /\ c \in DOMAIN updates[k] => acc[k][c] = u[c]
        /\ c \in DOMAIN acc[k - 1] /\ c \notin DOMAIN updates[k] => acc[k][c] = acc[k - 1][c]
    BY <2>2, <2>3, <2>4 DEF Spread
  <2>6. sum[k] = sum[k - 1] + Moved(updates[k], c) /\ sum[k - 1] \in Int
    OBVIOUS
  <2>7. CASE c \notin DOMAIN updates[k]
    BY <2>5, <2>6, <2>7, <1>2 DEF Moved
  <2>8. CASE c \in DOMAIN updates[k] /\ c \notin DOMAIN acc[k - 1]
    <3>0. u[c] = updates[k][c]
      BY <2>2, <2>3, <2>8 DEF MergeBigIntFieldUpdate
    <3>1. u[c] = updates[k][c] /\ IsMove(updates[k][c])
      BY <2>8, <3>0
    <3>2. sum[k - 1] = 0 /\ Balance(updates[k][c]) \in Int
      BY <2>8, <3>1, <1>2 DEF Moved, Balance, IsMove
    <3> QED
      BY <2>5, <2>6, <2>8, <3>1, <3>2 DEF Moved
  <2>9. CASE c \in DOMAIN updates[k] /\ c \in DOMAIN acc[k - 1]
    <3> DEFINE b == Balance(acc[k - 1][c]) + Balance(updates[k][c])
    <3>1. IsMove(updates[k][c]) /\ IsMove(acc[k - 1][c])
      BY <2>9, <1>2
    <3>2. b \in Int /\ b = sum[k]
      <4>1. Balance(updates[k][c]) \in Int /\ Balance(acc[k - 1][c]) \in Int
        BY <3>1 DEF IsMove, Balance
      <4>2. sum[k - 1] = Balance(acc[k - 1][c]) /\ Moved(updates[k], c) = Balance(updates[k][c])
        BY <2>9, <1>2 DEF Moved
      <4>3. PICK x, y : x = Balance(acc[k - 1][c]) /\ y = Balance(updates[k][c])
        OBVIOUS
      <4>4. b = x + y /\ x \in Int /\ y \in Int /\ sum[k] = x + y
        BY <4>1, <4>2, <4>3, <2>6
      <4> QED
        BY <4>4
    <3>3. u[c] = IF b >= 0 THEN Increment(b) ELSE Decrement(-b)
      BY <2>2, <2>3, <2>9 DEF MergeBigIntFieldUpdate
    <3> HIDE DEF b
    <3>4. IsMove(u[c]) /\ Balance(u[c]) = b
      BY <3>2, <3>3 DEF IsMove, Balance, Increment, Decrement
    <3> QED
      BY <2>5, <2>9, <3>2, <3>4 DEF Moved
  <2> QED
    BY <2>7, <2>8, <2>9
<1>3. Good(0)
  BY <1>1 DEF Moved
<1>4. T = {}
  <2> SUFFICES ASSUME T # {} PROVE FALSE
    OBVIOUS
  <2>1. PICK k \in T : \A j \in T : k <= j
    <3>1. T \in SUBSET Nat
      OBVIOUS
    <3> HIDE DEF T
    <3> QED
      BY <3>1, Smallest
  <2>2. k \in 0..n /\ ~Good(k)
    OBVIOUS
  <2> HIDE DEF Good
  <2>3. k \in 1..n
    BY <2>2, <1>3
  <2>4. k - 1 \in 0..n /\ ~(k <= k - 1)
    BY <2>3
  <2>5. Good(k - 1)
    BY <2>1, <2>4
  <2> QED
    BY <2>2, <2>3, <2>5, <1>2
<1>5. Good(n)
  <2>1. n \in 0..n
    OBVIOUS
  <2> HIDE DEF Good
  <2> QED
    BY <1>4, <2>1
<1> QED
  BY <1>1, <1>5

\* What an update input does to a column of a row.
LEMMA UpdatedColumn ==
  ASSUME NEW row, NEW input, NEW c \in DOMAIN row
  PROVE  /\ DOMAIN ApplyUpdate(row, input) = DOMAIN row
         /\ c \notin DOMAIN input => ApplyUpdate(row, input)[c] = row[c]
         /\ \A v : c \in DOMAIN input /\ input[c] = SetTo(v) => ApplyUpdate(row, input)[c] = v
         /\ /\ c \in DOMAIN input => IsMove(input[c])
            /\ row[c] \in Int
            => ApplyUpdate(row, input)[c] = row[c] + Moved(input, c)
<1>1. ASSUME c \in DOMAIN input
      PROVE  ApplyUpdate(row, input)[c] = CASE input[c].op = "set" -> input[c].arg
                                            [] input[c].op = "increment" -> row[c] + input[c].arg
                                            [] input[c].op = "decrement" -> row[c] - input[c].arg
  BY <1>1 DEF ApplyUpdate
<1>2. ASSUME c \in DOMAIN input, IsMove(input[c]), row[c] \in Int
      PROVE  ApplyUpdate(row, input)[c] = row[c] + Moved(input, c)
  <2>1. CASE input[c].op = "increment"
    BY <2>1, <1>1, <1>2 DEF Moved, IsMove, Balance
  <2>2. CASE input[c].op = "decrement"
    BY <2>2, <1>1, <1>2 DEF Moved, IsMove, Balance
  <2> QED
    BY <2>1, <2>2, <1>2 DEF IsMove
<1>3. c \notin DOMAIN input => ApplyUpdate(row, input)[c] = row[c] /\ Moved(input, c) = 0
  BY DEF ApplyUpdate, Moved
<1>4. DOMAIN ApplyUpdate(row, input) = DOMAIN row
  BY DEF ApplyUpdate
<1>5. \A v : c \in DOMAIN input /\ input[c] = SetTo(v) => ApplyUpdate(row, input)[c] = v
  BY <1>1 DEF SetTo
<1> QED
  BY <1>2, <1>3, <1>4, <1>5

-----------------------------------------------------------------------------
(* What a log of the deals runner updates. *)

\* What the log of a provider updates: the flags and settings it overwrites, or a counter.
LEMMA ProviderUpdate ==
  ASSUME NEW l, l.eventName \in Events
  PROVE  /\ \A c \in ProviderSettings \cup ProviderFlags :
              /\ c \in DOMAIN LogToProviderUpdate(l) <=> c \in OverwrittenColumns(l)
              /\ c \in OverwrittenColumns(l) => LogToProviderUpdate(l)[c] = SetTo(Written(l, c))
         /\ \A c \in ByteColumns :
              /\ c \in DOMAIN LogToProviderUpdate(l) <=> c \in DOMAIN ByteUpdate(l)
              /\ c \in DOMAIN ByteUpdate(l) => LogToProviderUpdate(l)[c] = ByteUpdate(l)[c]
<1> DEFINE u == LogToProviderUpdate(l)
<1>1. /\ DOMAIN SettingUpdate(l) = {s \in ProviderSettings : SettingEvent[s] = l.eventName}
      /\ \A c \in DOMAIN SettingUpdate(l) : SettingUpdate(l)[c] = SetTo(l.args.value)
  <2>1. DOMAIN SettingEvent = ProviderSettings
    BY DEF SettingEvent, ProviderSettings
  <2> QED
    BY <2>1 DEF SettingUpdate
<1>2. /\ DOMAIN FlagUpdate(l) \subseteq ProviderFlags
      /\ \A c \in DOMAIN FlagUpdate(l) : FlagUpdate(l)[c] = SetTo(l.eventName = FlagEvents[c][1])
  <2>1. DOMAIN FlagEvents = ProviderFlags
    BY DEF FlagEvents, ProviderFlags
  <2> QED
    BY <2>1 DEF FlagUpdate
<1>3. DOMAIN ByteUpdate(l) \subseteq ByteColumns
  BY DEF ByteUpdate, ByteColumns
<1>4. DOMAIN LogToDealUpdate(l) \subseteq DealSettings
  BY DEF LogToDealUpdate, DealSettings
<1>5. /\ DOMAIN u = DOMAIN ByteUpdate(l) \cup DOMAIN SettingUpdate(l) \cup DOMAIN FlagUpdate(l)
      /\ \A c \in DOMAIN u : u[c] = IF c \in DOMAIN FlagUpdate(l) THEN FlagUpdate(l)[c]
                                    ELSE IF c \in DOMAIN SettingUpdate(l) THEN SettingUpdate(l)[c]
                                    ELSE ByteUpdate(l)[c]
  BY DEF LogToProviderUpdate, Spread
<1>6. ProviderSettings \cap ProviderFlags = {} /\ ProviderSettings \cap ByteColumns = {}
      /\ ProviderFlags \cap ByteColumns = {} /\ (ProviderSettings \cup ProviderFlags) \cap DealSettings = {}
      /\ "capabilities" \notin ProviderSettings \cup ProviderFlags \cup ByteColumns
      /\ "state" \notin ProviderSettings \cup ProviderFlags
  BY DEF ProviderSettings, ProviderFlags, ByteColumns, DealSettings
<1> HIDE DEF u
<1>7. ASSUME NEW c \in ProviderSettings \cup ProviderFlags
      PROVE  /\ c \in DOMAIN u <=> c \in OverwrittenColumns(l)
             /\ c \in OverwrittenColumns(l) => u[c] = SetTo(Written(l, c))
  <2>1. c \in OverwrittenColumns(l) <=> c \in DOMAIN SettingUpdate(l) \/ c \in DOMAIN FlagUpdate(l)
    BY <1>4, <1>6 DEF OverwrittenColumns
  <2>2. c \in DOMAIN u <=> c \in OverwrittenColumns(l)
    BY <2>1, <1>3, <1>5, <1>6
  <2>3. CASE c \in ProviderFlags
    BY <2>1, <2>2, <2>3, <1>1, <1>2, <1>5, <1>6 DEF Written
  <2>4. CASE c \in ProviderSettings
    BY <2>1, <2>2, <2>4, <1>1, <1>2, <1>5, <1>6 DEF Written
  <2> QED
    BY <2>2, <2>3, <2>4
<1>8. ASSUME NEW c \in ByteColumns
      PROVE  /\ c \in DOMAIN u <=> c \in DOMAIN ByteUpdate(l)
             /\ c \in DOMAIN ByteUpdate(l) => u[c] = ByteUpdate(l)[c]
  BY <1>1, <1>2, <1>5, <1>6
<1> QED
  BY <1>7, <1>8 DEF u

\* What the log of a deal updates.
LEMMA DealUpdate ==
  ASSUME NEW l
  PROVE  /\ DOMAIN LogToDealUpdate(l) \subseteq DealSettings
         /\ \A c \in DealSettings :
              /\ c \in DOMAIN LogToDealUpdate(l) <=> c \in OverwrittenColumns(l)
              /\ c \in OverwrittenColumns(l) => LogToDealUpdate(l)[c] = SetTo(Written(l, c))
<1>1. DOMAIN LogToDealUpdate(l) \subseteq DealSettings
  BY DEF LogToDealUpdate, DealSettings
<1>2. DOMAIN SettingUpdate(l) \subseteq ProviderSettings
  BY DEF SettingUpdate, SettingEvent, ProviderSettings
<1>3. DOMAIN FlagUpdate(l) \subseteq ProviderFlags
  BY DEF FlagUpdate, FlagEvents, ProviderFlags
<1>4. ASSUME NEW c \in DealSettings
      PROVE  /\ c \in DOMAIN LogToDealUpdate(l) <=> c \in OverwrittenColumns(l)
             /\ c \in OverwrittenColumns(l) => LogToDealUpdate(l)[c] = SetTo(Written(l, c))
  <2>1. c \in DOMAIN LogToDealUpdate(l) <=> c \in OverwrittenColumns(l)
    BY <1>2, <1>3 DEF OverwrittenColumns, DealSettings, ProviderSettings, ProviderFlags
  <2>2. ASSUME c \in DOMAIN LogToDealUpdate(l)
        PROVE  LogToDealUpdate(l)[c] = SetTo(Written(l, c))
    <3>1. CASE l.eventName \in DOMAIN EventNameToDealState
      <4>1. LogToDealUpdate(l) = [state |-> SetTo(EventNameToDealState[l.eventName])]
        <5>1. l.eventName \notin {"RailIdUpdated", "ManifestLocationUpdated"}
          BY <3>1 DEF EventNameToDealState
        <5> QED
          BY <3>1, <5>1 DEF LogToDealUpdate
      <4> QED
        BY <4>1, <2>2 DEF Written, ProviderFlags
    <3>2. CASE l.eventName = "RailIdUpdated"
      <4>1. LogToDealUpdate(l) = [railId |-> SetTo(l.args.value)]
        BY <3>2 DEF LogToDealUpdate, EventNameToDealState
      <4> QED
        BY <4>1, <2>2 DEF Written, ProviderFlags
    <3>3. CASE l.eventName = "ManifestLocationUpdated"
      <4>1. LogToDealUpdate(l) = [manifestLocation |-> SetTo(l.args.value)]
        BY <3>3 DEF LogToDealUpdate, EventNameToDealState
      <4> QED
        BY <4>1, <2>2 DEF Written, ProviderFlags
    <3>4. CASE /\ l.eventName \notin DOMAIN EventNameToDealState
               /\ l.eventName \notin {"RailIdUpdated", "ManifestLocationUpdated"}
      <4>1. LogToDealUpdate(l) = <<>>
        BY <3>4 DEF LogToDealUpdate
      <4> QED
        BY <4>1, <2>2
    <3> QED
      BY <3>1, <3>2, <3>3, <3>4
  <2> QED
    BY <2>1, <2>2
<1> QED
  BY <1>1, <1>4

\* Who writes what: an overwritten column is a column of the log's entity, and the
\* value is one of the column's.
LEMMA WrittenTyped ==
  ASSUME NEW l \in PendingLog, Typed(l), NEW c \in OverwrittenColumns(l)
  PROVE  /\ c \in Overwritten
         /\ c \in ProviderSettings \cup ProviderFlags \cup {"capabilities"} => l.entity \in Providers
         /\ c \in DealSettings => l.entity \in Deals
         /\ c \in ProviderSettings => Written(l, c) \in Nat
         /\ c \in ProviderFlags => Written(l, c) \in BOOLEAN
         /\ c = "state" => Written(l, c) \in States
         /\ c \in {"railId", "manifestLocation", "capabilities"} => Written(l, c) \in Values
<1> DEFINE e == l.eventName
<1>1. DOMAIN SettingUpdate(l) = {s \in ProviderSettings : SettingEvent[s] = e}
  BY DEF SettingUpdate, SettingEvent, ProviderSettings
<1>2. DOMAIN FlagUpdate(l) = {g \in ProviderFlags : e \in ToSet(FlagEvents[g])}
  BY DEF FlagUpdate, FlagEvents, ProviderFlags
<1>3. ToSet(FlagEvents["blocked"]) = {"ProviderBlocked", "ProviderUnblocked"}
      /\ ToSet(FlagEvents["paused"]) = {"ProviderPaused", "ProviderUnpaused"}
  BY DEF FlagEvents, ToSet
<1>4. c \in DOMAIN SettingUpdate(l) => c \in ProviderSettings /\ e \in ValueEvents \ DealEvents
  BY <1>1 DEF SettingEvent, ProviderSettings, ValueEvents, DealEvents, StateEvents
<1>5. c \in DOMAIN FlagUpdate(l) => c \in ProviderFlags /\ e \in SwitchEvents
  BY <1>2, <1>3 DEF ProviderFlags, SwitchEvents
<1>6. DOMAIN LogToDealUpdate(l) = IF e \in StateEvents THEN {"state"}
                                  ELSE IF e = "RailIdUpdated" THEN {"railId"}
                                  ELSE IF e = "ManifestLocationUpdated" THEN {"manifestLocation"} ELSE {}
  BY DEF LogToDealUpdate, EventNameToDealState, StateEvents
<1>7. \A s \in SwitchEvents : s \notin DealEvents
  BY DEF SwitchEvents, DealEvents, StateEvents
<1>8. CASE c \in DOMAIN SettingUpdate(l)
  <2>1. c \in ProviderSettings /\ l.entity \in Providers /\ l.args.value \in Values
    BY <1>4, <1>8 DEF Typed
  <2>2. Written(l, c) = l.args.value
    BY <2>1 DEF Written, ProviderSettings, ProviderFlags
  <2>3. c \notin ProviderFlags \cup DealSettings \cup {"capabilities"} /\ c # "state"
        /\ c \notin {"railId", "manifestLocation", "capabilities"} /\ c \in Overwritten
    BY <2>1 DEF ProviderSettings, ProviderFlags, DealSettings, Overwritten
  <2>4. l.args.value \in Nat
    BY <2>1, ConstantsAssumption
  <2> QED
    BY <2>1, <2>2, <2>3, <2>4
<1>9. CASE c \in DOMAIN FlagUpdate(l)
  <2>1. c \in ProviderFlags /\ l.entity \in Providers
    BY <1>5, <1>7, <1>9 DEF Typed
  <2>2. Written(l, c) = (l.eventName = FlagEvents[c][1])
    BY <2>1 DEF Written, ProviderFlags
  <2>3. c \notin ProviderSettings \cup DealSettings \cup {"capabilities"} /\ c # "state"
        /\ c \notin {"railId", "manifestLocation", "capabilities"} /\ c \in Overwritten
    BY <2>1 DEF ProviderSettings, ProviderFlags, DealSettings, Overwritten
  <2>4. Written(l, c) \in BOOLEAN
    BY <2>2
  <2> QED
    BY <2>1, <2>3, <2>4
<1>10. CASE c \in DOMAIN LogToDealUpdate(l)
  <2>1. c \in DealSettings /\ e \in DealEvents /\ l.entity \in Deals
    BY <1>6, <1>10 DEF DealSettings, DealEvents, Typed
  <2>2. c \notin ProviderSettings \cup ProviderFlags \cup {"capabilities"} /\ c \in Overwritten
    BY <2>1 DEF ProviderSettings, ProviderFlags, DealSettings, Overwritten
  <2>3. c = "state" => Written(l, c) \in States
    <3>1. c = "state" => e \in StateEvents /\ Written(l, c) = EventNameToDealState[e]
      BY <1>6, <1>10 DEF Written, ProviderFlags
    <3>2. \A x \in StateEvents : EventNameToDealState[x] \in States
      BY DEF StateEvents, EventNameToDealState, States
    <3> QED
      BY <3>1, <3>2
  <2>4. c \in {"railId", "manifestLocation"} => Written(l, c) \in Values
    <3>1. c \in {"railId", "manifestLocation"} => e \in ValueEvents /\ Written(l, c) = l.args.value
      BY <1>6, <1>10 DEF Written, ProviderFlags, ValueEvents
    <3> QED
      BY <3>1 DEF Typed
  <2> QED
    BY <2>1, <2>2, <2>3, <2>4
<1>11. CASE c = "capabilities" /\ e = "CapabilitiesUpdated"
  <2>1. e \in ValueEvents \ DealEvents
    BY <1>11 DEF ValueEvents, DealEvents, StateEvents
  <2>2. l.entity \in Providers /\ l.args.value \in Values
    BY <2>1 DEF Typed
  <2>3. Written(l, c) = l.args.value
    BY <1>11 DEF Written, ProviderFlags
  <2>4. c \notin ProviderSettings \cup ProviderFlags \cup DealSettings /\ c # "state" /\ c \in Overwritten
    BY <1>11 DEF ProviderSettings, ProviderFlags, DealSettings, Overwritten
  <2> QED
    BY <2>2, <2>3, <2>4
<1> QED
  BY <1>8, <1>9, <1>10, <1>11 DEF OverwrittenColumns

\* A byte counter is only incremented or decremented.
LEMMA ByteMoves ==
  ASSUME NEW l, Typed(l), NEW c \in ByteColumns
  PROVE  /\ c \in DOMAIN ByteUpdate(l) => IsMove(ByteUpdate(l)[c])
         /\ Moved(ByteUpdate(l), c) \in Int
         /\ l.eventName \notin ByteEvents => Moved(ByteUpdate(l), c) = 0
<1>1. CASE l.eventName \in ByteEvents
  <2>1. l.args.bytes \in Int
    <3>1. l.args.bytes \in Sizes
      BY <1>1 DEF Typed
    <3>2. Sizes \subseteq Int
      BY ConstantsAssumption
    <3> QED
      BY <3>1, <3>2
  <2>2. c \in DOMAIN ByteUpdate(l) => IsMove(ByteUpdate(l)[c])
    BY <1>1, <2>1 DEF ByteEvents, ByteUpdate, IsMove, Increment, Decrement
  <2>3. Moved(ByteUpdate(l), c) \in Int
    BY <2>2 DEF Moved, Balance, IsMove
  <2> QED
    BY <1>1, <2>2, <2>3
<1>2. CASE l.eventName \notin ByteEvents
  <2>1. ByteUpdate(l) = <<>>
    BY <1>2 DEF ByteEvents, ByteUpdate
  <2> QED
    BY <2>1, <1>2 DEF Moved
<1> QED
  BY <1>1, <1>2

\* The positions of a provider's capability logs.
CapabilityLogs(logs, p) ==
  {i \in DOMAIN logs : logs[i].entity = p /\ logs[i].eventName = "CapabilitiesUpdated"}

\* The rows of the tables after the operations of a batch.
LEMMA BatchRowsUpdated ==
  ASSUME NEW t, DOMAIN t = Fields, NEW logs, NEW allDeals
  PROVE  LET u == BatchTables(t, logs, allDeals)
             new == Subjects(logs, "ProviderRegistered")
             ids == Subjects(logs, "DealProposalCreated")
         IN /\ \A p \in DOMAIN t.providers \cup new : u.providers[p] =
                 ApplyUpdate(IF p \in new THEN NewProvider ELSE t.providers[p],
                             UpdateInput(ByteColumns, ProviderUpdates(logs, p)))
            /\ \A p \in DOMAIN t.capabilities \cup new : u.capabilities[p] =
                 IF CapabilityLogs(logs, p) # {} THEN logs[Max(CapabilityLogs(logs, p))].args.value
                 ELSE IF p \in new THEN Default ELSE t.capabilities[p]
            /\ \A d \in DOMAIN t.deals \cup ids :
                 \E l : /\ d \in ids => /\ l \in EventsOf(logs, "DealProposalCreated")
                                        /\ l.entity = d
                        /\ u.deals[d] = ApplyUpdate(
                             IF d \in ids THEN NewDeal(l.args.provider, l.args.totalDealSize,
                                                       l.args.manifestLocation)
                                          ELSE t.deals[d],
                             UpdateInput({}, DealUpdates(logs, d)))
<1> DEFINE t1 == CreateProviders(t, logs)
           t2 == UpdateProviders(t1, logs)
           t3 == UpdateProvidersCapabilities(t2, logs)
           t4 == CreateDeals(t3, logs, allDeals)
           u == UpdateDeals(t4, logs)
           new == Subjects(logs, "ProviderRegistered")
           ids == Subjects(logs, "DealProposalCreated")
<1>1. BatchTables(t, logs, allDeals) = u
  BY DEF BatchTables
<1>2. /\ DOMAIN t1 = Fields
      /\ DOMAIN t1.providers = DOMAIN t.providers \cup new
      /\ DOMAIN t1.capabilities = DOMAIN t.capabilities \cup new
      /\ t1.deals = t.deals
  BY CreateProvidersRows
<1>3. /\ \A p \in DOMAIN t1.providers :
            t1.providers[p] = IF p \in new THEN NewProvider ELSE t.providers[p]
      /\ \A p \in DOMAIN t1.capabilities :
            t1.capabilities[p] = IF p \in new THEN Default ELSE t.capabilities[p]
  <2> DEFINE ps == Spread(t.providers, [x \in new |-> NewProvider])
             cs == Spread(t.capabilities, [x \in new |-> Default])
  <2>1. t1 = [t EXCEPT !.providers = ps, !.capabilities = cs]
    BY DEF CreateProviders, Subjects
  <2>2. /\ \A p \in DOMAIN ps : ps[p] = IF p \in new THEN NewProvider ELSE t.providers[p]
        /\ \A p \in DOMAIN cs : cs[p] = IF p \in new THEN Default ELSE t.capabilities[p]
    <3> HIDE DEF new
    <3> QED
      BY DEF Spread
  <2> HIDE DEF ps, cs
  <2>3. t1.providers = ps /\ t1.capabilities = cs
    BY <2>1 DEF Fields
  <2> QED
    BY <2>2, <2>3
<1> HIDE DEF t1
<1>4. /\ DOMAIN t2 = Fields
      /\ DOMAIN t2.providers = DOMAIN t1.providers
      /\ t2.capabilities = t1.capabilities /\ t2.deals = t1.deals
  BY <1>2, UpdateProvidersRows
<1>5. \A p \in DOMAIN t1.providers :
         t2.providers[p] = ApplyUpdate(t1.providers[p], UpdateInput(ByteColumns, ProviderUpdates(logs, p)))
  <2> DEFINE f(p) == ApplyUpdate(t1.providers[p], UpdateInput(ByteColumns, ProviderUpdates(logs, p)))
             g == [p \in DOMAIN t1.providers |-> f(p)]
             x == t1.thrown \/ ~(Entities(logs) \cap Providers \subseteq DOMAIN t1.providers)
  <2>1. t2 = [t1 EXCEPT !.providers = g, !.thrown = x]
    BY DEF UpdateProviders
  <2> HIDE DEF f, x
  <2>2. \A p \in DOMAIN t1.providers : g[p] = f(p)
    OBVIOUS
  <2> HIDE DEF g
  <2>3. t2.providers = g
    BY <1>2, <2>1 DEF Fields
  <2> QED
    BY <2>2, <2>3 DEF f
<1> HIDE DEF t2
<1>6. /\ DOMAIN t3 = Fields
      /\ DOMAIN t3.capabilities = DOMAIN t2.capabilities
      /\ t3.providers = t2.providers /\ t3.deals = t2.deals
  BY <1>4, UpdateProvidersCapabilitiesRows
<1>7. \A p \in DOMAIN t2.capabilities : t3.capabilities[p] =
         IF CapabilityLogs(logs, p) # {} THEN logs[Max(CapabilityLogs(logs, p))].args.value
         ELSE t2.capabilities[p]
  <2> DEFINE f(p) == IF CapabilityLogs(logs, p) = {} THEN t2.capabilities[p]
                     ELSE logs[Max(CapabilityLogs(logs, p))].args.value
             g == [p \in DOMAIN t2.capabilities |-> f(p)]
  <2>1. t3 = [t2 EXCEPT !.capabilities = g]
    BY DEF UpdateProvidersCapabilities, CapabilityLogs
  <2> HIDE DEF f
  <2>2. \A p \in DOMAIN t2.capabilities : g[p] = f(p)
    OBVIOUS
  <2> HIDE DEF g
  <2>3. t3.capabilities = g
    BY <1>4, <2>1 DEF Fields
  <2> QED
    BY <2>2, <2>3 DEF f
<1> HIDE DEF t3
<1>8. /\ DOMAIN t4 = Fields
      /\ t4.providers = t3.providers /\ t4.capabilities = t3.capabilities
      /\ DOMAIN t4.deals = DOMAIN t3.deals \cup ids
  BY <1>6, CreateDealsRows
<1> DEFINE log(x) == CHOOSE l \in EventsOf(logs, "DealProposalCreated") : l.entity = x
           f(x) == NewDeal(log(x).args.provider, log(x).args.totalDealSize,
                           log(x).args.manifestLocation)
<1>9. \A d \in DOMAIN t4.deals : t4.deals[d] = IF d \in ids THEN f(d) ELSE t3.deals[d]
  <2> DEFINE ds == Spread(t3.deals, [x \in ids |-> f(x)])
             e == Spread(t3.terms, [x \in DOMAIN allDeals \cap ids |-> allDeals[x].totalDealSize])
  <2>1. t4 = [t3 EXCEPT !.deals = ds, !.terms = e]
    BY DEF CreateDeals, Subjects
  <2> HIDE DEF f, ids, e
  <2>2. \A d \in DOMAIN ds : ds[d] = IF d \in ids THEN f(d) ELSE t3.deals[d]
    BY DEF Spread
  <2> HIDE DEF ds
  <2>3. t4.deals = ds
    BY <1>6, <2>1 DEF Fields
  <2> QED
    BY <2>2, <2>3
<1>10. \A d \in ids : log(d) \in EventsOf(logs, "DealProposalCreated") /\ log(d).entity = d
  BY DEF Subjects
<1> HIDE DEF t4
<1>11. /\ u.providers = t4.providers /\ u.capabilities = t4.capabilities
       /\ DOMAIN u = Fields
  BY <1>8, UpdateDealsRows
<1>12. \A d \in DOMAIN t4.deals :
          u.deals[d] = ApplyUpdate(t4.deals[d], UpdateInput({}, DealUpdates(logs, d)))
  <2> DEFINE h(d) == ApplyUpdate(t4.deals[d], UpdateInput({}, DealUpdates(logs, d)))
             g == [d \in DOMAIN t4.deals |-> h(d)]
             x == t4.thrown \/ ~(Entities(logs) \cap Deals \subseteq DOMAIN t4.deals)
  <2>1. u = [t4 EXCEPT !.deals = g, !.thrown = x]
    BY DEF UpdateDeals
  <2> HIDE DEF h, x
  <2>2. \A d \in DOMAIN t4.deals : g[d] = h(d)
    OBVIOUS
  <2> HIDE DEF g
  <2>3. u.deals = g
    BY <1>8, <2>1 DEF Fields
  <2> QED
    BY <2>2, <2>3 DEF h
<1> HIDE DEF u, new, ids, log
<1>13. \A p \in DOMAIN t.providers \cup new : u.providers[p] =
         ApplyUpdate(IF p \in new THEN NewProvider ELSE t.providers[p],
                     UpdateInput(ByteColumns, ProviderUpdates(logs, p)))
  BY <1>2, <1>3, <1>5, <1>6, <1>8, <1>11
<1>14. \A p \in DOMAIN t.capabilities \cup new : u.capabilities[p] =
         IF CapabilityLogs(logs, p) # {} THEN logs[Max(CapabilityLogs(logs, p))].args.value
         ELSE IF p \in new THEN Default ELSE t.capabilities[p]
  BY <1>2, <1>3, <1>4, <1>7, <1>8, <1>11
<1>15. ASSUME NEW d \in DOMAIN t.deals \cup ids
       PROVE  \E l : /\ d \in ids => /\ l \in EventsOf(logs, "DealProposalCreated")
                                     /\ l.entity = d
                     /\ u.deals[d] = ApplyUpdate(
                          IF d \in ids THEN NewDeal(l.args.provider, l.args.totalDealSize,
                                                    l.args.manifestLocation)
                                       ELSE t.deals[d],
                          UpdateInput({}, DealUpdates(logs, d)))
  <2>1. d \in DOMAIN t4.deals /\ t3.deals = t.deals
    BY <1>2, <1>4, <1>6, <1>8
  <2>2. t4.deals[d] = IF d \in ids THEN f(d) ELSE t.deals[d]
    BY <1>9, <2>1
  <2>3. u.deals[d] = ApplyUpdate(IF d \in ids THEN f(d) ELSE t.deals[d], UpdateInput({}, DealUpdates(logs, d)))
    BY <1>12, <2>1, <2>2
  <2> WITNESS log(d)
  <2> QED
    BY <2>3, <1>10
<1> HIDE DEF f
<1> QED
  BY <1>1, <1>13, <1>14, <1>15 DEF new, ids

-----------------------------------------------------------------------------
(* A batch, row by row. *)

\* A provider's row and a deal's row before the updates of a batch: they hold the
\* columns of the tables, or of a new row.
RowBefore(row, e, columns) == \A c \in columns : row[c] = Cell(tables, e, c)

\* The rows that a batch of the first n pending logs, newest first, makes.
Indexed(n, logs) ==
  /\ n \in Nat /\ DOMAIN pending = 1..Len(pending) /\ Len(pending) \in Nat
  /\ Len(logs) = n /\ DOMAIN logs = 1..n
  /\ \A i \in 1..n : n - i + 1 \in 1..n /\ logs[i] = pending[n - i + 1]
  /\ pending' \in Seq(PendingLog) /\ Len(pending') = Len(pending) - n
  /\ DOMAIN pending' = 1..(Len(pending) - n)
  /\ \A i \in DOMAIN pending' : n + i \in DOMAIN pending /\ pending'[i] = pending[n + i]
  /\ \A j \in DOMAIN pending : j > n => j - n \in DOMAIN pending' /\ pending'[j - n] = pending[j]
  /\ entangled' = entangled \cup {e \in Entities(logs) : Entangled(logs, e)}
  /\ \A p \in DOMAIN tables'.providers : \E row \in ProviderRow :
       /\ RowBefore(row, p, DOMAIN NewProvider)
       /\ tables'.providers[p] =
            ApplyUpdate(row, UpdateInput(ByteColumns, ProviderUpdates(logs, p)))
  /\ \A p \in DOMAIN tables'.capabilities : tables'.capabilities[p] =
       IF CapabilityLogs(logs, p) # {} THEN logs[Max(CapabilityLogs(logs, p))].args.value
       ELSE Cell(tables, p, "capabilities")
  /\ \A d \in DOMAIN tables'.deals : d \in DOMAIN chain.deals /\ \E row \in DealRow :
       /\ RowBefore(row, d, DealSettings)
       /\ row.provider = chain.deals[d].provider
       /\ row.totalDealSize = chain.deals[d].totalDealSize
       /\ tables'.deals[d] = ApplyUpdate(row, UpdateInput({}, DealUpdates(logs, d)))
  /\ DOMAIN tables.providers \subseteq DOMAIN tables'.providers
  /\ DOMAIN tables.capabilities \subseteq DOMAIN tables'.capabilities
  /\ DOMAIN tables'.capabilities = DOMAIN tables'.providers
  /\ DOMAIN tables.deals \subseteq DOMAIN tables'.deals
  /\ \A i \in 1..n : /\ pending[i].entity \in Providers =>
                          pending[i].entity \in DOMAIN tables'.providers
                     /\ pending[i].entity \in Deals => pending[i].entity \in DOMAIN tables'.deals

\* A step of the runner indexes such a batch.
LEMMA IndexedRows ==
  ASSUME IInv, TypesInv, FixedInv, NEW b \in Nat, Index(b)
  PROVE  \E n \in 0..Len(pending), logs \in Seq(PendingLog) : Indexed(n, logs)
<1>1. ChainShape /\ TablesShape /\ PendingShape /\ RowsInv /\ OnceInv /\ HistoryInv
  BY DEF IInv
<1> DEFINE logs == SortLogs(Batch(b))
           new == Subjects(logs, "ProviderRegistered")
           ids == Subjects(logs, "DealProposalCreated")
<1>2. PICK n \in 0..Len(pending) :
               /\ Batch(b) = SubSeq(pending, 1, n) /\ Len(Batch(b)) = n
               /\ logs \in Seq(PendingLog) /\ DOMAIN logs = 1..n
               /\ \A i \in 1..n : n - i + 1 \in 1..n /\ logs[i] = pending[n - i + 1]
               /\ \A l : l \in ToSet(logs) <=> \E i \in 1..n : l = pending[i]
               /\ Entities(logs) = {pending[i].entity : i \in 1..n}
               /\ \A event, e : e \in Subjects(logs, event) <=>
                     \E i \in 1..n : pending[i].eventName = event /\ pending[i].entity = e
  BY <1>1, BatchLogs
<1>3. Len(pending) \in Nat /\ DOMAIN pending = 1..Len(pending)
  BY <1>1, LenProperties DEF PendingShape
<1>4. n \in Nat /\ \A i \in 1..n : i \in DOMAIN pending
  BY <1>3
<1>5. /\ tables' = BatchTables(tables, logs, chain.deals)
      /\ entangled' = entangled \cup {e \in Entities(logs) : Entangled(logs, e)}
      /\ pending' = SubSeq(pending, n + 1, Len(pending))
      /\ ~BatchTables(tables, logs, chain.deals).thrown
      /\ \A l \in EventsOf(logs, "ProviderRegistered") : l.entity \notin DOMAIN tables.providers
      /\ \A l \in EventsOf(logs, "DealProposalCreated") : l.entity \notin DOMAIN tables.deals
  BY <1>2 DEF Index, Succeeds
<1>6. DOMAIN tables = Fields /\ tables.thrown = FALSE /\ DOMAIN tables.capabilities = DOMAIN tables.providers
  BY <1>1 DEF TablesShape, Fields
<1>7. Len(logs) = n
  BY <1>2, <1>4, LenProperties
<1> HIDE DEF logs
<1>8. /\ DOMAIN tables'.providers = DOMAIN tables.providers \cup new
      /\ DOMAIN tables'.capabilities = DOMAIN tables.capabilities \cup new
      /\ DOMAIN tables'.deals = DOMAIN tables.deals \cup ids
      /\ Entities(logs) \cap Providers \subseteq DOMAIN tables.providers \cup new
      /\ Entities(logs) \cap Deals \subseteq DOMAIN tables.deals \cup ids
  <2> DEFINE u == BatchTables(tables, logs, chain.deals)
  <2>1. /\ DOMAIN u.providers = DOMAIN tables.providers \cup new
        /\ DOMAIN u.capabilities = DOMAIN tables.capabilities \cup new
        /\ DOMAIN u.deals = DOMAIN tables.deals \cup ids
        /\ u.thrown = ~( /\ Entities(logs) \cap Providers \subseteq DOMAIN tables.providers \cup new
                         /\ Entities(logs) \cap Deals \subseteq DOMAIN tables.deals \cup ids)
    BY <1>6, BatchRows
  <2>2. tables' = u /\ ~u.thrown
    BY <1>5
  <2> HIDE DEF u, new, ids
  <2> QED
    BY <2>1, <2>2
<1>9. /\ \A p \in DOMAIN tables.providers \cup new : tables'.providers[p] =
           ApplyUpdate(IF p \in new THEN NewProvider ELSE tables.providers[p],
                       UpdateInput(ByteColumns, ProviderUpdates(logs, p)))
      /\ \A p \in DOMAIN tables.capabilities \cup new : tables'.capabilities[p] =
           IF CapabilityLogs(logs, p) # {} THEN logs[Max(CapabilityLogs(logs, p))].args.value
           ELSE IF p \in new THEN Default ELSE tables.capabilities[p]
      /\ \A d \in DOMAIN tables.deals \cup ids :
           \E l : /\ d \in ids => /\ l \in EventsOf(logs, "DealProposalCreated")
                                  /\ l.entity = d
                  /\ tables'.deals[d] = ApplyUpdate(
                       IF d \in ids THEN NewDeal(l.args.provider, l.args.totalDealSize,
                                                 l.args.manifestLocation)
                                    ELSE tables.deals[d],
                       UpdateInput({}, DealUpdates(logs, d)))
  BY <1>5, <1>6, BatchRowsUpdated
<1>10. new \cap DOMAIN tables.providers = {} /\ ids \cap DOMAIN tables.deals = {}
  BY <1>5 DEF Subjects
<1>11. /\ \A d \in ids : d \in Deals
       /\ \A p \in new : p \in Providers
  <2>1. ASSUME NEW d \in ids PROVE d \in Deals
    <3>1. PICK i \in 1..n : pending[i].eventName = "DealProposalCreated" /\ pending[i].entity = d
      BY <1>2
    <3> QED
      BY <3>1, <1>1, <1>4, PendingLogs
  <2>2. ASSUME NEW p \in new PROVE p \in Providers
    <3>1. PICK i \in 1..n : pending[i].eventName = "ProviderRegistered" /\ pending[i].entity = p
      BY <1>2
    <3> QED
      BY <3>1, <1>1, <1>4, PendingLogs
  <2> QED
    BY <2>1, <2>2
<1> HIDE DEF new, ids
<1>12. ASSUME NEW p \in DOMAIN tables'.providers
       PROVE  \E row \in ProviderRow :
                 /\ RowBefore(row, p, DOMAIN NewProvider)
                 /\ tables'.providers[p] =
                      ApplyUpdate(row, UpdateInput(ByteColumns, ProviderUpdates(logs, p)))
  <2> DEFINE row == IF p \in new THEN NewProvider ELSE tables.providers[p]
  <2>1. tables'.providers[p] = ApplyUpdate(row, UpdateInput(ByteColumns, ProviderUpdates(logs, p)))
    BY <1>8, <1>9
  <2>2. NewProvider \in ProviderRow /\ "capabilities" \notin DOMAIN NewProvider
    BY DEF NewProvider, ProviderRow, Default
  <2>3. row \in ProviderRow
    BY <2>2, <1>8 DEF TypesInv
  <2>4. \A c \in DOMAIN NewProvider : row[c] = Cell(tables, p, c)
    <3>1. \A c \in DOMAIN NewProvider : Cell(tables, p, c) =
            IF p \in DOMAIN tables.providers THEN tables.providers[p][c] ELSE NewProvider[c]
      BY <2>2 DEF Cell
    <3> QED
      BY <3>1, <1>8, <1>10
  <2> HIDE DEF row
  <2> QED
    BY <2>1, <2>3, <2>4 DEF RowBefore
<1>13. \A p \in DOMAIN tables'.capabilities : tables'.capabilities[p] =
          IF CapabilityLogs(logs, p) # {} THEN logs[Max(CapabilityLogs(logs, p))].args.value
          ELSE Cell(tables, p, "capabilities")
  <2> SUFFICES ASSUME NEW p \in DOMAIN tables'.capabilities
               PROVE  (IF p \in new THEN Default ELSE tables.capabilities[p]) = Cell(tables, p, "capabilities")
    BY <1>8, <1>9
  <2>1. Cell(tables, p, "capabilities") =
          IF p \in DOMAIN tables.capabilities THEN tables.capabilities[p] ELSE Default
    BY DEF Cell
  <2> QED
    BY <2>1, <1>6, <1>8, <1>10
<1>14. ASSUME NEW d \in DOMAIN tables'.deals
       PROVE  d \in DOMAIN chain.deals /\ \E row \in DealRow :
                 /\ RowBefore(row, d, DealSettings)
                 /\ row.provider = chain.deals[d].provider
                 /\ row.totalDealSize = chain.deals[d].totalDealSize
                 /\ tables'.deals[d] = ApplyUpdate(row, UpdateInput({}, DealUpdates(logs, d)))
  <2>1. PICK l : /\ d \in ids => /\ l \in EventsOf(logs, "DealProposalCreated")
                                 /\ l.entity = d
                 /\ tables'.deals[d] = ApplyUpdate(
                      IF d \in ids THEN NewDeal(l.args.provider, l.args.totalDealSize,
                                                l.args.manifestLocation)
                                   ELSE tables.deals[d],
                      UpdateInput({}, DealUpdates(logs, d)))
    BY <1>8, <1>9
  <2>2. \A c \in DealSettings : Cell(tables, d, c) =
          IF d \in DOMAIN tables.deals THEN tables.deals[d][c] ELSE NewDeal(Default, 0, Default)[c]
    BY DEF Cell, DealSettings, NewProvider
  <2>3. CASE d \in ids
    <3> DEFINE row == NewDeal(l.args.provider, l.args.totalDealSize, l.args.manifestLocation)
    <3>1. PICK i \in 1..n : l = pending[i] /\ pending[i].eventName = "DealProposalCreated"
      <4>1. l \in EventsOf(logs, "DealProposalCreated")
        BY <2>1, <2>3
      <4>2. l \in ToSet(logs) /\ l.eventName = "DealProposalCreated"
        BY <4>1 DEF EventsOf
      <4>3. \A x : x \in ToSet(logs) => \E i \in 1..n : x = pending[i]
        BY ONLY <1>2
      <4>4. PICK i \in 1..n : l = pending[i]
        BY ONLY <4>2, <4>3
      <4> QED
        BY <4>2, <4>4
    <3>2. /\ l.args.provider \in Providers /\ l.args.totalDealSize \in Sizes
          /\ l.args.manifestLocation = Default
      BY <3>1, <1>4 DEF TypesInv, Typed
    <3>3. /\ d \in DOMAIN chain.deals
          /\ chain.deals[d].provider = l.args.provider
          /\ chain.deals[d].totalDealSize = l.args.totalDealSize
      BY <2>1, <2>3, <3>1, <1>4 DEF FixedInv
    <3>4. row \in DealRow /\ row.provider = l.args.provider /\ row.totalDealSize = l.args.totalDealSize
      BY <3>2 DEF NewDeal, DealRow, States
    <3>5. \A c \in DealSettings : row[c] = NewDeal(Default, 0, Default)[c]
      BY <3>2 DEF NewDeal, DealSettings
    <3>6. d \notin DOMAIN tables.deals
      BY <2>3, <1>10
    <3>7. tables'.deals[d] = ApplyUpdate(row, UpdateInput({}, DealUpdates(logs, d)))
      BY <2>1, <2>3
    <3> HIDE DEF row
    <3> QED
      BY <2>2, <3>3, <3>4, <3>5, <3>6, <3>7 DEF RowBefore
  <2>4. CASE d \notin ids
    <3> DEFINE row == tables.deals[d]
    <3>1. d \in DOMAIN tables.deals
      BY <2>4, <1>8
    <3>2. /\ d \in DOMAIN chain.deals /\ row \in DealRow
          /\ row.provider = chain.deals[d].provider
          /\ row.totalDealSize = chain.deals[d].totalDealSize
      BY <3>1 DEF FixedInv, TypesInv
    <3>3. tables'.deals[d] = ApplyUpdate(row, UpdateInput({}, DealUpdates(logs, d)))
      BY <2>1, <2>4
    <3>4. RowBefore(row, d, DealSettings)
      BY <2>2, <3>1 DEF RowBefore
    <3> HIDE DEF row
    <3> QED
      BY <3>2, <3>3, <3>4
  <2> QED
    BY <2>3, <2>4
<1>15. ASSUME NEW i \in 1..n
       PROVE  /\ pending[i].entity \in Providers => pending[i].entity \in DOMAIN tables'.providers
              /\ pending[i].entity \in Deals => pending[i].entity \in DOMAIN tables'.deals
  <2>1. pending[i].entity \in Entities(logs)
    BY <1>2
  <2> QED
    BY <2>1, <1>8
<1>16. /\ pending' \in Seq(PendingLog) /\ Len(pending') = Len(pending) - n
       /\ DOMAIN pending' = 1..(Len(pending) - n)
       /\ \A i \in 1..(Len(pending) - n) :
             n + i \in (n + 1)..Len(pending) /\ pending'[i] = pending[n + i]
  BY <1>1, <1>5, PrefixLogs
<1>17. \A i \in DOMAIN pending' : n + i \in DOMAIN pending /\ pending'[i] = pending[n + i]
  BY <1>3, <1>4, <1>16
<1>18. ASSUME NEW j \in DOMAIN pending, j > n
       PROVE  j - n \in DOMAIN pending' /\ pending'[j - n] = pending[j]
  <2> DEFINE i == j - n
  <2>1. i \in 1..(Len(pending) - n) /\ n + i = j
    BY <1>3, <1>4, <1>18
  <2> HIDE DEF i
  <2>2. pending'[i] = pending[j]
    BY <2>1, <1>16
  <2> QED
    BY <2>1, <2>2, <1>16 DEF i
<1>19. /\ DOMAIN tables.providers \subseteq DOMAIN tables'.providers
       /\ DOMAIN tables.capabilities \subseteq DOMAIN tables'.capabilities
       /\ DOMAIN tables'.capabilities = DOMAIN tables'.providers
       /\ DOMAIN tables.deals \subseteq DOMAIN tables'.deals
  BY <1>6, <1>8
<1>20. n \in Nat /\ DOMAIN pending = 1..Len(pending) /\ Len(pending) \in Nat
  BY <1>3, <1>4
<1>21. /\ Len(logs) = n /\ DOMAIN logs = 1..n
       /\ \A i \in 1..n : n - i + 1 \in 1..n /\ logs[i] = pending[n - i + 1]
  BY <1>2, <1>7
<1>22. logs \in Seq(PendingLog)
  BY <1>2
<1> WITNESS n \in 0..Len(pending), logs \in Seq(PendingLog)
<1> QED
  BY <1>5, <1>12, <1>13, <1>14, <1>15, <1>16, <1>17, <1>18, <1>19, <1>20, <1>21 DEF Indexed

\* What a reduced batch does to an overwritten column of a row: it keeps it or gives
\* it the value of an update, of the only one if there is one.
LEMMA OverwrittenRow ==
  ASSUME NEW merged, NEW updates, Len(updates) \in Nat, NEW c, c \notin merged,
         NEW row, c \in DOMAIN row
  PROVE  LET r == ApplyUpdate(row, UpdateInput(merged, updates))
             n == Len(updates)
         IN /\ (\A i \in 1..n : c \notin DOMAIN updates[i]) => r[c] = row[c]
            /\ \/ r[c] = row[c]
               \/ \E i \in 1..n : /\ c \in DOMAIN updates[i]
                                  /\ \A v : updates[i][c] = SetTo(v) => r[c] = v
            /\ \A i \in 1..n :
                 (\A j \in 1..n : c \in DOMAIN updates[j] <=> j = i) =>
                    \A v : updates[i][c] = SetTo(v) => r[c] = v
<1> DEFINE n == Len(updates)
           input == UpdateInput(merged, updates)
           r == ApplyUpdate(row, input)
<1>1. /\ c \in DOMAIN input <=> \E i \in 1..n : c \in DOMAIN updates[i]
      /\ c \in DOMAIN input => \E i \in 1..n : c \in DOMAIN updates[i] /\ input[c] = updates[i][c]
  BY OverwrittenColumn
<1> HIDE DEF input
<1>2. /\ c \notin DOMAIN input => r[c] = row[c]
      /\ \A v : c \in DOMAIN input /\ input[c] = SetTo(v) => r[c] = v
  BY UpdatedColumn
<1> HIDE DEF r, n
<1>3. (\A i \in 1..n : c \notin DOMAIN updates[i]) => r[c] = row[c]
  BY <1>1, <1>2
<1>4. \/ r[c] = row[c]
      \/ \E i \in 1..n : /\ c \in DOMAIN updates[i]
                         /\ \A v : updates[i][c] = SetTo(v) => r[c] = v
  BY <1>1, <1>2
<1>5. ASSUME NEW i \in 1..n, \A j \in 1..n : c \in DOMAIN updates[j] <=> j = i
      PROVE  \A v : updates[i][c] = SetTo(v) => r[c] = v
  BY <1>1, <1>2, <1>5
<1> QED
  BY <1>3, <1>4, <1>5 DEF r, n, input

\* The updates of a row are as many as the logs.
LEMMA UpdatesOfRow ==
  ASSUME NEW n, NEW logs, Indexed(n, logs), NEW e
  PROVE  /\ Len(ProviderUpdates(logs, e)) = n /\ Len(DealUpdates(logs, e)) = n /\ n \in Nat
         /\ \A i \in 1..n : ProviderUpdates(logs, e)[i] =
              IF logs[i].entity = e THEN LogToProviderUpdate(logs[i]) ELSE <<>>
         /\ \A i \in 1..n : DealUpdates(logs, e)[i] =
              IF logs[i].entity = e THEN LogToDealUpdate(logs[i]) ELSE <<>>
<1>1. DOMAIN logs = 1..n /\ n \in Nat
  BY DEF Indexed
<1> DEFINE f(i) == IF logs[i].entity = e THEN LogToProviderUpdate(logs[i]) ELSE <<>>
           g(i) == IF logs[i].entity = e THEN LogToDealUpdate(logs[i]) ELSE <<>>
<1>2. ProviderUpdates(logs, e) = [i \in 1..n |-> f(i)] /\ DealUpdates(logs, e) = [i \in 1..n |-> g(i)]
  BY <1>1 DEF ProviderUpdates, DealUpdates
<1> HIDE DEF f, g
<1>3. /\ Len(ProviderUpdates(logs, e)) = n /\ Len(DealUpdates(logs, e)) = n
      /\ \A i \in 1..n : ProviderUpdates(logs, e)[i] = f(i) /\ DealUpdates(logs, e)[i] = g(i)
  BY <1>1, <1>2
<1> QED
  BY <1>1, <1>3 DEF f, g

\* The logs of a batch are those at the front of the pending ones.
LEMMA BatchPositions ==
  ASSUME PendingShape, NEW n \in 0..Len(pending), NEW logs, Indexed(n, logs)
  PROVE  /\ \A i \in 1..n : \E k \in 1..n : logs[i] = pending[k]
         /\ \A k \in 1..n : \E i \in 1..n : logs[i] = pending[k]
<1>1. /\ n \in Nat
      /\ \A i \in 1..n : n - i + 1 \in 1..n /\ logs[i] = pending[n - i + 1]
  BY DEF Indexed
<1>2. \A i \in 1..n : \E k \in 1..n : logs[i] = pending[k]
  BY <1>1
<1>3. ASSUME NEW k \in 1..n
      PROVE  \E i \in 1..n : logs[i] = pending[k]
  <2> DEFINE i == n - k + 1
  <2>1. i \in 1..n /\ n - i + 1 = k
    BY <1>1
  <2> HIDE DEF i
  <2>2. logs[i] = pending[n - i + 1]
    BY <1>1, <2>1
  <2> QED
    BY <2>1, <2>2
<1> QED
  BY <1>2, <1>3

\* The logs of a batch are typed, each pending one is among them.
LEMMA LogsOfBatch ==
  ASSUME PendingShape, TypesInv, NEW n \in 0..Len(pending), NEW logs, Indexed(n, logs)
  PROVE  /\ \A i \in 1..n : logs[i] \in PendingLog /\ Typed(logs[i]) /\ logs[i].eventName \in Events
         /\ \A i \in 1..n : \E k \in 1..n : logs[i] = pending[k]
         /\ \A k \in 1..n : \E i \in 1..n : logs[i] = pending[k]
<1>1. /\ n \in Nat /\ DOMAIN pending = 1..Len(pending) /\ Len(pending) \in Nat
      /\ \A i \in 1..n : n - i + 1 \in 1..n /\ logs[i] = pending[n - i + 1]
  BY DEF Indexed
<1>2. \A k \in 1..n : k \in DOMAIN pending
  BY <1>1
<1>3. ASSUME NEW i \in 1..n
      PROVE  /\ logs[i] \in PendingLog /\ Typed(logs[i]) /\ logs[i].eventName \in Events
             /\ \E k \in 1..n : logs[i] = pending[k]
  <2>1. PICK k \in 1..n : logs[i] = pending[k]
    BY <1>1
  <2>2. pending[k] \in PendingLog /\ Typed(pending[k])
    BY <1>2, PendingLogs DEF TypesInv
  <2> QED
    BY <2>1, <2>2 DEF PendingLog
<1>4. ASSUME NEW k \in 1..n
      PROVE  \E i \in 1..n : logs[i] = pending[k]
  <2> DEFINE i == n - k + 1
  <2>1. i \in 1..n /\ n - i + 1 = k
    BY <1>1
  <2> HIDE DEF i
  <2>2. logs[i] = pending[n - i + 1]
    BY <1>1, <2>1
  <2> QED
    BY <2>1, <2>2
<1> QED
  BY <1>3, <1>4

\* Two logs of a batch that write a column of a row entangle it.
LEMMA OnlyWriter ==
  ASSUME NEW n, NEW logs, Indexed(n, logs), NEW e, e \notin entangled', NEW c,
         NEW i \in 1..n, NEW j \in 1..n, Writes(logs[i], e, c), Writes(logs[j], e, c)
  PROVE  i = j /\ e \notin entangled
<1>1. DOMAIN logs = 1..n /\ entangled' = entangled \cup {x \in Entities(logs) : Entangled(logs, x)}
  BY DEF Indexed
<1>2. e \in Entities(logs) /\ logs[i].entity = e /\ logs[j].entity = e
  BY <1>1 DEF Entities, Writes
<1>3. ~Entangled(logs, e)
  BY <1>1, <1>2
<1>4. c \in OverwrittenColumns(logs[i]) \cap OverwrittenColumns(logs[j])
  BY DEF Writes
<1> QED
  BY <1>1, <1>2, <1>3, <1>4 DEF Entangled

\* Where the columns of a provider, of its capabilities and of a deal are.
LEMMA Cells ==
  ASSUME NEW t, NEW e, NEW c
  PROVE  /\ c \in ProviderSettings \cup ProviderFlags \cup ByteColumns =>
              /\ c \in DOMAIN NewProvider
              /\ e \in DOMAIN t.providers => Cell(t, e, c) = t.providers[e][c]
              /\ e \notin DOMAIN t.providers => Cell(t, e, c) = NewProvider[c]
         /\ c \in DealSettings =>
              /\ e \in DOMAIN t.deals => Cell(t, e, c) = t.deals[e][c]
              /\ e \notin DOMAIN t.deals => Cell(t, e, c) = NewDeal(Default, 0, Default)[c]
         /\ c = "capabilities" =>
              /\ e \in DOMAIN t.capabilities => Cell(t, e, c) = t.capabilities[e]
              /\ e \notin DOMAIN t.capabilities => Cell(t, e, c) = Default
<1>1. DOMAIN NewProvider = ProviderSettings \cup ProviderFlags \cup ByteColumns
  BY DEF NewProvider, ProviderSettings, ProviderFlags, ByteColumns
<1>2. "capabilities" \notin DOMAIN NewProvider /\ DealSettings \cap DOMAIN NewProvider = {}
      /\ "capabilities" \notin DealSettings
  BY DEF NewProvider, DealSettings
<1> QED
  BY <1>1, <1>2 DEF Cell

\* The rows that have a column: a log that writes it finds its row.
LEMMA WriterHasRow ==
  ASSUME PendingShape, TypesInv, NEW n \in 0..Len(pending), NEW logs, Indexed(n, logs),
         NEW e, NEW c, NEW i \in 1..n, Writes(logs[i], e, c)
  PROVE  /\ c \in ProviderSettings \cup ProviderFlags \cup {"capabilities"} =>
              e \in DOMAIN tables'.providers
         /\ c \in DealSettings => e \in DOMAIN tables'.deals
         /\ c \in Overwritten
<1>1. /\ logs[i] \in PendingLog /\ Typed(logs[i])
      /\ \E k \in 1..n : logs[i] = pending[k]
  <2>1. logs[i] \in PendingLog
    BY LogsOfBatch
  <2>2. Typed(logs[i])
    BY LogsOfBatch
  <2>3. \E k \in 1..n : logs[i] = pending[k]
    <3>1. n - i + 1 \in 1..n /\ logs[i] = pending[n - i + 1]
      BY DEF Indexed
    <3> QED
      BY <3>1
  <2> QED
    BY <2>1, <2>2, <2>3
<1>2. logs[i].entity = e /\ c \in OverwrittenColumns(logs[i])
  BY DEF Writes
<1>3. /\ c \in Overwritten
      /\ c \in ProviderSettings \cup ProviderFlags \cup {"capabilities"} => e \in Providers
      /\ c \in DealSettings => e \in Deals
  BY <1>1, <1>2, WrittenTyped
<1>4. /\ e \in Providers => e \in DOMAIN tables'.providers
      /\ e \in Deals => e \in DOMAIN tables'.deals
  BY <1>1, <1>2 DEF Indexed
<1> QED
  BY <1>3, <1>4

\* A batch keeps an overwritten column of a provider that no log of it writes, and
\* gives it the value of the log that does, if the provider is not entangled.
LEMMA IndexedProviderColumn ==
  ASSUME PendingShape, TypesInv, NEW n \in 0..Len(pending), NEW logs, Indexed(n, logs),
         NEW e, e \notin entangled', NEW c \in ProviderSettings \cup ProviderFlags
  PROVE  /\ (\A i \in 1..n : ~Writes(logs[i], e, c)) => Cell(tables', e, c) = Cell(tables, e, c)
         /\ \A i \in 1..n : Writes(logs[i], e, c) => Cell(tables', e, c) = Written(logs[i], c)
<1>1. CASE e \notin DOMAIN tables'.providers
  <2>1. \A i \in 1..n : ~Writes(logs[i], e, c)
    BY <1>1, WriterHasRow
  <2>2. e \notin DOMAIN tables.providers
    BY <1>1 DEF Indexed
  <2> QED
    BY <2>1, <2>2, <1>1, Cells
<1>2. CASE e \in DOMAIN tables'.providers
  <2> DEFINE ups == ProviderUpdates(logs, e)
             r == tables'.providers[e]
  <2>1. PICK row \in ProviderRow : /\ RowBefore(row, e, DOMAIN NewProvider)
                                   /\ r = ApplyUpdate(row, UpdateInput(ByteColumns, ups))
    BY <1>2 DEF Indexed
  <2>2. /\ Len(ups) = n /\ n \in Nat
        /\ \A i \in 1..n : ups[i] = IF logs[i].entity = e THEN LogToProviderUpdate(logs[i]) ELSE <<>>
    BY UpdatesOfRow
  <2> HIDE DEF ups
  <2>3. ASSUME NEW i \in 1..n
        PROVE  /\ c \in DOMAIN ups[i] <=> Writes(logs[i], e, c)
               /\ Writes(logs[i], e, c) => ups[i][c] = SetTo(Written(logs[i], c))
    <3>1. logs[i].eventName \in Events
      BY LogsOfBatch
    <3>2. /\ c \in DOMAIN LogToProviderUpdate(logs[i]) <=> c \in OverwrittenColumns(logs[i])
          /\ c \in OverwrittenColumns(logs[i]) =>
               LogToProviderUpdate(logs[i])[c] = SetTo(Written(logs[i], c))
      BY <3>1, ProviderUpdate
    <3> QED
      BY <2>2, <3>2 DEF Writes
  <2>4. c \notin ByteColumns /\ c \in DOMAIN row /\ row[c] = Cell(tables, e, c)
    <3>1. c \in DOMAIN NewProvider
      BY Cells
    <3>2. DOMAIN row = DOMAIN NewProvider
      BY DEF ProviderRow, NewProvider
    <3> QED
      BY <2>1, <3>1, <3>2 DEF RowBefore, ByteColumns, ProviderSettings, ProviderFlags
  <2>5. /\ (\A i \in 1..n : c \notin DOMAIN ups[i]) => r[c] = row[c]
        /\ \A i \in 1..n :
             (\A j \in 1..n : c \in DOMAIN ups[j] <=> j = i) =>
                \A v : ups[i][c] = SetTo(v) => r[c] = v
    <3>1. c \notin ByteColumns /\ Len(ups) \in Nat /\ c \in DOMAIN row
      BY <2>2, <2>4
    <3> QED
      BY ONLY <3>1, <2>1, <2>2, OverwrittenRow
  <2>6. Cell(tables', e, c) = r[c]
    BY <1>2, Cells
  <2> HIDE DEF r
  <2>7. ASSUME NEW i \in 1..n, Writes(logs[i], e, c)
        PROVE  Cell(tables', e, c) = Written(logs[i], c)
    <3>0. \A j \in 1..n : Writes(logs[j], e, c) => j = i
      BY <2>7, OnlyWriter
    <3>1. \A j \in 1..n : c \in DOMAIN ups[j] <=> j = i
      BY <2>3, <2>7, <3>0
    <3> QED
      BY <3>1, <2>3, <2>5, <2>6, <2>7
  <2>8. (\A i \in 1..n : ~Writes(logs[i], e, c)) => Cell(tables', e, c) = Cell(tables, e, c)
    BY <2>3, <2>4, <2>5, <2>6
  <2> QED
    BY <2>7, <2>8
<1> QED
  BY <1>1, <1>2

\* The same of a deal.
LEMMA IndexedDealColumn ==
  ASSUME PendingShape, TypesInv, NEW n \in 0..Len(pending), NEW logs, Indexed(n, logs),
         NEW e, e \notin entangled', NEW c \in DealSettings
  PROVE  /\ (\A i \in 1..n : ~Writes(logs[i], e, c)) => Cell(tables', e, c) = Cell(tables, e, c)
         /\ \A i \in 1..n : Writes(logs[i], e, c) => Cell(tables', e, c) = Written(logs[i], c)
<1>1. CASE e \notin DOMAIN tables'.deals
  <2>1. \A i \in 1..n : ~Writes(logs[i], e, c)
    BY <1>1, WriterHasRow
  <2>2. e \notin DOMAIN tables.deals
    BY <1>1 DEF Indexed
  <2> QED
    BY <2>1, <2>2, <1>1, Cells
<1>2. CASE e \in DOMAIN tables'.deals
  <2> DEFINE ups == DealUpdates(logs, e)
             r == tables'.deals[e]
  <2>1. PICK row \in DealRow : /\ RowBefore(row, e, DealSettings)
                               /\ r = ApplyUpdate(row, UpdateInput({}, ups))
    BY <1>2 DEF Indexed
  <2>2. /\ Len(ups) = n /\ n \in Nat
        /\ \A i \in 1..n : ups[i] = IF logs[i].entity = e THEN LogToDealUpdate(logs[i]) ELSE <<>>
    BY UpdatesOfRow
  <2> HIDE DEF ups
  <2>3. ASSUME NEW i \in 1..n
        PROVE  /\ c \in DOMAIN ups[i] <=> Writes(logs[i], e, c)
               /\ Writes(logs[i], e, c) => ups[i][c] = SetTo(Written(logs[i], c))
    <3>2. /\ c \in DOMAIN LogToDealUpdate(logs[i]) <=> c \in OverwrittenColumns(logs[i])
          /\ c \in OverwrittenColumns(logs[i]) =>
               LogToDealUpdate(logs[i])[c] = SetTo(Written(logs[i], c))
      BY DealUpdate
    <3> QED
      BY <2>2, <3>2 DEF Writes
  <2>4. c \in DOMAIN row /\ row[c] = Cell(tables, e, c)
    BY <2>1 DEF RowBefore, DealRow, DealSettings
  <2>5. /\ (\A i \in 1..n : c \notin DOMAIN ups[i]) => r[c] = row[c]
        /\ \A i \in 1..n :
             (\A j \in 1..n : c \in DOMAIN ups[j] <=> j = i) =>
                \A v : ups[i][c] = SetTo(v) => r[c] = v
    <3>1. c \notin {} /\ Len(ups) \in Nat /\ c \in DOMAIN row
      BY <2>2, <2>4
    <3>2. PICK none : none = {}
      OBVIOUS
    <3>3. c \notin none /\ r = ApplyUpdate(row, UpdateInput(none, ups))
      BY <2>1, <3>2
    <3> HIDE DEF r
    <3> QED
      BY ONLY <3>1, <3>3, <2>2, OverwrittenRow
  <2>6. Cell(tables', e, c) = r[c]
    BY <1>2, Cells
  <2> HIDE DEF r
  <2>7. ASSUME NEW i \in 1..n, Writes(logs[i], e, c)
        PROVE  Cell(tables', e, c) = Written(logs[i], c)
    <3>0. \A j \in 1..n : Writes(logs[j], e, c) => j = i
      BY <2>7, OnlyWriter
    <3>1. \A j \in 1..n : c \in DOMAIN ups[j] <=> j = i
      BY <2>3, <2>7, <3>0
    <3> QED
      BY <3>1, <2>3, <2>5, <2>6, <2>7
  <2>8. (\A i \in 1..n : ~Writes(logs[i], e, c)) => Cell(tables', e, c) = Cell(tables, e, c)
    BY <2>3, <2>4, <2>5, <2>6
  <2> QED
    BY <2>7, <2>8
<1> QED
  BY <1>1, <1>2

\* The same of a provider's capabilities.
LEMMA IndexedCapabilities ==
  ASSUME PendingShape, TypesInv, NEW n \in 0..Len(pending), NEW logs, Indexed(n, logs),
         NEW e, e \notin entangled', NEW c, c = "capabilities"
  PROVE  /\ (\A i \in 1..n : ~Writes(logs[i], e, c)) => Cell(tables', e, c) = Cell(tables, e, c)
         /\ \A i \in 1..n : Writes(logs[i], e, c) => Cell(tables', e, c) = Written(logs[i], c)
<1>0. DOMAIN logs = 1..n /\ n \in Nat /\ DOMAIN tables'.capabilities = DOMAIN tables'.providers
  BY DEF Indexed
<1>1. CASE e \notin DOMAIN tables'.capabilities
  <2>1. \A i \in 1..n : ~Writes(logs[i], e, c)
    BY <1>0, <1>1, WriterHasRow
  <2>2. e \notin DOMAIN tables.capabilities
    BY <1>0, <1>1 DEF Indexed
  <2> QED
    BY <2>1, <2>2, <1>1, Cells
<1>2. CASE e \in DOMAIN tables'.capabilities
  <2>1. tables'.capabilities[e] =
          IF CapabilityLogs(logs, e) # {} THEN logs[Max(CapabilityLogs(logs, e))].args.value
          ELSE Cell(tables, e, "capabilities")
    BY <1>2 DEF Indexed
  <2>2. \A i \in 1..n : i \in CapabilityLogs(logs, e) <=> Writes(logs[i], e, c)
    <3>1. \A l : c \in OverwrittenColumns(l) <=> l.eventName = "CapabilitiesUpdated"
      <4> SUFFICES ASSUME NEW l PROVE c \in OverwrittenColumns(l) <=> l.eventName = "CapabilitiesUpdated"
        OBVIOUS
      <4>1. c \notin DOMAIN SettingUpdate(l)
        BY DEF SettingUpdate, SettingEvent
      <4>2. c \notin DOMAIN FlagUpdate(l)
        BY DEF FlagUpdate, FlagEvents
      <4>3. c \notin DOMAIN LogToDealUpdate(l)
        BY DealUpdate DEF DealSettings
      <4> QED
        BY <4>1, <4>2, <4>3 DEF OverwrittenColumns
    <3> QED
      BY <3>1, <1>0 DEF CapabilityLogs, Writes
  <2>3. Cell(tables', e, c) = tables'.capabilities[e]
    BY <1>2, Cells
  <2>4. ASSUME NEW i \in 1..n, Writes(logs[i], e, c)
        PROVE  Cell(tables', e, c) = Written(logs[i], c)
    <3>1. CapabilityLogs(logs, e) = {i}
      <4>1. CapabilityLogs(logs, e) \subseteq 1..n
        BY <1>0 DEF CapabilityLogs
      <4>2. \A j \in 1..n : Writes(logs[j], e, c) => j = i
        BY <2>4, OnlyWriter
      <4> QED
        BY <4>1, <4>2, <2>2, <2>4
    <3>2. Max({i}) = i
      <4>1. \A x \in {i} : \A y \in {i} : x >= y
        BY <1>0
      <4> QED
        BY <4>1 DEF Max
    <3>3. Written(logs[i], c) = logs[i].args.value
      BY DEF Written, ProviderFlags
    <3> QED
      BY <3>1, <3>2, <3>3, <2>1, <2>3
  <2>5. (\A i \in 1..n : ~Writes(logs[i], e, c)) => Cell(tables', e, c) = Cell(tables, e, c)
    <3>1. CapabilityLogs(logs, e) \subseteq 1..n
      BY <1>0 DEF CapabilityLogs
    <3> QED
      BY <3>1, <2>1, <2>2, <2>3
  <2> QED
    BY <2>4, <2>5
<1> QED
  BY <1>1, <1>2

\* A batch moves the counters of a provider by the sum of its logs' moves.
LEMMA IndexedBytes ==
  ASSUME PendingShape, TypesInv, NEW n \in 0..Len(pending), NEW logs, Indexed(n, logs),
         NEW p, NEW c \in ByteColumns, NEW sum \in [0..Len(pending) -> Int],
         sum[0] = Cell(tables, p, c),
         \A i \in 1..Len(pending) : sum[i] = sum[i - 1] + Delta(pending[i], p, c)
  PROVE  Cell(tables', p, c) = sum[n]
<1> DEFINE ups == ProviderUpdates(logs, p)
           input == UpdateInput(ByteColumns, ups)
           s == [i \in 0..n |-> sum[n] - sum[n - i]]
<1>1. /\ n \in Nat /\ Len(pending) \in Nat
      /\ \A i \in 1..n : n - i + 1 \in 1..n /\ logs[i] = pending[n - i + 1]
  BY DEF Indexed
<1>2. /\ Len(ups) = n
      /\ \A i \in 1..n : ups[i] = IF logs[i].entity = p THEN LogToProviderUpdate(logs[i]) ELSE <<>>
  BY UpdatesOfRow
<1> HIDE DEF ups
<1>3. ASSUME NEW i \in 1..n
      PROVE  /\ c \in DOMAIN ups[i] => IsMove(ups[i][c])
             /\ Moved(ups[i], c) = Delta(logs[i], p, c)
  <2>1. Typed(logs[i]) /\ logs[i].eventName \in Events
    BY LogsOfBatch
  <2>2. c \in DOMAIN ByteUpdate(logs[i]) => IsMove(ByteUpdate(logs[i])[c])
    BY <2>1, ByteMoves
  <2>3. /\ c \in DOMAIN LogToProviderUpdate(logs[i]) <=> c \in DOMAIN ByteUpdate(logs[i])
        /\ c \in DOMAIN ByteUpdate(logs[i]) => LogToProviderUpdate(logs[i])[c] = ByteUpdate(logs[i])[c]
    BY <2>1, ProviderUpdate
  <2> QED
    BY <2>2, <2>3, <1>2 DEF Moved, Delta
<1>4. s \in [0..n -> Int] /\ s[0] = 0 /\ s[n] = sum[n] - sum[0]
  <2>1. \A i \in 0..n : n - i \in 0..Len(pending)
    BY <1>1
  <2>2. n \in 0..n /\ 0 \in 0..n /\ n - n = 0 /\ n - 0 = n /\ sum[n] \in Int
    BY <1>1
  <2>3. \A i \in 0..n : sum[n] - sum[n - i] \in Int
    BY <2>1, <2>2
  <2>4. s \in [0..n -> Int]
    BY <2>3
  <2>5. s[0] = sum[n] - sum[n] /\ s[n] = sum[n] - sum[0]
    BY <2>2
  <2> HIDE DEF s
  <2> QED
    BY <2>2, <2>4, <2>5
<1>5. ASSUME NEW i \in 1..n
      PROVE  s[i] = s[i - 1] + Moved(ups[i], c)
  <2> DEFINE k == n - i + 1
  <2>1. /\ k \in 1..n /\ logs[i] = pending[k] /\ k \in 1..Len(pending)
        /\ n - i = k - 1 /\ n - (i - 1) = k /\ i \in 0..n /\ i - 1 \in 0..n
        /\ k - 1 \in 0..Len(pending) /\ k \in 0..Len(pending) /\ n \in 0..Len(pending)
    BY <1>1
  <2> HIDE DEF k
  <2>2. s[i] = sum[n] - sum[k - 1] /\ s[i - 1] = sum[n] - sum[k]
    BY <2>1
  <2>3. sum[k] = sum[k - 1] + Moved(ups[i], c)
    BY <2>1, <1>3
  <2>4. sum[k] \in Int /\ sum[k - 1] \in Int /\ sum[n] \in Int /\ Moved(ups[i], c) = sum[k] - sum[k - 1]
    <3>1. sum[k] \in Int /\ sum[k - 1] \in Int /\ sum[n] \in Int
      BY <2>1
    <3>2. Moved(ups[i], c) \in Int
      <4>1. Typed(logs[i])
        BY LogsOfBatch
      <4>2. Moved(ByteUpdate(logs[i]), c) \in Int
        BY <4>1, ByteMoves
      <4> QED
        BY <4>2, <1>3 DEF Delta
    <3> QED
      BY <3>1, <3>2, <2>3
  <2> HIDE DEF s
  <2> QED
    BY <2>2, <2>4
<1> HIDE DEF s
<1>6. /\ c \in DOMAIN input => IsMove(input[c])
      /\ Moved(input, c) = sum[n] - sum[0]
  <2>1. \A i \in 1..Len(ups) : c \in DOMAIN ups[i] => IsMove(ups[i][c])
    BY <1>2, <1>3
  <2>2. s \in [0..Len(ups) -> Int] /\ \A i \in 1..Len(ups) : s[i] = s[i - 1] + Moved(ups[i], c)
    BY <1>2, <1>4, <1>5
  <2>3. Len(ups) \in Nat
    BY <1>1, <1>2
  <2>4. /\ c \in DOMAIN input => IsMove(input[c])
        /\ Moved(input, c) = s[Len(ups)]
    BY <2>1, <2>2, <2>3, <1>4, MergedColumn
  <2> QED
    BY <2>4, <1>2, <1>4
<1>7. CASE p \in DOMAIN tables'.providers
  <2>1. PICK row \in ProviderRow : /\ RowBefore(row, p, DOMAIN NewProvider)
                                   /\ tables'.providers[p] = ApplyUpdate(row, input)
    BY <1>7 DEF Indexed, ups
  <2> HIDE DEF input
  <2>2. c \in DOMAIN NewProvider /\ Cell(tables', p, c) = tables'.providers[p][c]
    BY <1>7, Cells
  <2>3. row[c] = sum[0] /\ c \in DOMAIN row /\ row[c] \in Int
    <3>1. row[c] = sum[0]
      BY <2>1, <2>2 DEF RowBefore
    <3>2. c \in DOMAIN row /\ row[c] \in Int
      BY <2>1 DEF ProviderRow, ByteColumns
    <3> QED
      BY <3>1, <3>2
  <2>4. tables'.providers[p][c] = row[c] + Moved(input, c)
    BY <2>1, <2>3, <1>6, UpdatedColumn
  <2>5. sum[n] \in Int /\ sum[0] \in Int
    BY <1>1
  <2> QED
    BY <2>2, <2>3, <2>4, <2>5, <1>6
<1>8. CASE p \notin DOMAIN tables'.providers
  <2>1. \A i \in 1..n : c \notin DOMAIN ups[i]
    <3> SUFFICES ASSUME NEW i \in 1..n, c \in DOMAIN ups[i] PROVE FALSE
      OBVIOUS
    <3>1. logs[i].entity = p /\ c \in DOMAIN LogToProviderUpdate(logs[i])
      BY <1>2
    <3>2. Typed(logs[i]) /\ logs[i].eventName \in Events
      BY LogsOfBatch
    <3>3. c \in DOMAIN ByteUpdate(logs[i])
      BY <3>1, <3>2, ProviderUpdate
    <3>4. logs[i].eventName \in ByteEvents
      BY <3>3 DEF ByteUpdate, ByteEvents
    <3>5. logs[i].entity \in Providers
      BY <3>2, <3>4 DEF Typed, ByteEvents, DealEvents, StateEvents
    <3>6. \A k \in 1..n : pending[k].entity \in Providers =>
                          pending[k].entity \in DOMAIN tables'.providers
      BY DEF Indexed
    <3>7. n - i + 1 \in 1..n /\ logs[i] = pending[n - i + 1]
      BY DEF Indexed
    <3>8. p \in DOMAIN tables'.providers
      BY ONLY <3>1, <3>5, <3>6, <3>7
    <3> QED
      BY <3>8, <1>8
  <2> DEFINE z == [i \in 0..n |-> 0]
  <2>2. Moved(input, c) = 0
    <3>1. \A i \in 1..n : Moved(ups[i], c) = 0 /\ i \in 0..n /\ i - 1 \in 0..n
      BY <2>1, <1>1 DEF Moved
    <3>2. z \in [0..Len(ups) -> Int] /\ z[0] = 0 /\ z[Len(ups)] = 0 /\ Len(ups) \in Nat
      BY <1>1, <1>2
    <3>3. \A i \in 1..Len(ups) : z[i] = z[i - 1] + Moved(ups[i], c)
      BY <3>1, <1>2
    <3>4. \A i \in 1..Len(ups) : c \in DOMAIN ups[i] => IsMove(ups[i][c])
      BY <1>2, <1>3
    <3> HIDE DEF z, input
    <3>5. Moved(UpdateInput(ByteColumns, ups), c) = z[Len(ups)]
      BY <3>2, <3>3, <3>4, MergedColumn
    <3> QED
      BY <3>2, <3>5 DEF input
  <2>3. Cell(tables', p, c) = NewProvider[c] /\ Cell(tables, p, c) = NewProvider[c]
    <3>1. p \notin DOMAIN tables.providers
      BY <1>8 DEF Indexed
    <3> QED
      BY <3>1, <1>8, Cells
  <2>4. sum[n] \in Int /\ sum[0] \in Int
    BY <1>1
  <2> HIDE DEF input
  <2> QED
    BY <2>2, <2>3, <2>4, <1>6
<1> QED
  BY <1>7, <1>8

-----------------------------------------------------------------------------
(* A batch keeps the mirror. *)

\* A batch keeps the rows typed.
LEMMA IndexKeepsTypes ==
  ASSUME PendingShape, TypesInv, BytesInv, NEW n \in 0..Len(pending), NEW logs, Indexed(n, logs),
         DOMAIN tables'.providers \subseteq Providers, chain' = chain
  PROVE  TypesInv'
<1>1. n \in Nat /\ Len(pending) \in Nat /\ DOMAIN pending = 1..Len(pending)
  BY DEF Indexed
<1>2. \A i \in DOMAIN pending' : Typed(pending'[i])
  BY DEF Indexed, TypesInv
<1>3. \A i \in 1..n : logs[i] \in PendingLog /\ Typed(logs[i])
  <2>1. \A i \in 1..n : logs[i] \in PendingLog
    BY LogsOfBatch
  <2>2. \A i \in 1..n : Typed(logs[i])
    BY LogsOfBatch
  <2> QED
    BY <2>1, <2>2
<1>4. ASSUME NEW p \in DOMAIN tables'.providers
      PROVE  tables'.providers[p] \in ProviderRow
  <2> DEFINE ups == ProviderUpdates(logs, p)
             r == tables'.providers[p]
  <2>1. PICK row \in ProviderRow : r = ApplyUpdate(row, UpdateInput(ByteColumns, ups))
    BY DEF Indexed
  <2>2. /\ Len(ups) = n
        /\ \A i \in 1..n : ups[i] = IF logs[i].entity = p THEN LogToProviderUpdate(logs[i]) ELSE <<>>
    BY UpdatesOfRow
  <2> HIDE DEF ups
  <2>3. r = [c \in DOMAIN row |-> r[c]]
    BY <2>1 DEF ApplyUpdate
  <2>4. ASSUME NEW c \in ProviderSettings \cup ProviderFlags
        PROVE  \/ r[c] = row[c]
               \/ \E i \in 1..n : c \in OverwrittenColumns(logs[i]) /\ r[c] = Written(logs[i], c)
    <3>1. c \notin ByteColumns /\ c \in DOMAIN row
      BY DEF ByteColumns, ProviderRow, ProviderSettings, ProviderFlags
    <3>2. Len(ups) \in Nat
      BY <2>2, <1>1
    <3>3. \/ r[c] = row[c]
          \/ \E i \in 1..n : /\ c \in DOMAIN ups[i]
                             /\ \A v : ups[i][c] = SetTo(v) => r[c] = v
      BY ONLY <3>1, <3>2, <2>1, <2>2, OverwrittenRow
    <3>4. ASSUME NEW i \in 1..n, c \in DOMAIN ups[i]
          PROVE  c \in OverwrittenColumns(logs[i]) /\ ups[i][c] = SetTo(Written(logs[i], c))
      <4>1. logs[i].eventName \in Events
        BY <1>3 DEF PendingLog
      <4>2. /\ c \in DOMAIN LogToProviderUpdate(logs[i]) <=> c \in OverwrittenColumns(logs[i])
            /\ c \in OverwrittenColumns(logs[i]) =>
                 LogToProviderUpdate(logs[i])[c] = SetTo(Written(logs[i], c))
        BY <4>1, ProviderUpdate
      <4> QED
        BY <2>2, <3>4, <4>2
    <3> QED
      BY <3>3, <3>4
  <2>5. ASSUME NEW c \in ProviderSettings PROVE r[c] \in Nat
    <3>1. row[c] \in Nat
      BY DEF ProviderRow, ProviderSettings
    <3>2. \A i \in 1..n : c \in OverwrittenColumns(logs[i]) => Written(logs[i], c) \in Nat
      BY <1>3, WrittenTyped
    <3> QED
      BY <3>1, <3>2, <2>4
  <2>6. ASSUME NEW c \in ProviderFlags PROVE r[c] \in BOOLEAN
    <3>1. row[c] \in BOOLEAN
      BY DEF ProviderRow, ProviderFlags
    <3>2. \A i \in 1..n : c \in OverwrittenColumns(logs[i]) => Written(logs[i], c) \in BOOLEAN
      BY <1>3, WrittenTyped
    <3> QED
      BY <3>1, <3>2, <2>4
  <2>7. ASSUME NEW c \in ByteColumns PROVE r[c] \in Int
    <3>1. PICK sum \in [0..Len(pending) -> Int] :
             /\ sum[0] = Cell(tables, p, c)
             /\ \A i \in 1..Len(pending) : sum[i] = sum[i - 1] + Delta(pending[i], p, c)
      BY DEF BytesInv
    <3>2. Cell(tables', p, c) = sum[n]
      BY <3>1, IndexedBytes
    <3>3. Cell(tables', p, c) = r[c]
      BY Cells
    <3> QED
      BY <3>2, <3>3, <1>1
  <2> HIDE DEF r
  <2>8. DOMAIN row = ProviderSettings \cup ProviderFlags \cup ByteColumns
    BY DEF ProviderRow, ProviderSettings, ProviderFlags, ByteColumns
  <2> QED
    BY <2>3, <2>5, <2>6, <2>7, <2>8 DEF r, ProviderRow, ProviderSettings, ProviderFlags, ByteColumns
<1>5. ASSUME NEW d \in DOMAIN tables'.deals
      PROVE  tables'.deals[d] \in DealRow
  <2> DEFINE ups == DealUpdates(logs, d)
             r == tables'.deals[d]
  <2>1. PICK row \in DealRow : r = ApplyUpdate(row, UpdateInput({}, ups))
    BY DEF Indexed
  <2>2. /\ Len(ups) = n
        /\ \A i \in 1..n : ups[i] = IF logs[i].entity = d THEN LogToDealUpdate(logs[i]) ELSE <<>>
    BY UpdatesOfRow
  <2> HIDE DEF ups
  <2>3. r = [c \in DOMAIN row |-> r[c]]
    BY <2>1 DEF ApplyUpdate
  <2>4. ASSUME NEW c \in DealSettings \cup FixedColumns
        PROVE  \/ r[c] = row[c]
               \/ \E i \in 1..n : /\ c \in DealSettings /\ c \in OverwrittenColumns(logs[i])
                                  /\ r[c] = Written(logs[i], c)
    <3>1. c \in DOMAIN row
      BY DEF DealRow, DealSettings, FixedColumns
    <3>2. Len(ups) \in Nat
      BY <2>2, <1>1
    <3>3. PICK none : none = {}
      OBVIOUS
    <3>4. c \notin none /\ r = ApplyUpdate(row, UpdateInput(none, ups))
      BY <2>1, <3>3
    <3> HIDE DEF r
    <3>5. \/ r[c] = row[c]
          \/ \E i \in 1..n : /\ c \in DOMAIN ups[i]
                             /\ \A v : ups[i][c] = SetTo(v) => r[c] = v
      BY ONLY <3>1, <3>2, <3>4, <2>2, OverwrittenRow
    <3>6. ASSUME NEW i \in 1..n, c \in DOMAIN ups[i]
          PROVE  /\ c \in DealSettings /\ c \in OverwrittenColumns(logs[i])
                 /\ ups[i][c] = SetTo(Written(logs[i], c))
      <4>1. c \in DOMAIN LogToDealUpdate(logs[i]) /\ ups[i] = LogToDealUpdate(logs[i])
        BY <2>2, <3>6
      <4>2. c \in DealSettings
        BY <4>1, DealUpdate
      <4> QED
        BY <4>1, <4>2, DealUpdate
    <3> QED
      BY <3>5, <3>6
  <2>5. \A i \in 1..n : \A c \in OverwrittenColumns(logs[i]) :
           /\ c = "state" => Written(logs[i], c) \in States
           /\ c \in {"railId", "manifestLocation"} => Written(logs[i], c) \in Values
    BY <1>3, WrittenTyped
  <2> HIDE DEF r
  <2>6. r["state"] \in States
    BY <2>4, <2>5 DEF DealSettings, DealRow
  <2>7. ASSUME NEW c \in {"railId", "manifestLocation"} PROVE r[c] \in Values \cup {Default}
    <3>1. row[c] \in Values \cup {Default}
      BY DEF DealRow
    <3>2. c \in DealSettings \cup FixedColumns
      BY DEF DealSettings
    <3>3. \/ r[c] = row[c]
          \/ \E i \in 1..n : c \in OverwrittenColumns(logs[i]) /\ r[c] = Written(logs[i], c)
      BY <2>4, <3>2
    <3> QED
      BY <3>1, <3>3, <2>5
  <2>8. r["railId"] \in Values \cup {Default} /\ r["manifestLocation"] \in Values \cup {Default}
    BY <2>7
  <2>9. r["provider"] = row["provider"] /\ r["totalDealSize"] = row["totalDealSize"]
    BY <2>4 DEF DealSettings, FixedColumns
  <2> QED
    BY <2>3, <2>6, <2>7, <2>8, <2>9 DEF r, DealRow
<1> QED
  BY <1>2, <1>4, <1>5 DEF TypesInv, Typed, ValueEvents, ByteEvents, DealEvents, StateEvents, ProviderRow, DealRow, States

\* A batch keeps what the proposals fixed.
LEMMA IndexKeepsFixed ==
  ASSUME PendingShape, TypesInv, FixedInv, NEW n \in 0..Len(pending), NEW logs, Indexed(n, logs),
         chain' = chain
  PROVE  FixedInv'
<1>1. ASSUME NEW d \in DOMAIN tables'.deals
      PROVE  /\ d \in DOMAIN chain.deals
             /\ tables'.deals[d].provider = chain.deals[d].provider
             /\ tables'.deals[d].totalDealSize = chain.deals[d].totalDealSize
  <2> DEFINE ups == DealUpdates(logs, d)
             r == tables'.deals[d]
  <2>1. PICK row \in DealRow : /\ row.provider = chain.deals[d].provider
                               /\ row.totalDealSize = chain.deals[d].totalDealSize
                               /\ r = ApplyUpdate(row, UpdateInput({}, ups))
    BY DEF Indexed
  <2>2. /\ Len(ups) = n /\ n \in Nat
        /\ \A i \in 1..n : ups[i] = IF logs[i].entity = d THEN LogToDealUpdate(logs[i]) ELSE <<>>
    BY UpdatesOfRow
  <2> HIDE DEF ups
  <2>3. ASSUME NEW c \in FixedColumns PROVE r[c] = row[c]
    <3>1. c \in DOMAIN row /\ c \notin DealSettings /\ Len(ups) \in Nat
      BY <2>2 DEF DealRow, FixedColumns, DealSettings
    <3>2. PICK none : none = {}
      OBVIOUS
    <3>3. c \notin none /\ r = ApplyUpdate(row, UpdateInput(none, ups))
      BY <2>1, <3>2
    <3>4. ASSUME NEW i \in 1..n PROVE c \notin DOMAIN ups[i]
      <4>1. DOMAIN LogToDealUpdate(logs[i]) \subseteq DealSettings
        BY DealUpdate
      <4> QED
        BY <4>1, <2>2, <3>1
    <3> HIDE DEF r
    <3> QED
      BY ONLY <3>1, <3>3, <3>4, <2>2, OverwrittenRow
  <2> HIDE DEF r
  <2>4. r["provider"] = row["provider"] /\ r["totalDealSize"] = row["totalDealSize"]
    BY <2>3 DEF FixedColumns
  <2>5. d \in DOMAIN chain.deals
    BY DEF Indexed
  <2> QED
    BY <2>1, <2>4, <2>5 DEF r
<1>2. \A i \in DOMAIN pending' : \E j \in DOMAIN pending : pending'[i] = pending[j]
  BY DEF Indexed
<1> QED
  BY <1>1, <1>2 DEF FixedInv

\* A batch keeps the moves of the byte counters that are still pending.
LEMMA IndexKeepsBytes ==
  ASSUME PendingShape, TypesInv, BytesInv, NEW n \in 0..Len(pending), NEW logs, Indexed(n, logs),
         chain' = chain
  PROVE  BytesInv'
<1>1. /\ n \in Nat /\ Len(pending) \in Nat /\ Len(pending') = Len(pending) - n
      /\ \A i \in 1..(Len(pending) - n) : pending'[i] = pending[n + i]
  BY DEF Indexed
<1>2. ASSUME NEW p \in Providers, NEW c \in ByteColumns
      PROVE  \E sum \in [0..Len(pending') -> Int] :
                /\ sum[0] = Cell(tables', p, c)
                /\ \A i \in 1..Len(pending') : sum[i] = sum[i - 1] + Delta(pending'[i], p, c)
                /\ sum[Len(pending')] = Cell(chain', p, c)
  <2>1. PICK sum \in [0..Len(pending) -> Int] :
           /\ sum[0] = Cell(tables, p, c)
           /\ \A i \in 1..Len(pending) : sum[i] = sum[i - 1] + Delta(pending[i], p, c)
           /\ sum[Len(pending)] = Cell(chain, p, c)
    BY DEF BytesInv
  <2> DEFINE m == Len(pending) - n
             rest == [i \in 0..m |-> sum[n + i]]
  <2>2. m \in Nat /\ n + 0 = n /\ n + m = Len(pending) /\ \A i \in 0..m : n + i \in 0..Len(pending)
    BY <1>1
  <2>3. rest \in [0..m -> Int]
    BY <2>2
  <2>4. rest[0] = Cell(tables', p, c)
    <3>1. rest[0] = sum[n]
      BY <2>2
    <3>2. Cell(tables', p, c) = sum[n]
      BY <2>1, IndexedBytes
    <3> QED
      BY <3>1, <3>2
  <2>5. ASSUME NEW i \in 1..m PROVE rest[i] = rest[i - 1] + Delta(pending'[i], p, c)
    <3> DEFINE k == n + i
    <3>1. i \in 0..m /\ i - 1 \in 0..m /\ k \in 1..Len(pending) /\ n + (i - 1) = k - 1
      BY <1>1, <2>2
    <3>2. rest[i] = sum[k] /\ rest[i - 1] = sum[k - 1] /\ pending'[i] = pending[k]
      BY <1>1, <3>1
    <3> HIDE DEF rest, k
    <3> QED
      BY <2>1, <3>1, <3>2
  <2>6. rest[m] = Cell(chain', p, c)
    BY <2>1, <2>2
  <2> HIDE DEF rest
  <2> QED
    BY <1>1, <2>3, <2>4, <2>5, <2>6
<1>3. \A p, c : (Cell(tables, p, c))' = Cell(tables', p, c) /\ (Cell(chain, p, c))' = Cell(chain', p, c)
  BY DEF Cell
<1>4. \A p, c : \A i \in DOMAIN pending' : (Delta(pending[i], p, c))' = Delta(pending'[i], p, c)
  BY DEF Delta
<1>5. DOMAIN pending' = 1..Len(pending')
  BY <1>1 DEF Indexed
<1> QED
  BY <1>2, <1>3, <1>4, <1>5 DEF BytesInv

\* A batch and a column that a log overwrites, of any row that is not entangled.
LEMMA IndexedColumn ==
  ASSUME PendingShape, TypesInv, NEW n \in 0..Len(pending), NEW logs, Indexed(n, logs),
         NEW e, e \notin entangled', NEW c \in Overwritten
  PROVE  /\ (\A i \in 1..n : ~Writes(logs[i], e, c)) => Cell(tables', e, c) = Cell(tables, e, c)
         /\ \A i \in 1..n : Writes(logs[i], e, c) => Cell(tables', e, c) = Written(logs[i], c)
<1>1. CASE c \in ProviderSettings \cup ProviderFlags
  BY <1>1, IndexedProviderColumn
<1>2. CASE c \in DealSettings
  BY <1>2, IndexedDealColumn
<1>3. CASE c = "capabilities"
  BY <1>3, IndexedCapabilities
<1> QED
  BY <1>1, <1>2, <1>3 DEF Overwritten

\* A batch leaves every column equal to the contract's, or a pending log to make it so.
LEMMA IndexKeepsColumns ==
  ASSUME PendingShape, TypesInv, ColumnInv, NEW n \in 0..Len(pending), NEW logs, Indexed(n, logs),
         chain' = chain
  PROVE  ColumnInv'
<1>0. \A k \in 1..n : \E i \in 1..n : logs[i] = pending[k]
  BY ONLY PendingShape, n \in 0..Len(pending), Indexed(n, logs), BatchPositions
<1>1. /\ n \in Nat /\ Len(pending) \in Nat /\ DOMAIN pending = 1..Len(pending)
      /\ \A i \in DOMAIN pending' : n + i \in DOMAIN pending /\ pending'[i] = pending[n + i]
      /\ \A j \in DOMAIN pending : j > n => j - n \in DOMAIN pending' /\ pending'[j - n] = pending[j]
      /\ \A i \in 1..n : n - i + 1 \in 1..n /\ logs[i] = pending[n - i + 1]
      /\ DOMAIN pending' = 1..(Len(pending) - n)
      /\ entangled \subseteq entangled'
  BY DEF Indexed
<1>2. ASSUME NEW e \in (Providers \cup Deals) \ entangled', NEW c \in Overwritten
      PROVE  /\ (\A i \in DOMAIN pending' : ~Writes(pending'[i], e, c)) =>
                   Cell(tables', e, c) = Cell(chain, e, c)
             /\ \A i \in DOMAIN pending' :
                   /\ Writes(pending'[i], e, c)
                   /\ \A j \in DOMAIN pending' : Writes(pending'[j], e, c) => j <= i
                   => Written(pending'[i], c) = Cell(chain, e, c)
  <2>1. /\ (\A i \in DOMAIN pending : ~Writes(pending[i], e, c)) =>
              Cell(tables, e, c) = Cell(chain, e, c)
        /\ \A i \in DOMAIN pending :
              /\ Writes(pending[i], e, c)
              /\ \A j \in DOMAIN pending : Writes(pending[j], e, c) => j <= i
              => Written(pending[i], c) = Cell(chain, e, c)
    BY <1>1 DEF ColumnInv
  <2>2. ASSUME \A i \in DOMAIN pending' : ~Writes(pending'[i], e, c)
        PROVE  Cell(tables', e, c) = Cell(chain, e, c)
    <3>1. \A j \in DOMAIN pending : Writes(pending[j], e, c) => j \in 1..n
      BY <1>1, <2>2
    <3>2. CASE \A i \in 1..n : ~Writes(logs[i], e, c)
      <4>1. \A j \in DOMAIN pending : ~Writes(pending[j], e, c)
        BY <3>1, <3>2, <1>0
      <4>2. Cell(tables', e, c) = Cell(tables, e, c)
        BY <3>2, IndexedColumn
      <4> QED
        BY <4>1, <4>2, <2>1
    <3>3. ASSUME NEW i \in 1..n, Writes(logs[i], e, c)
          PROVE  Cell(tables', e, c) = Cell(chain, e, c)
      <4> DEFINE k == n - i + 1
      <4>1. k \in 1..n /\ logs[i] = pending[k] /\ k \in DOMAIN pending
        BY <1>1
      <4>2. ASSUME NEW j \in DOMAIN pending, Writes(pending[j], e, c) PROVE j = k
        <5> DEFINE x == n - j + 1
        <5>1. j \in 1..n
          BY <3>1, <4>2
        <5>2. x \in 1..n /\ n - x + 1 = j
          BY <5>1, <1>1
        <5> HIDE DEF x
        <5>3. logs[x] = pending[j]
          BY <5>2, <1>1
        <5>4. x = i
          BY <5>2, <5>3, <4>2, <3>3, OnlyWriter
        <5> QED
          BY <5>2, <5>4, <5>1, <1>1
      <4>3. Cell(tables', e, c) = Written(logs[i], c)
        BY <3>3, IndexedColumn
      <4> HIDE DEF k
      <4>4. \A j \in DOMAIN pending : Writes(pending[j], e, c) => j <= k
        BY <4>1, <4>2
      <4> QED
        BY <4>1, <4>3, <4>4, <3>3, <2>1
    <3> QED
      BY <3>2, <3>3
  <2>3. ASSUME NEW i \in DOMAIN pending', Writes(pending'[i], e, c),
               \A j \in DOMAIN pending' : Writes(pending'[j], e, c) => j <= i
        PROVE  Written(pending'[i], c) = Cell(chain, e, c)
    <3> DEFINE k == n + i
    <3>1. k \in DOMAIN pending /\ pending'[i] = pending[k]
      BY <1>1
    <3>2. ASSUME NEW j \in DOMAIN pending, Writes(pending[j], e, c) PROVE j <= k
      <4>1. CASE j > n
        <5>1. j - n \in DOMAIN pending' /\ pending'[j - n] = pending[j]
          BY <4>1, <1>1
        <5>2. j - n <= i
          BY <5>1, <3>2, <2>3
        <5> QED
          BY <5>2, <1>1
      <4>2. CASE ~(j > n)
        BY <4>2, <1>1
      <4> QED
        BY <4>1, <4>2
    <3> HIDE DEF k
    <3> QED
      BY <2>1, <2>3, <3>1, <3>2
  <2> QED
    BY <2>2, <2>3
<1>3. \A e, c : (Cell(tables, e, c))' = Cell(tables', e, c) /\ (Cell(chain, e, c))' = Cell(chain, e, c)
  BY DEF Cell
<1>4. \A e, c : \A i \in DOMAIN pending' : /\ (Writes(pending[i], e, c))' <=> Writes(pending'[i], e, c)
                                           /\ (Written(pending[i], c))' = Written(pending'[i], c)
  BY DEF Writes, Written
<1> QED
  BY <1>2, <1>3, <1>4 DEF ColumnInv

\* A step of the runner keeps the mirror.
LEMMA IndexKeepsMirror ==
  ASSUME IInv, IInv', MirrorInv, NEW b \in Nat, Index(b)
  PROVE  MirrorInv'
<1>1. PendingShape /\ TypesInv /\ FixedInv /\ BytesInv /\ ColumnInv
  BY DEF IInv, MirrorInv
<1>2. PICK n \in 0..Len(pending), logs \in Seq(PendingLog) : Indexed(n, logs)
  BY <1>1, IndexedRows
<1>3. chain' = chain /\ DOMAIN tables'.providers \subseteq Providers
  BY DEF Index, IInv, TablesShape
<1>4. TypesInv'
  BY <1>1, <1>2, <1>3, IndexKeepsTypes
<1>5. FixedInv'
  BY <1>1, <1>2, <1>3, IndexKeepsFixed
<1>6. BytesInv'
  BY <1>1, <1>2, <1>3, IndexKeepsBytes
<1>7. ColumnInv'
  BY <1>1, <1>2, <1>3, IndexKeepsColumns
<1> QED
  BY <1>4, <1>5, <1>6, <1>7 DEF MirrorInv

-----------------------------------------------------------------------------
(* A call keeps the mirror. *)

\* The logs of a contract call tell all it changed: a log overwrites a column with the
\* value it has afterwards, at most one of them moves a counter, and what no log
\* tells has not changed.
Told(logs) ==
  /\ logs \in Seq(PendingLog)
  /\ \A k \in DOMAIN logs : Typed(logs[k]) /\ logs[k].blockNumber = block
  /\ \A p \in DOMAIN chain'.providers : chain'.providers[p] \in ProviderRow
  /\ \A d \in DOMAIN chain.deals : /\ d \in DOMAIN chain'.deals
                                   /\ chain'.deals[d].provider = chain.deals[d].provider
                                   /\ chain'.deals[d].totalDealSize = chain.deals[d].totalDealSize
  /\ \A k \in DOMAIN logs : logs[k].eventName = "DealProposalCreated" =>
        /\ logs[k].entity \in DOMAIN chain'.deals
        /\ chain'.deals[logs[k].entity].provider = logs[k].args.provider
        /\ chain'.deals[logs[k].entity].totalDealSize = logs[k].args.totalDealSize
  /\ \A p \in Providers, c \in ByteColumns : \E j \in DOMAIN logs :
        /\ \A k \in DOMAIN logs : k # j => Delta(logs[k], p, c) = 0
        /\ Cell(chain', p, c) = Cell(chain, p, c) + Delta(logs[j], p, c)
  /\ \A e \in Providers \cup Deals, c \in Overwritten :
        /\ \A k \in DOMAIN logs : Writes(logs[k], e, c) => Written(logs[k], c) = Cell(chain', e, c)
        /\ (\A k \in DOMAIN logs : ~Writes(logs[k], e, c)) => Cell(chain', e, c) = Cell(chain, e, c)

\* The pending logs after such a call.
Extended(logs) ==
  /\ Len(pending) \in Nat /\ Len(logs) \in Nat /\ DOMAIN pending = 1..Len(pending)
  /\ DOMAIN logs = 1..Len(logs) /\ DOMAIN pending' = 1..Len(pending')
  /\ Len(pending') = Len(pending) + Len(logs)
  /\ \A i \in DOMAIN pending : i \in DOMAIN pending' /\ pending'[i] = pending[i]
  /\ \A k \in DOMAIN logs : /\ Len(pending) + k \in DOMAIN pending'
                            /\ pending'[Len(pending) + k] = logs[k]
  /\ \A i \in DOMAIN pending' :
        i \in DOMAIN pending \/ \E k \in DOMAIN logs : i = Len(pending) + k

\* The logs of a told call extend the pending ones.
LEMMA ToldLogs ==
  ASSUME PendingShape, NEW logs, Told(logs), pending' = pending \o logs, block' = block
  PROVE  Extended(logs)
<1>1. \A k \in DOMAIN logs : WellFormed(logs[k]) /\ logs[k].blockNumber = block
  BY DEF Told, Typed, WellFormed, DealEvents, StateEvents
<1>2. Emitted(logs)
  BY <1>1 DEF Told, Emitted
<1> QED
  BY <1>2, AppendedLogs DEF Extended

\* A call keeps the moves of the byte counters: it adds one at most.
LEMMA CallKeepsBytes ==
  ASSUME BytesInv, NEW logs, Told(logs), Extended(logs), tables' = tables
  PROVE  BytesInv'
<1> DEFINE m == Len(pending)
           n == Len(logs)
<1>1. /\ m \in Nat /\ n \in Nat /\ Len(pending') = m + n /\ DOMAIN logs = 1..n
      /\ \A i \in 1..m : pending'[i] = pending[i]
      /\ \A k \in 1..n : pending'[m + k] = logs[k]
  BY DEF Extended
<1>2. ASSUME NEW p \in Providers, NEW c \in ByteColumns
      PROVE  \E sum \in [0..Len(pending') -> Int] :
                /\ sum[0] = Cell(tables, p, c)
                /\ \A i \in 1..Len(pending') : sum[i] = sum[i - 1] + Delta(pending'[i], p, c)
                /\ sum[Len(pending')] = Cell(chain', p, c)
  <2>1. PICK sum \in [0..m -> Int] :
           /\ sum[0] = Cell(tables, p, c)
           /\ \A i \in 1..m : sum[i] = sum[i - 1] + Delta(pending[i], p, c)
           /\ sum[m] = Cell(chain, p, c)
    BY DEF BytesInv
  <2>2. PICK j \in 1..n : /\ \A k \in 1..n : k # j => Delta(logs[k], p, c) = 0
                          /\ Cell(chain', p, c) = Cell(chain, p, c) + Delta(logs[j], p, c)
    BY <1>1 DEF Told
  <2>3. PICK delta : delta = Delta(logs[j], p, c)
    OBVIOUS
  <2>4. delta \in Int
    <3>1. Typed(logs[j])
      BY <1>1 DEF Told
    <3> QED
      BY <2>3, <3>1, ByteMoves DEF Delta
  <2>5. PICK total : total = sum[m]
    OBVIOUS
  <2>6. total \in Int /\ total = Cell(chain, p, c)
    BY <1>1, <2>1, <2>5
  <2> HIDE DEF m, n
  <2> DEFINE ext == [i \in 0..(m + n) |-> IF i <= m THEN sum[i]
                                          ELSE IF i < m + j THEN total ELSE total + delta]
  <2>7. ext \in [0..(m + n) -> Int]
    BY <1>1, <2>4, <2>6
  <2>8. ext[0] = Cell(tables, p, c)
    BY <1>1, <2>1
  <2>9. ext[m + n] = Cell(chain', p, c)
    <3>1. m + n \in 0..(m + n) /\ ~(m + n <= m) /\ ~(m + n < m + j)
      BY <1>1, <2>2
    <3> QED
      BY <3>1, <2>2, <2>3, <2>6
  <2>10. ASSUME NEW i \in 1..(m + n) PROVE ext[i] = ext[i - 1] + Delta(pending'[i], p, c)
    <3>1. i \in 0..(m + n) /\ i - 1 \in 0..(m + n)
      BY <1>1
    <3>2. CASE i <= m
      <4>1. i \in 1..m /\ i - 1 <= m
        BY <3>2, <1>1
      <4>2. ext[i] = sum[i] /\ ext[i - 1] = sum[i - 1]
        BY <3>1, <3>2, <4>1
      <4> HIDE DEF ext
      <4> QED
        BY <4>1, <4>2, <2>1, <1>1
    <3>3. CASE ~(i <= m)
      <4> DEFINE k == i - m
      <4>1. k \in 1..n /\ m + k = i
        BY <3>3, <1>1
      <4>2. ext[i] = IF k < j THEN total ELSE total + delta
        <5>1. i < m + j <=> k < j
          BY <4>1, <1>1
        <5> QED
          BY <5>1, <3>1, <3>3
      <4>3. ext[i - 1] = IF k <= j THEN total ELSE total + delta
        <5>1. CASE k = 1
          <6>1. i - 1 = m /\ k <= j /\ m <= m
            BY <5>1, <4>1, <1>1
          <6> QED
            BY <6>1, <3>1, <2>5
        <5>2. CASE k # 1
          <6>1. ~(i - 1 <= m) /\ (i - 1 < m + j <=> k <= j)
            BY <5>2, <4>1, <1>1
          <6> QED
            BY <6>1, <3>1
        <5> QED
          BY <5>1, <5>2
      <4> HIDE DEF ext, k
      <4>4. Delta(pending'[i], p, c) = IF k = j THEN delta ELSE 0
        BY <1>1, <4>1, <2>2, <2>3
      <4> QED
        BY <4>1, <4>2, <4>3, <4>4, <2>4, <2>6
    <3> QED
      BY <3>2, <3>3
  <2> HIDE DEF ext
  <2> QED
    BY <1>1, <2>7, <2>8, <2>9, <2>10
<1>3. \A p, c : (Cell(tables, p, c))' = Cell(tables, p, c) /\ (Cell(chain, p, c))' = Cell(chain', p, c)
  BY DEF Cell
<1>4. \A p, c : \A i \in DOMAIN pending' : (Delta(pending[i], p, c))' = Delta(pending'[i], p, c)
  BY DEF Delta
<1>5. DOMAIN pending' = 1..Len(pending')
  BY DEF Extended
<1> HIDE DEF m, n
<1> QED
  BY <1>2, <1>3, <1>4, <1>5 DEF BytesInv

\* A call keeps the columns told: the logs that write one write its new value.
LEMMA CallKeepsColumns ==
  ASSUME ColumnInv, NEW logs, Told(logs), Extended(logs), tables' = tables, entangled' = entangled
  PROVE  ColumnInv'
<1>1. /\ Len(pending) \in Nat /\ DOMAIN pending = 1..Len(pending) /\ Len(logs) \in Nat
      /\ DOMAIN logs = 1..Len(logs)
      /\ \A i \in DOMAIN pending : i \in DOMAIN pending' /\ pending'[i] = pending[i]
      /\ \A k \in DOMAIN logs : /\ Len(pending) + k \in DOMAIN pending'
                                /\ pending'[Len(pending) + k] = logs[k]
      /\ \A i \in DOMAIN pending' :
            i \in DOMAIN pending \/ \E k \in DOMAIN logs : i = Len(pending) + k
  BY DEF Extended
<1>2. ASSUME NEW e \in (Providers \cup Deals) \ entangled, NEW c \in Overwritten
      PROVE  /\ (\A i \in DOMAIN pending' : ~Writes(pending'[i], e, c)) =>
                   Cell(tables, e, c) = Cell(chain', e, c)
             /\ \A i \in DOMAIN pending' :
                   /\ Writes(pending'[i], e, c)
                   /\ \A j \in DOMAIN pending' : Writes(pending'[j], e, c) => j <= i
                   => Written(pending'[i], c) = Cell(chain', e, c)
  <2>1. /\ (\A i \in DOMAIN pending : ~Writes(pending[i], e, c)) =>
              Cell(tables, e, c) = Cell(chain, e, c)
        /\ \A i \in DOMAIN pending :
              /\ Writes(pending[i], e, c)
              /\ \A j \in DOMAIN pending : Writes(pending[j], e, c) => j <= i
              => Written(pending[i], c) = Cell(chain, e, c)
    BY DEF ColumnInv
  <2>2. /\ \A k \in DOMAIN logs : Writes(logs[k], e, c) => Written(logs[k], c) = Cell(chain', e, c)
        /\ (\A k \in DOMAIN logs : ~Writes(logs[k], e, c)) => Cell(chain', e, c) = Cell(chain, e, c)
    BY DEF Told
  <2>3. ASSUME \A i \in DOMAIN pending' : ~Writes(pending'[i], e, c)
        PROVE  Cell(tables, e, c) = Cell(chain', e, c)
    <3>1. \A i \in DOMAIN pending : ~Writes(pending[i], e, c)
      BY <2>3, <1>1
    <3>2. \A k \in DOMAIN logs : ~Writes(logs[k], e, c)
      BY <2>3, <1>1
    <3> QED
      BY <3>1, <3>2, <2>1, <2>2
  <2>4. ASSUME NEW i \in DOMAIN pending', Writes(pending'[i], e, c),
               \A j \in DOMAIN pending' : Writes(pending'[j], e, c) => j <= i
        PROVE  Written(pending'[i], c) = Cell(chain', e, c)
    <3>1. CASE i \in DOMAIN pending
      <4>1. \A k \in DOMAIN logs : ~Writes(logs[k], e, c)
        <5> SUFFICES ASSUME NEW k \in DOMAIN logs, Writes(logs[k], e, c) PROVE FALSE
          OBVIOUS
        <5>1. Len(pending) + k <= i
          BY <1>1, <2>4
        <5> QED
          BY <5>1, <3>1, <1>1
      <4>2. pending'[i] = pending[i] /\ \A j \in DOMAIN pending : Writes(pending[j], e, c) => j <= i
        BY <3>1, <1>1, <2>4
      <4> QED
        BY <4>1, <4>2, <3>1, <2>1, <2>2, <2>4
    <3>2. CASE \E k \in DOMAIN logs : i = Len(pending) + k
      <4>1. PICK k \in DOMAIN logs : pending'[i] = logs[k]
        BY <3>2, <1>1
      <4> QED
        BY <4>1, <2>2, <2>4
    <3> QED
      BY <3>1, <3>2, <1>1
  <2> QED
    BY <2>3, <2>4
<1>3. \A e, c : (Cell(tables, e, c))' = Cell(tables, e, c) /\ (Cell(chain, e, c))' = Cell(chain', e, c)
  BY DEF Cell
<1>4. \A e, c : \A i \in DOMAIN pending' : /\ (Writes(pending[i], e, c))' <=> Writes(pending'[i], e, c)
                                           /\ (Written(pending[i], c))' = Written(pending'[i], c)
  BY DEF Writes, Written
<1> QED
  BY <1>2, <1>3, <1>4 DEF ColumnInv

\* A contract call that its logs tell keeps the mirror.
LEMMA CallKeepsMirror ==
  ASSUME IInv, MirrorInv, NEW logs, Told(logs), Emit(logs)
  PROVE  MirrorInv'
<1>1. PendingShape /\ TypesInv /\ FixedInv /\ BytesInv /\ ColumnInv
  BY DEF IInv, MirrorInv
<1>2. pending' = pending \o logs /\ UNCHANGED <<block, tables, entangled>>
  BY DEF Emit
<1>3. Extended(logs)
  BY <1>1, <1>2, ToldLogs
<1>4. \A i \in DOMAIN pending' : \/ i \in DOMAIN pending /\ pending'[i] = pending[i]
                                 \/ \E k \in DOMAIN logs : pending'[i] = logs[k]
  BY <1>3 DEF Extended
<1>5. TypesInv'
  <2>1. \A i \in DOMAIN pending' : Typed(pending'[i])
    BY <1>1, <1>4 DEF TypesInv, Told
  <2>2. \A i \in DOMAIN pending' : (Typed(pending[i]))' <=> Typed(pending'[i])
    BY DEF Typed
  <2>3. /\ \A p \in DOMAIN chain'.providers : chain'.providers[p] \in ProviderRow
        /\ \A p \in DOMAIN tables.providers : tables.providers[p] \in ProviderRow
        /\ \A d \in DOMAIN tables.deals : tables.deals[d] \in DealRow
    BY <1>1 DEF TypesInv, Told
  <2> QED
    BY <2>1, <2>2, <2>3, <1>2 DEF TypesInv
<1>6. FixedInv'
  <2>1. \A d \in DOMAIN tables.deals : /\ d \in DOMAIN chain'.deals
                                       /\ tables.deals[d].provider = chain'.deals[d].provider
                                       /\ tables.deals[d].totalDealSize = chain'.deals[d].totalDealSize
    BY <1>1 DEF FixedInv, Told
  <2>2. ASSUME NEW i \in DOMAIN pending', pending'[i].eventName = "DealProposalCreated"
        PROVE  /\ pending'[i].entity \in DOMAIN chain'.deals
               /\ chain'.deals[pending'[i].entity].provider = pending'[i].args.provider
               /\ chain'.deals[pending'[i].entity].totalDealSize = pending'[i].args.totalDealSize
    <3>1. CASE i \in DOMAIN pending /\ pending'[i] = pending[i]
      BY <3>1, <2>2, <1>1 DEF FixedInv, Told
    <3>2. CASE \E k \in DOMAIN logs : pending'[i] = logs[k]
      BY <3>2, <2>2 DEF Told
    <3> QED
      BY <3>1, <3>2, <1>4
  <2> QED
    BY <2>1, <2>2, <1>2 DEF FixedInv
<1>7. BytesInv'
  BY <1>1, <1>2, <1>3, CallKeepsBytes
<1>8. ColumnInv'
  BY <1>1, <1>2, <1>3, CallKeepsColumns
<1> QED
  BY <1>5, <1>6, <1>7, <1>8 DEF MirrorInv
-----------------------------------------------------------------------------
(* What each log overwrites and moves. *)

\* The columns that an event overwrites.
LEMMA EventColumns ==
  ASSUME NEW l
  PROVE  /\ \A s \in ProviderSettings : l.eventName = SettingEvent[s] =>
              OverwrittenColumns(l) = {s} /\ Written(l, s) = l.args.value
         /\ \A f \in ProviderFlags : l.eventName \in {FlagEvents[f][1], FlagEvents[f][2]} =>
              OverwrittenColumns(l) = {f} /\ Written(l, f) = (l.eventName = FlagEvents[f][1])
         /\ l.eventName \in StateEvents =>
              /\ OverwrittenColumns(l) = {"state"}
              /\ Written(l, "state") = EventNameToDealState[l.eventName]
         /\ l.eventName = "RailIdUpdated" =>
              OverwrittenColumns(l) = {"railId"} /\ Written(l, "railId") = l.args.value
         /\ l.eventName = "ManifestLocationUpdated" =>
              OverwrittenColumns(l) = {"manifestLocation"} /\ Written(l, "manifestLocation") = l.args.value
         /\ l.eventName = "CapabilitiesUpdated" =>
              OverwrittenColumns(l) = {"capabilities"} /\ Written(l, "capabilities") = l.args.value
         /\ l.eventName \in RowEvents \cup ByteEvents => OverwrittenColumns(l) = {}
<1> DEFINE e == l.eventName
<1>1. DOMAIN SettingUpdate(l) = {s \in ProviderSettings : SettingEvent[s] = e}
  BY DEF SettingUpdate, SettingEvent, ProviderSettings
<1>2. DOMAIN FlagUpdate(l) = {g \in ProviderFlags : e \in {FlagEvents[g][1], FlagEvents[g][2]}}
  <2>1. DOMAIN FlagUpdate(l) = {g \in ProviderFlags : e \in ToSet(FlagEvents[g])}
    BY DEF FlagUpdate, FlagEvents, ProviderFlags
  <2>2. \A g \in ProviderFlags : ToSet(FlagEvents[g]) = {FlagEvents[g][1], FlagEvents[g][2]}
    BY DEF FlagEvents, ProviderFlags, ToSet
  <2> QED
    BY <2>1, <2>2
<1>3. DOMAIN LogToDealUpdate(l) = IF e \in StateEvents THEN {"state"}
                                  ELSE IF e = "RailIdUpdated" THEN {"railId"}
                                  ELSE IF e = "ManifestLocationUpdated" THEN {"manifestLocation"} ELSE {}
  BY DEF LogToDealUpdate, EventNameToDealState, StateEvents
<1>4. OverwrittenColumns(l) = DOMAIN SettingUpdate(l) \cup DOMAIN FlagUpdate(l) \cup DOMAIN LogToDealUpdate(l)
                                \cup (IF e = "CapabilitiesUpdated" THEN {"capabilities"} ELSE {})
  BY DEF OverwrittenColumns
<1>5. ASSUME NEW s \in ProviderSettings, e = SettingEvent[s]
      PROVE  OverwrittenColumns(l) = {s} /\ Written(l, s) = l.args.value
  <2>1. DOMAIN SettingUpdate(l) = {s} /\ DOMAIN FlagUpdate(l) = {} /\ DOMAIN LogToDealUpdate(l) = {}
        /\ e # "CapabilitiesUpdated"
    BY <1>1, <1>2, <1>3, <1>5 DEF ProviderSettings, SettingEvent, ProviderFlags, FlagEvents, StateEvents
  <2>2. Written(l, s) = l.args.value
    BY DEF Written, ProviderSettings, ProviderFlags
  <2> QED
    BY <2>1, <2>2, <1>4
<1>6. ASSUME NEW f \in ProviderFlags, e \in {FlagEvents[f][1], FlagEvents[f][2]}
      PROVE  OverwrittenColumns(l) = {f} /\ Written(l, f) = (e = FlagEvents[f][1])
  <2>1. DOMAIN SettingUpdate(l) = {} /\ DOMAIN FlagUpdate(l) = {f} /\ DOMAIN LogToDealUpdate(l) = {}
        /\ e # "CapabilitiesUpdated"
    BY <1>1, <1>2, <1>3, <1>6 DEF ProviderSettings, SettingEvent, ProviderFlags, FlagEvents, StateEvents
  <2>2. Written(l, f) = (e = FlagEvents[f][1])
    BY DEF Written, ProviderFlags
  <2> QED
    BY <2>1, <2>2, <1>4
<1>7. ASSUME e \in StateEvents \cup RowEvents \cup ByteEvents
                    \cup {"RailIdUpdated", "ManifestLocationUpdated", "CapabilitiesUpdated"}
      PROVE  DOMAIN SettingUpdate(l) = {} /\ DOMAIN FlagUpdate(l) = {}
  BY <1>1, <1>2, <1>7 DEF ProviderSettings, SettingEvent, ProviderFlags, FlagEvents, StateEvents,
                          RowEvents, ByteEvents
<1>8. /\ e \in StateEvents => OverwrittenColumns(l) = {"state"}
      /\ e = "RailIdUpdated" => OverwrittenColumns(l) = {"railId"}
      /\ e = "ManifestLocationUpdated" => OverwrittenColumns(l) = {"manifestLocation"}
      /\ e = "CapabilitiesUpdated" => OverwrittenColumns(l) = {"capabilities"}
      /\ e \in RowEvents \cup ByteEvents => OverwrittenColumns(l) = {}
  BY <1>3, <1>4, <1>7 DEF StateEvents, RowEvents, ByteEvents
<1>9. /\ Written(l, "state") = EventNameToDealState[l.eventName]
      /\ \A c \in {"railId", "manifestLocation", "capabilities"} : Written(l, c) = l.args.value
  BY DEF Written, ProviderFlags
<1> QED
  BY <1>5, <1>6, <1>8, <1>9

\* What the events of bytes move.
LEMMA ByteDeltas ==
  ASSUME NEW l, Typed(l), NEW p
  PROVE  /\ l.eventName = "PendingCapacityReserved" =>
              /\ Delta(l, p, "pendingBytes") = IF p = l.entity THEN l.args.bytes ELSE 0
              /\ Delta(l, p, "committedBytes") = 0
         /\ l.eventName = "PendingCapacityReleased" =>
              /\ Delta(l, p, "pendingBytes") = IF p = l.entity THEN -l.args.bytes ELSE 0
              /\ Delta(l, p, "committedBytes") = 0
         /\ l.eventName = "CapacityCommitted" =>
              /\ Delta(l, p, "committedBytes") = IF p = l.entity THEN l.args.bytes ELSE 0
              /\ Delta(l, p, "pendingBytes") = 0
         /\ l.eventName = "CapacityReleased" =>
              /\ Delta(l, p, "committedBytes") = IF p = l.entity THEN -l.args.bytes ELSE 0
              /\ Delta(l, p, "pendingBytes") = 0
         /\ l.eventName \notin ByteEvents => \A c \in ByteColumns : Delta(l, p, c) = 0
<1>1. l.eventName = "PendingCapacityReserved" =>
         ByteUpdate(l) = [pendingBytes |-> Increment(l.args.bytes)]
  BY DEF ByteUpdate
<1>2. l.eventName = "PendingCapacityReleased" =>
         ByteUpdate(l) = [pendingBytes |-> Decrement(l.args.bytes)]
  BY DEF ByteUpdate
<1>3. l.eventName = "CapacityCommitted" =>
         ByteUpdate(l) = [committedBytes |-> Increment(l.args.bytes)]
  BY DEF ByteUpdate
<1>4. l.eventName = "CapacityReleased" =>
         ByteUpdate(l) = [committedBytes |-> Decrement(l.args.bytes)]
  BY DEF ByteUpdate
<1>5. \A n : Balance(Increment(n)) = n /\ Balance(Decrement(n)) = -n
  BY DEF Balance, Increment, Decrement
<1>6. l.eventName \notin ByteEvents => \A c \in ByteColumns : Delta(l, p, c) = 0
  BY ByteMoves DEF Delta
<1> QED
  BY <1>1, <1>2, <1>3, <1>4, <1>5, <1>6 DEF Delta, Moved

-----------------------------------------------------------------------------
(* Calls that overwrite one column. *)

\* The contract's counters are numbers.
LEMMA ByteCell ==
  ASSUME TypesInv, NEW p, NEW c \in ByteColumns
  PROVE  Cell(chain, p, c) \in Int
<1>1. CASE p \in DOMAIN chain.providers
  <2>1. chain.providers[p] \in ProviderRow
    BY <1>1 DEF TypesInv
  <2>2. chain.providers[p][c] \in Int
    BY <2>1 DEF ProviderRow, ByteColumns
  <2> QED
    BY <2>2, <1>1, Cells
<1>2. CASE p \notin DOMAIN chain.providers
  <2>1. NewProvider[c] = 0
    BY DEF NewProvider, ByteColumns
  <2> QED
    BY <2>1, <1>2, Cells
<1> QED
  BY <1>1, <1>2

\* A call with one log, which overwrites one column of its entity, tells what it does.
LEMMA OverwritingCall ==
  ASSUME TypesInv, NEW l \in PendingLog, Typed(l), l.blockNumber = block,
         l.eventName \notin ByteEvents, l.eventName # "DealProposalCreated",
         NEW c0 \in Overwritten,
         OverwrittenColumns(l) = {c0}, Written(l, c0) = Cell(chain', l.entity, c0),
         \A e : \A c \in Overwritten \cup ByteColumns :
            e # l.entity \/ c # c0 => Cell(chain', e, c) = Cell(chain, e, c),
         \A p \in DOMAIN chain'.providers : chain'.providers[p] \in ProviderRow,
         \A d \in DOMAIN chain.deals : /\ d \in DOMAIN chain'.deals
                                       /\ chain'.deals[d].provider = chain.deals[d].provider
                                       /\ chain'.deals[d].totalDealSize = chain.deals[d].totalDealSize
  PROVE  Told(<<l>>)
<1> DEFINE logs == <<l>>
<1>1. logs \in Seq(PendingLog) /\ DOMAIN logs = {1} /\ logs[1] = l
  OBVIOUS
<1> HIDE DEF logs
<1>2. \A p : \A c \in ByteColumns : Delta(l, p, c) = 0
  BY ByteDeltas
<1>3. \A e, c : Writes(l, e, c) <=> e = l.entity /\ c = c0
  BY DEF Writes
<1>4. c0 \notin ByteColumns
  BY DEF Overwritten, ByteColumns, ProviderSettings, ProviderFlags, DealSettings
<1>5. ASSUME NEW p \in Providers, NEW c \in ByteColumns
      PROVE  \E j \in DOMAIN logs :
                /\ \A k \in DOMAIN logs : k # j => Delta(logs[k], p, c) = 0
                /\ Cell(chain', p, c) = Cell(chain, p, c) + Delta(logs[j], p, c)
  <2>1. Cell(chain, p, c) \in Int
    BY ByteCell
  <2>2. Cell(chain', p, c) = Cell(chain, p, c) /\ Delta(logs[1], p, c) = 0
    BY <1>1, <1>2, <1>4
  <2> QED
    BY <1>1, <2>1, <2>2
<1> QED
  BY <1>1, <1>3, <1>5 DEF Told

\* The contract has one provider column changed.
LEMMA ProviderColumnChanged ==
  ASSUME ChainShape, TypesInv, NEW p \in DOMAIN chain.providers,
         NEW c0 \in ProviderSettings \cup ProviderFlags, NEW v,
         c0 \in ProviderSettings => v \in Nat, c0 \in ProviderFlags => v \in BOOLEAN,
         chain' = [chain EXCEPT !.providers =
                     [chain.providers EXCEPT ![p] = [chain.providers[p] EXCEPT ![c0] = v]]]
  PROVE  /\ Cell(chain', p, c0) = v
         /\ \A e : \A c \in Overwritten \cup ByteColumns :
               e # p \/ c # c0 => Cell(chain', e, c) = Cell(chain, e, c)
         /\ \A x \in DOMAIN chain'.providers : chain'.providers[x] \in ProviderRow
         /\ chain'.deals = chain.deals
<1> DEFINE row == [chain.providers[p] EXCEPT ![c0] = v]
           ps == [chain.providers EXCEPT ![p] = row]
<1>1. chain.providers[p] \in ProviderRow
  BY DEF TypesInv
<1>2. c0 \in DOMAIN NewProvider /\ c0 \in DOMAIN chain.providers[p] /\ c0 # "capabilities"
  BY <1>1 DEF ProviderRow, NewProvider, ProviderSettings, ProviderFlags
<1>3. row[c0] = v /\ \A c \in DOMAIN NewProvider : c # c0 => row[c] = chain.providers[p][c]
  BY <1>1, <1>2 DEF ProviderRow, NewProvider
<1>4. row \in ProviderRow
  <2>1. row = [c \in DOMAIN NewProvider |-> row[c]]
    BY <1>1 DEF ProviderRow, NewProvider
  <2>2. \A c \in ProviderSettings : row[c] \in Nat
    <3> SUFFICES ASSUME NEW c \in ProviderSettings PROVE row[c] \in Nat
      OBVIOUS
    <3>1. c \in DOMAIN NewProvider /\ chain.providers[p][c] \in Nat
      BY <1>1 DEF ProviderRow, ProviderSettings, NewProvider
    <3> HIDE DEF row
    <3> QED
      BY <3>1, <1>3
  <2>3. \A c \in ProviderFlags : row[c] \in BOOLEAN
    <3> SUFFICES ASSUME NEW c \in ProviderFlags PROVE row[c] \in BOOLEAN
      OBVIOUS
    <3>1. c \in DOMAIN NewProvider /\ chain.providers[p][c] \in BOOLEAN
      BY <1>1 DEF ProviderRow, ProviderFlags, NewProvider
    <3> HIDE DEF row
    <3> QED
      BY <3>1, <1>3
  <2>4. \A c \in ByteColumns : row[c] \in Int
    <3> SUFFICES ASSUME NEW c \in ByteColumns PROVE row[c] \in Int
      OBVIOUS
    <3>1. c \in DOMAIN NewProvider /\ chain.providers[p][c] \in Int /\ c # c0
      BY <1>1 DEF ProviderRow, ByteColumns, NewProvider, ProviderSettings, ProviderFlags
    <3> HIDE DEF row
    <3> QED
      BY <3>1, <1>3
  <2> HIDE DEF row
  <2> QED
    BY <2>1, <2>2, <2>3, <2>4 DEF ProviderRow, ProviderSettings, ProviderFlags, ByteColumns, NewProvider
<1> HIDE DEF row
<1>5. /\ DOMAIN ps = DOMAIN chain.providers /\ ps[p] = row
      /\ \A x \in DOMAIN chain.providers : x # p => ps[x] = chain.providers[x]
  OBVIOUS
<1>6. chain' = [chain EXCEPT !.providers = ps]
  BY DEF row
<1> HIDE DEF ps
<1>7. chain'.providers = ps /\ chain'.capabilities = chain.capabilities /\ chain'.deals = chain.deals
  BY <1>6 DEF ChainShape
<1>8. Cell(chain', p, c0) = v
  BY <1>2, <1>3, <1>5, <1>7 DEF Cell
<1>9. ASSUME NEW e, NEW c \in Overwritten \cup ByteColumns, e # p \/ c # c0
      PROVE  Cell(chain', e, c) = Cell(chain, e, c)
  <2>1. CASE c \notin DOMAIN NewProvider
    BY <2>1, <1>7 DEF Cell
  <2>2. CASE c \in DOMAIN NewProvider
    <3>1. c # "capabilities"
      BY <2>2 DEF NewProvider
    <3>2. e \in DOMAIN ps <=> e \in DOMAIN chain.providers
      BY <1>5
    <3>3. e \in DOMAIN ps => ps[e][c] = chain.providers[e][c]
      BY <1>3, <1>5, <1>9, <2>2
    <3> QED
      BY <2>2, <3>1, <3>2, <3>3, <1>7 DEF Cell
  <2> QED
    BY <2>1, <2>2
<1>10. \A x \in DOMAIN chain'.providers : chain'.providers[x] \in ProviderRow
  BY <1>4, <1>5, <1>7 DEF TypesInv
<1> QED
  BY <1>7, <1>8, <1>9, <1>10

\* One column of one row is changed.
WithColumn(rows, e, c, v) == [rows EXCEPT ![e] = [rows[e] EXCEPT ![c] = v]]

\* The contract has one deal column changed.
LEMMA DealColumnChanged ==
  ASSUME ChainShape, NEW d \in DOMAIN chain.deals, NEW c0 \in DealSettings, NEW v,
         chain'.deals = WithColumn(chain.deals, d, c0, v)
  PROVE  /\ Cell(chain', d, c0) = v
         /\ \A e : \A c \in DealSettings :
               e # d \/ c # c0 => Cell(chain', e, c) = Cell(chain, e, c)
         /\ \A x \in DOMAIN chain.deals : /\ x \in DOMAIN chain'.deals
                                          /\ chain'.deals[x].provider = chain.deals[x].provider
                                          /\ chain'.deals[x].totalDealSize = chain.deals[x].totalDealSize
<1> DEFINE row == [chain.deals[d] EXCEPT ![c0] = v]
           ds == [chain.deals EXCEPT ![d] = row]
<1>1. chain.deals[d] \in DealRow
  BY DEF ChainShape
<1>2. c0 \in DOMAIN chain.deals[d] /\ c0 \notin {"provider", "totalDealSize"}
  BY <1>1 DEF DealRow, DealSettings
<1>3. row[c0] = v /\ \A c \in DOMAIN chain.deals[d] : c # c0 => row[c] = chain.deals[d][c]
  BY <1>2
<1>4. DealSettings \cup FixedColumns \subseteq DOMAIN chain.deals[d]
  BY <1>1 DEF DealRow, DealSettings, FixedColumns
<1> HIDE DEF row
<1>5. /\ DOMAIN ds = DOMAIN chain.deals /\ ds[d] = row
      /\ \A x \in DOMAIN chain.deals : x # d => ds[x] = chain.deals[x]
  OBVIOUS
<1>6. chain'.deals = ds
  BY DEF row, WithColumn
<1> HIDE DEF ds
<1>7. \A c \in DealSettings : c \notin DOMAIN NewProvider /\ c # "capabilities"
  BY DEF DealSettings, NewProvider
<1>8. Cell(chain', d, c0) = v
  BY <1>3, <1>5, <1>6, <1>7 DEF Cell
<1>9. ASSUME NEW e, NEW c \in DealSettings, e # d \/ c # c0
      PROVE  Cell(chain', e, c) = Cell(chain, e, c)
  <2>1. e \in DOMAIN ds <=> e \in DOMAIN chain.deals
    BY <1>5
  <2>2. e \in DOMAIN ds => ds[e][c] = chain.deals[e][c]
    BY <1>3, <1>4, <1>5, <1>9
  <2> QED
    BY <2>1, <2>2, <1>6, <1>7 DEF Cell
<1>10. row["provider"] = chain.deals[d]["provider"]
       /\ row["totalDealSize"] = chain.deals[d]["totalDealSize"]
  BY <1>2, <1>3, <1>4 DEF FixedColumns
<1>11. \A x \in DOMAIN chain.deals : /\ x \in DOMAIN ds
                                     /\ ds[x].provider = chain.deals[x].provider
                                     /\ ds[x].totalDealSize = chain.deals[x].totalDealSize
  BY <1>5, <1>10
<1> QED
  BY <1>6, <1>8, <1>9, <1>11

\* A provider's new capabilities are what its log says.
LEMMA UpdateCapabilitiesKeepsMirror ==
  ASSUME IInv, MirrorInv, NEW p \in Providers, NEW v \in Values, UpdateCapabilities(p, v)
  PROVE  MirrorInv'
<1> DEFINE args == [value |-> v]
           l == Log("CapabilitiesUpdated", p, args)
           cs == [chain.capabilities EXCEPT ![p] = v]
<1>1. /\ p \in DOMAIN chain.providers /\ Emit(<<l>>)
      /\ chain' = [chain EXCEPT !.capabilities = cs]
  BY DEF UpdateCapabilities, Registered
<1>2. ChainShape /\ TypesInv
  BY DEF IInv, MirrorInv
<1>3. /\ l \in PendingLog /\ l.eventName = "CapabilitiesUpdated" /\ l.entity = p
      /\ l.blockNumber = block /\ l.args = args
  <2>1. "CapabilitiesUpdated" \in Events /\ p \in Providers \cup Deals /\ args \in Arguments
    BY DEF Events, ValueEvents, Arguments
  <2> HIDE DEF args
  <2> QED
    BY <2>1, LogTyped
<1>4. Typed(l) /\ l.eventName \notin ByteEvents /\ l.eventName # "DealProposalCreated"
  BY <1>3 DEF Typed, DealEvents, StateEvents, ValueEvents, ByteEvents
<1> HIDE DEF l
<1>5. OverwrittenColumns(l) = {"capabilities"} /\ Written(l, "capabilities") = v
  BY <1>3, EventColumns
<1>6. p \in DOMAIN chain.capabilities
  BY <1>1, <1>2 DEF ChainShape
<1>7. /\ DOMAIN cs = DOMAIN chain.capabilities /\ cs[p] = v
      /\ \A x \in DOMAIN chain.capabilities : x # p => cs[x] = chain.capabilities[x]
  BY <1>6
<1> HIDE DEF cs
<1>8. chain'.capabilities = cs /\ chain'.providers = chain.providers /\ chain'.deals = chain.deals
  BY <1>1, <1>2 DEF ChainShape
<1>9. Cell(chain', p, "capabilities") = v
  BY <1>6, <1>7, <1>8 DEF Cell
<1>10. \A e : \A c \in Overwritten \cup ByteColumns :
          e # l.entity \/ c # "capabilities" => Cell(chain', e, c) = Cell(chain, e, c)
  BY <1>3, <1>7, <1>8 DEF Cell
<1>11. \A x \in DOMAIN chain'.providers : chain'.providers[x] \in ProviderRow
  BY <1>2, <1>8 DEF TypesInv
<1>12. "capabilities" \in Overwritten
  BY DEF Overwritten
<1>13. Told(<<l>>)
  BY <1>2, <1>3, <1>4, <1>5, <1>8, <1>9, <1>10, <1>11, <1>12, OverwritingCall
<1> QED
  BY <1>1, <1>13, CallKeepsMirror

\* A provider's new setting is what its log says.
LEMMA UpdateSettingKeepsMirror ==
  ASSUME IInv, MirrorInv, NEW p \in Providers, NEW s \in Settings, NEW v \in Values,
         UpdateSetting(p, s, v)
  PROVE  MirrorInv'
<1> DEFINE args == [value |-> v]
           event == SettingEvent[s]
           l == Log(event, p, args)
<1>1. /\ p \in DOMAIN chain.providers /\ Emit(<<l>>)
      /\ chain' = [chain EXCEPT !.providers =
                     [chain.providers EXCEPT ![p] = [chain.providers[p] EXCEPT ![s] = v]]]
  BY DEF UpdateSetting, Registered
<1>2. ChainShape /\ TypesInv
  BY DEF IInv, MirrorInv
<1>3. s \in ProviderSettings /\ s \in Overwritten /\ s \notin ProviderFlags /\ v \in Nat
  BY ConstantsAssumption DEF SettingEvent, ProviderSettings, ProviderFlags, Overwritten
<1>4. event \in ValueEvents \ (DealEvents \cup ByteEvents)
  BY <1>3 DEF SettingEvent, ProviderSettings, ValueEvents, DealEvents, StateEvents, ByteEvents
<1>5. /\ l \in PendingLog /\ l.eventName = event /\ l.entity = p
      /\ l.blockNumber = block /\ l.args = args
  <2>1. event \in Events /\ p \in Providers \cup Deals /\ args \in Arguments
    BY <1>4 DEF Events, Arguments
  <2> HIDE DEF args, event
  <2> QED
    BY <2>1, LogTyped
<1>6. Typed(l) /\ l.eventName \notin ByteEvents /\ l.eventName # "DealProposalCreated"
  BY <1>4, <1>5 DEF Typed, DealEvents
<1> HIDE DEF l
<1>7. OverwrittenColumns(l) = {s} /\ Written(l, s) = v
  BY <1>3, <1>5, EventColumns
<1>8. /\ Cell(chain', p, s) = v
      /\ \A e : \A c \in Overwritten \cup ByteColumns :
            e # p \/ c # s => Cell(chain', e, c) = Cell(chain, e, c)
      /\ \A x \in DOMAIN chain'.providers : chain'.providers[x] \in ProviderRow
      /\ chain'.deals = chain.deals
  BY <1>1, <1>2, <1>3, ProviderColumnChanged
<1>9. Told(<<l>>)
  BY <1>2, <1>3, <1>5, <1>6, <1>7, <1>8, OverwritingCall
<1> QED
  BY <1>1, <1>9, CallKeepsMirror

\* The event of a toggled flag says whether it is raised now.
LEMMA ToggleFlagKeepsMirror ==
  ASSUME IInv, MirrorInv, NEW p \in Providers, NEW f \in DOMAIN FlagEvents, ToggleFlag(p, f)
  PROVE  MirrorInv'
<1> DEFINE raised == chain.providers[p][f]
           event == FlagEvents[f][IF raised THEN 2 ELSE 1]
           l == Log(event, p, <<>>)
<1>1. /\ p \in DOMAIN chain.providers /\ Emit(<<l>>)
      /\ chain' = [chain EXCEPT !.providers =
                     [chain.providers EXCEPT ![p] = [chain.providers[p] EXCEPT ![f] = ~raised]]]
  BY DEF ToggleFlag, Registered
<1>2. ChainShape /\ TypesInv
  BY DEF IInv, MirrorInv
<1>3. f \in ProviderFlags /\ f \in Overwritten /\ f \notin ProviderSettings
  BY DEF FlagEvents, ProviderSettings, ProviderFlags, Overwritten
<1>4. raised \in BOOLEAN
  <2>1. chain.providers[p] \in ProviderRow
    BY <1>1, <1>2 DEF TypesInv
  <2> QED
    BY <1>3, <2>1 DEF ProviderRow, ProviderFlags
<1>5. /\ event \in {FlagEvents[f][1], FlagEvents[f][2]}
      /\ (event = FlagEvents[f][1]) = ~raised
  BY <1>3, <1>4 DEF FlagEvents, ProviderFlags
<1>6. event \in SwitchEvents
  <2> HIDE DEF event
  <2> QED
    BY <1>3, <1>5 DEF FlagEvents, ProviderFlags, SwitchEvents
<1> HIDE DEF event
<1>7. l \in PendingLog /\ l.eventName = event /\ l.entity = p /\ l.blockNumber = block
  <2>1. event \in Events /\ p \in Providers \cup Deals /\ <<>> \in Arguments
    BY <1>6 DEF Events, Arguments
  <2> QED
    BY <2>1, LogTyped
<1>8. Typed(l) /\ l.eventName \notin ByteEvents /\ l.eventName # "DealProposalCreated"
  BY <1>6, <1>7 DEF Typed, DealEvents, SwitchEvents, StateEvents, ValueEvents, ByteEvents
<1> HIDE DEF l
<1>9. OverwrittenColumns(l) = {f} /\ Written(l, f) = ~raised
  BY <1>3, <1>5, <1>7, EventColumns
<1>10. /\ Cell(chain', p, f) = ~raised
       /\ \A e : \A c \in Overwritten \cup ByteColumns :
             e # p \/ c # f => Cell(chain', e, c) = Cell(chain, e, c)
       /\ \A x \in DOMAIN chain'.providers : chain'.providers[x] \in ProviderRow
       /\ chain'.deals = chain.deals
  <2>1. PICK v : v = ~raised
    OBVIOUS
  <2>2. v \in BOOLEAN /\ chain' = [chain EXCEPT !.providers =
                     [chain.providers EXCEPT ![p] = [chain.providers[p] EXCEPT ![f] = v]]]
    BY <1>1, <2>1
  <2>3. /\ Cell(chain', p, f) = v
        /\ \A e : \A c \in Overwritten \cup ByteColumns :
              e # p \/ c # f => Cell(chain', e, c) = Cell(chain, e, c)
        /\ \A x \in DOMAIN chain'.providers : chain'.providers[x] \in ProviderRow
        /\ chain'.deals = chain.deals
    BY <1>1, <1>2, <1>3, <2>2, ProviderColumnChanged
  <2> QED
    BY <2>1, <2>3
<1>11. Told(<<l>>)
  <2>1. Written(l, f) = Cell(chain', l.entity, f)
    BY <1>7, <1>9, <1>10
  <2> QED
    BY <1>2, <1>3, <1>7, <1>8, <1>9, <1>10, <2>1, OverwritingCall
<1> QED
  BY <1>1, <1>11, CallKeepsMirror

\* A deal's log with the new value of a column of it.
LEMMA DealCallKeepsMirror ==
  ASSUME IInv, MirrorInv, NEW d \in DOMAIN chain.deals, NEW event \in Events \cap DealEvents,
         event # "DealProposalCreated", NEW args \in Arguments,
         event \in ValueEvents => args.value \in Values,
         NEW c0 \in DealSettings, NEW v,
         OverwrittenColumns(Log(event, d, args)) = {c0}, Written(Log(event, d, args), c0) = v,
         Emit(<<Log(event, d, args)>>),
         chain' = [chain EXCEPT !.deals =
                     [chain.deals EXCEPT ![d] = [chain.deals[d] EXCEPT ![c0] = v]]]
  PROVE  MirrorInv'
<1> DEFINE l == Log(event, d, args)
<1>1. ChainShape /\ TypesInv
  BY DEF IInv, MirrorInv
<1>2. d \in Deals
  BY <1>1 DEF ChainShape
<1>3. /\ l \in PendingLog /\ l.eventName = event /\ l.entity = d
      /\ l.blockNumber = block /\ l.args = args
  BY <1>2, LogTyped
<1>4. OverwrittenColumns(l) = {c0} /\ Written(l, c0) = v /\ Emit(<<l>>)
  OBVIOUS
<1> HIDE DEF l
<1>5. Typed(l) /\ l.eventName \notin ByteEvents /\ l.eventName # "DealProposalCreated"
  BY <1>2, <1>3 DEF Typed, DealEvents, StateEvents, ByteEvents
<1>6. /\ Cell(chain', d, c0) = v
      /\ \A e : \A c \in Overwritten \cup ByteColumns :
            e # d \/ c # c0 => Cell(chain', e, c) = Cell(chain, e, c)
      /\ chain'.providers = chain.providers
      /\ \A x \in DOMAIN chain.deals : /\ x \in DOMAIN chain'.deals
                                       /\ chain'.deals[x].provider = chain.deals[x].provider
                                       /\ chain'.deals[x].totalDealSize = chain.deals[x].totalDealSize
  <2> DEFINE ds == WithColumn(chain.deals, d, c0, v)
  <2>1. chain' = [chain EXCEPT !.deals = ds]
    BY DEF WithColumn
  <2> HIDE DEF ds
  <2>2. chain'.deals = ds /\ chain'.capabilities = chain.capabilities /\ chain'.providers = chain.providers
    BY <1>1, <2>1 DEF ChainShape
  <2>3. d \in DOMAIN chain.deals /\ c0 \in DealSettings
    OBVIOUS
  <2> USE DEF ds
  <2>4. /\ Cell(chain', d, c0) = v
        /\ \A e : \A c \in DealSettings : e # d \/ c # c0 => Cell(chain', e, c) = Cell(chain, e, c)
        /\ \A x \in DOMAIN chain.deals : /\ x \in DOMAIN chain'.deals
                                         /\ chain'.deals[x].provider = chain.deals[x].provider
                                         /\ chain'.deals[x].totalDealSize = chain.deals[x].totalDealSize
    BY <1>1, <2>2, <2>3, DealColumnChanged
  <2>5. \A c \in (Overwritten \cup ByteColumns) \ DealSettings : c \in DOMAIN NewProvider \cup {"capabilities"}
    BY DEF Overwritten, ByteColumns, ProviderSettings, ProviderFlags, NewProvider
  <2>6. \A e : \A c \in (Overwritten \cup ByteColumns) \ DealSettings : Cell(chain', e, c) = Cell(chain, e, c)
    BY <2>2, <2>5 DEF Cell
  <2> QED
    BY <2>2, <2>4, <2>6
<1>7. \A x \in DOMAIN chain'.providers : chain'.providers[x] \in ProviderRow
  BY <1>1, <1>6 DEF TypesInv
<1>8. c0 \in Overwritten
  BY DEF Overwritten
<1>9. Told(<<l>>)
  <2>1. Written(l, c0) = Cell(chain', l.entity, c0)
    BY <1>3, <1>4, <1>6
  <2>2. OverwrittenColumns(l) = {c0}
    BY <1>4
  <2> QED
    BY ONLY <1>1, <1>3, <1>5, <1>6, <1>7, <1>8, <2>1, <2>2, OverwritingCall
<1> QED
  BY <1>4, <1>9, CallKeepsMirror

\* A deal's new rail or location is what its log says.
LEMMA UpdateDealKeepsMirror ==
  ASSUME IInv, MirrorInv, NEW d \in Deals, NEW v \in Values, NEW event, NEW c0,
         <<event, c0>> \in {<<"RailIdUpdated", "railId">>, <<"ManifestLocationUpdated", "manifestLocation">>},
         UpdateDeal(d, event, c0, v)
  PROVE  MirrorInv'
<1> DEFINE args == [value |-> v]
           l == Log(event, d, args)
<1>1. /\ d \in DOMAIN chain.deals /\ Emit(<<l>>)
      /\ chain' = [chain EXCEPT !.deals =
                     [chain.deals EXCEPT ![d] = [chain.deals[d] EXCEPT ![c0] = v]]]
  BY DEF UpdateDeal, InState
<1>2. /\ event \in Events \cap DealEvents /\ event # "DealProposalCreated" /\ c0 \in DealSettings
      /\ args \in Arguments /\ args.value \in Values
  BY DEF Events, DealEvents, ValueEvents, DealSettings, Arguments
<1>3. l.eventName = event /\ l.args = args
  BY DEF Log
<1> HIDE DEF l
<1>4. OverwrittenColumns(l) = {c0} /\ Written(l, c0) = v
  BY <1>3, EventColumns
<1> HIDE DEF args
<1> QED
  BY <1>1, <1>2, <1>4, DealCallKeepsMirror DEF l

\* A completion overwrites the deal's state and moves no bytes.
LEMMA CompleteDealKeepsMirror ==
  ASSUME IInv, MirrorInv, NEW d \in Deals, CompleteDeal(d)
  PROVE  MirrorInv'
<1> DEFINE l == Log("DealCompleted", d, <<>>)
<1>1. /\ d \in DOMAIN chain.deals /\ Emit(<<l>>)
      /\ chain' = [chain EXCEPT !.deals =
                     [chain.deals EXCEPT ![d] = [chain.deals[d] EXCEPT !["state"] = "COMPLETED"]]]
  BY DEF CompleteDeal, InState
<1>2. /\ "DealCompleted" \in Events \cap DealEvents /\ "DealCompleted" # "DealProposalCreated"
      /\ "DealCompleted" \notin ValueEvents /\ "DealCompleted" \in StateEvents
      /\ "state" \in DealSettings /\ <<>> \in Arguments
  BY DEF Events, DealEvents, StateEvents, ValueEvents, DealSettings, Arguments
<1>3. l.eventName = "DealCompleted"
  BY DEF Log
<1> HIDE DEF l
<1>4. OverwrittenColumns(l) = {"state"} /\ Written(l, "state") = "COMPLETED"
  <2>1. EventNameToDealState["DealCompleted"] = "COMPLETED"
    BY DEF EventNameToDealState
  <2> QED
    BY <1>2, <1>3, <2>1, EventColumns
<1> QED
  BY <1>1, <1>2, <1>4, DealCallKeepsMirror DEF l

-----------------------------------------------------------------------------
(* Calls that move the bytes of a provider. *)

\* The contract's counters of a provider move, its other columns stay.
LEMMA BytesMoved ==
  ASSUME TypesInv, NEW p \in DOMAIN chain.providers, NEW a \in Int, NEW b \in Int,
         chain'.providers = Bytes(p, a, b)
  PROVE  /\ DOMAIN chain'.providers = DOMAIN chain.providers
         /\ \A x \in DOMAIN chain'.providers : chain'.providers[x] \in ProviderRow
         /\ \A e : \A c \in ProviderSettings \cup ProviderFlags : Cell(chain', e, c) = Cell(chain, e, c)
         /\ \A e : /\ Cell(chain', e, "pendingBytes") =
                         Cell(chain, e, "pendingBytes") + (IF e = p THEN a ELSE 0)
                   /\ Cell(chain', e, "committedBytes") =
                         Cell(chain, e, "committedBytes") + (IF e = p THEN b ELSE 0)
<1> DEFINE old == chain.providers[p]
           row == [old EXCEPT !.pendingBytes = old.pendingBytes + a,
                              !.committedBytes = old.committedBytes + b]
<1>1. old \in ProviderRow
  BY DEF TypesInv
<1>2. chain'.providers = [chain.providers EXCEPT ![p] = row]
  BY <1>1 DEF Bytes, ProviderRow
<1> HIDE DEF old
<1>3. /\ row \in ProviderRow
      /\ row["pendingBytes"] = old["pendingBytes"] + a
      /\ row["committedBytes"] = old["committedBytes"] + b
      /\ \A c \in ProviderSettings \cup ProviderFlags : row[c] = old[c]
  <2>1. row \in ProviderRow
    <3>1. row = [c \in DOMAIN old |-> row[c]]
      OBVIOUS
    <3>2. \A c \in DOMAIN old : c \notin ByteColumns => row[c] = old[c]
      BY DEF ByteColumns
    <3>3. row["pendingBytes"] \in Int /\ row["committedBytes"] \in Int
      BY <1>1 DEF ProviderRow
    <3> HIDE DEF row
    <3> QED
      BY <1>1, <3>1, <3>2, <3>3 DEF ProviderRow, ByteColumns
  <2>2. row["pendingBytes"] = old["pendingBytes"] + a
    BY <1>1 DEF ProviderRow
  <2>3. row["committedBytes"] = old["committedBytes"] + b
    BY <1>1 DEF ProviderRow
  <2>4. \A c \in ProviderSettings \cup ProviderFlags : row[c] = old[c]
    BY <1>1 DEF ProviderRow, ProviderSettings, ProviderFlags
  <2> QED
    BY <2>1, <2>2, <2>3, <2>4
<1> HIDE DEF row
<1>4. /\ DOMAIN chain'.providers = DOMAIN chain.providers /\ chain'.providers[p] = row
      /\ \A x \in DOMAIN chain.providers : x # p => chain'.providers[x] = chain.providers[x]
  BY <1>2
<1>5. \A x \in DOMAIN chain'.providers : chain'.providers[x] \in ProviderRow
  BY <1>3, <1>4 DEF TypesInv
<1>6. \A c \in ProviderSettings \cup ProviderFlags \cup ByteColumns :
         c \in DOMAIN NewProvider /\ c # "capabilities"
  BY DEF ProviderSettings, ProviderFlags, ByteColumns, NewProvider
<1>7. \A e : \A c \in ProviderSettings \cup ProviderFlags : Cell(chain', e, c) = Cell(chain, e, c)
  BY <1>3, <1>4, <1>6 DEF Cell, old
<1>8. ASSUME NEW e, NEW c \in ByteColumns
      PROVE  Cell(chain', e, c) = Cell(chain, e, c)
                + (IF e = p THEN IF c = "pendingBytes" THEN a ELSE b ELSE 0)
  <2>1. Cell(chain, e, c) \in Int
    BY ByteCell
  <2>2. CASE e # p
    <3>1. Cell(chain', e, c) = Cell(chain, e, c)
      BY <1>4, <1>6, <2>2 DEF Cell
    <3> QED
      BY <3>1, <2>1, <2>2
  <2>3. CASE e = p
    <3>1. Cell(chain, e, c) = old[c] /\ Cell(chain', e, c) = row[c]
      BY <1>4, <1>6, <2>3 DEF Cell, old
    <3>2. row[c] = old[c] + (IF c = "pendingBytes" THEN a ELSE b)
      BY <1>3 DEF ByteColumns
    <3> QED
      BY <3>1, <3>2, <2>3
  <2> QED
    BY <2>2, <2>3
<1>9. \A e : /\ Cell(chain', e, "pendingBytes") =
                   Cell(chain, e, "pendingBytes") + (IF e = p THEN a ELSE 0)
             /\ Cell(chain', e, "committedBytes") =
                   Cell(chain, e, "committedBytes") + (IF e = p THEN b ELSE 0)
  BY <1>8 DEF ByteColumns
<1> QED
  BY <1>4, <1>5, <1>7, <1>9

\* A log of a provider's bytes.
LEMMA BytesTold ==
  ASSUME IInv, NEW p \in Providers, NEW n \in Sizes, NEW event \in ByteEvents, NEW l,
         l = Log(event, p, [bytes |-> n])
  PROVE  /\ l \in PendingLog /\ l.eventName = event /\ l.entity = p
         /\ l.blockNumber = block /\ l.args.bytes = n
         /\ Typed(l) /\ OverwrittenColumns(l) = {} /\ l.eventName # "DealProposalCreated"
<1> DEFINE args == [bytes |-> n]
<1>1. /\ l \in PendingLog /\ l.eventName = event /\ l.entity = p
      /\ l.blockNumber = block /\ l.args = args
  <2>1. event \in Events /\ p \in Providers \cup Deals /\ args \in Arguments
    BY DEF Events, Arguments
  <2>2. l = Log(event, p, args)
    OBVIOUS
  <2> HIDE DEF args
  <2> QED
    BY <2>1, <2>2, LogTyped
<1>2. event \notin DealEvents \cup ValueEvents /\ event # "DealProposalCreated"
  BY DEF ByteEvents, DealEvents, ValueEvents, StateEvents
<1>3. Typed(l)
  BY <1>1, <1>2 DEF Typed
<1>4. OverwrittenColumns(l) = {}
  BY <1>1, EventColumns
<1> QED
  BY <1>1, <1>2, <1>3, <1>4

\* One of the logs moves a counter of one provider, the others move none.
Moves(logs, p, c, amount) ==
  \E j \in DOMAIN logs :
     /\ \A k \in DOMAIN logs : k # j => \A x : Delta(logs[k], x, c) = 0
     /\ \A x : Delta(logs[j], x, c) = IF x = p THEN amount ELSE 0

\* The other logs of a call are of bytes.
OthersOfBytes(logs, n) ==
  \A k \in DOMAIN logs : k # n => /\ logs[k].eventName \in ByteEvents
                                  /\ Typed(logs[k]) /\ logs[k].blockNumber = block

\* A decision of a deal moves the bytes of its provider and sets its state; its logs
\* tell both.
LEMMA DecisionTold ==
  ASSUME IInv, TypesInv, NEW d \in DOMAIN chain.deals, NEW event \in StateEvents,
         NEW l, l = Log(event, d, <<>>), NEW logs \in Seq(PendingLog), NEW p \in DOMAIN chain.providers,
         NEW n \in DOMAIN logs, logs[n] = l, OthersOfBytes(logs, n), NEW a \in Int, NEW b \in Int,
         Moves(logs, p, "pendingBytes", a), Moves(logs, p, "committedBytes", b),
         chain'.providers = Bytes(p, a, b), chain'.capabilities = chain.capabilities,
         chain'.deals = WithColumn(chain.deals, d, "state", EventNameToDealState[event])
  PROVE  Told(logs)
<1> DEFINE s == EventNameToDealState[event]
<1>1. ChainShape
  BY DEF IInv
<1>2. /\ l \in PendingLog /\ l.eventName = event /\ l.entity = d /\ l.blockNumber = block
  <2>1. event \in Events /\ d \in Providers \cup Deals /\ <<>> \in Arguments
    BY <1>1 DEF Events, Arguments, ChainShape
  <2> QED
    BY <2>1, LogTyped
<1>3. Typed(l) /\ l.eventName # "DealProposalCreated"
  BY <1>1, <1>2 DEF Typed, DealEvents, StateEvents, ValueEvents, ByteEvents, ChainShape
<1>4. \A e, c : Writes(l, e, c) <=> e = d /\ c = "state"
  BY <1>2, EventColumns DEF Writes
<1>5. Written(l, "state") = s
  BY <1>2, EventColumns
<1>6. \A k \in DOMAIN logs : k # n => \A e, c : ~Writes(logs[k], e, c)
  BY EventColumns DEF Writes, OthersOfBytes
<1>7. /\ Cell(chain', d, "state") = s
      /\ \A e : \A c \in DealSettings : e # d \/ c # "state" => Cell(chain', e, c) = Cell(chain, e, c)
      /\ \A x \in DOMAIN chain.deals : /\ x \in DOMAIN chain'.deals
                                       /\ chain'.deals[x].provider = chain.deals[x].provider
                                       /\ chain'.deals[x].totalDealSize = chain.deals[x].totalDealSize
  <2>1. PICK c0 : c0 = "state"
    OBVIOUS
  <2>2. PICK v : v = s
    OBVIOUS
  <2>3. c0 \in DealSettings /\ d \in DOMAIN chain.deals
    BY <2>1 DEF DealSettings
  <2>4. chain'.deals = WithColumn(chain.deals, d, c0, v)
    BY <2>1, <2>2
  <2>5. Cell(chain', d, c0) = v
    BY ONLY <1>1, <2>3, <2>4, DealColumnChanged
  <2>6. \A e : \A c \in DealSettings : e # d \/ c # c0 => Cell(chain', e, c) = Cell(chain, e, c)
    BY ONLY <1>1, <2>3, <2>4, DealColumnChanged
  <2>7. \A x \in DOMAIN chain.deals : /\ x \in DOMAIN chain'.deals
                                      /\ chain'.deals[x].provider = chain.deals[x].provider
                                      /\ chain'.deals[x].totalDealSize = chain.deals[x].totalDealSize
    BY ONLY <1>1, <2>3, <2>4, DealColumnChanged
  <2> QED
    BY <2>1, <2>2, <2>5, <2>6, <2>7
<1>8. /\ \A x \in DOMAIN chain'.providers : chain'.providers[x] \in ProviderRow
      /\ \A e : \A c \in ProviderSettings \cup ProviderFlags : Cell(chain', e, c) = Cell(chain, e, c)
      /\ \A e : /\ Cell(chain', e, "pendingBytes") =
                      Cell(chain, e, "pendingBytes") + (IF e = p THEN a ELSE 0)
                /\ Cell(chain', e, "committedBytes") =
                      Cell(chain, e, "committedBytes") + (IF e = p THEN b ELSE 0)
  <2>1. /\ p \in DOMAIN chain.providers /\ a \in Int /\ b \in Int
        /\ chain'.providers = Bytes(p, a, b) /\ TypesInv
    OBVIOUS
  <2> QED
    BY ONLY <2>1, BytesMoved
<1>9. \A e : Cell(chain', e, "capabilities") = Cell(chain, e, "capabilities")
  BY DEF Cell
<1> HIDE DEF s
<1>10. \A e : \A c \in Overwritten : e # d \/ c # "state" => Cell(chain', e, c) = Cell(chain, e, c)
  BY <1>7, <1>8, <1>9 DEF Overwritten
<1>11. \A k \in DOMAIN logs : /\ Typed(logs[k]) /\ logs[k].blockNumber = block
                              /\ logs[k].eventName # "DealProposalCreated"
  BY <1>2, <1>3 DEF ByteEvents, OthersOfBytes
<1>12. ASSUME NEW x \in Providers, NEW c \in ByteColumns
       PROVE  \E j \in DOMAIN logs :
                 /\ \A k \in DOMAIN logs : k # j => Delta(logs[k], x, c) = 0
                 /\ Cell(chain', x, c) = Cell(chain, x, c) + Delta(logs[j], x, c)
  <2>1. CASE c = "pendingBytes"
    BY <2>1, <1>8 DEF Moves
  <2>2. CASE c = "committedBytes"
    BY <2>2, <1>8 DEF Moves
  <2> QED
    BY <2>1, <2>2 DEF ByteColumns
<1>13. ASSUME NEW e, NEW c \in Overwritten
       PROVE  /\ \A k \in DOMAIN logs : Writes(logs[k], e, c) => Written(logs[k], c) = Cell(chain', e, c)
              /\ (\A k \in DOMAIN logs : ~Writes(logs[k], e, c)) => Cell(chain', e, c) = Cell(chain, e, c)
  BY <1>4, <1>5, <1>6, <1>7, <1>10
<1> QED
  BY <1>7, <1>8, <1>11, <1>12, <1>13 DEF Told

\* An acceptance moves the deal's bytes from one counter to the other.
LEMMA AcceptDealKeepsMirror ==
  ASSUME IInv, MirrorInv, NEW d \in Deals, AcceptDeal(d)
  PROVE  MirrorInv'
<1> DEFINE p == chain.deals[d].provider
           n == chain.deals[d].totalDealSize
           q1 == Log("PendingCapacityReleased", p, [bytes |-> n])
           q2 == Log("CapacityCommitted", p, [bytes |-> n])
           l == Log("DealAccepted", d, <<>>)
           logs == <<q1, q2, l>>
           s == EventNameToDealState["DealAccepted"]
           ds == WithColumn(chain.deals, d, "state", s)
           ps == Bytes(p, -n, n)
<1>1. s = "ACCEPTED" /\ "DealAccepted" \in StateEvents
  BY DEF EventNameToDealState, StateEvents
<1>2. d \in DOMAIN chain.deals /\ Emit(logs) /\ chain' = [chain EXCEPT !.deals = ds, !.providers = ps]
  BY <1>1 DEF AcceptDeal, InState, WithColumn
<1>3. ChainShape /\ TypesInv
  BY DEF IInv, MirrorInv
<1>4. p \in DOMAIN chain.providers /\ p \in Providers /\ n \in Sizes /\ n \in Int
  <2>1. chain.deals[d] \in DealRow
    BY <1>2, <1>3 DEF ChainShape
  <2> QED
    BY <2>1, <1>2, <1>3, ConstantsAssumption DEF ChainShape, DealRow
<1>5. l \in PendingLog /\ l.eventName = "DealAccepted"
  <2>1. "DealAccepted" \in Events /\ d \in Providers \cup Deals /\ <<>> \in Arguments
    BY DEF Events, StateEvents, Arguments
  <2> QED
    BY <2>1, LogTyped
<1> HIDE DEF p, n, ps, s, ds
<1>6. chain'.providers = ps /\ chain'.capabilities = chain.capabilities /\ chain'.deals = ds
  BY <1>2, <1>3 DEF ChainShape
<1>7. /\ q1 \in PendingLog /\ q1.eventName = "PendingCapacityReleased" /\ q1.entity = p
      /\ q1.blockNumber = block /\ q1.args.bytes = n /\ Typed(q1)
  BY <1>4, BytesTold DEF ByteEvents
<1>8. /\ q2 \in PendingLog /\ q2.eventName = "CapacityCommitted" /\ q2.entity = p
      /\ q2.blockNumber = block /\ q2.args.bytes = n /\ Typed(q2)
  BY <1>4, BytesTold DEF ByteEvents
<1>9. Typed(l)
  BY <1>5 DEF Typed, Log, DealEvents, StateEvents, ValueEvents, ByteEvents
<1> HIDE DEF q1, q2, l
<1>10. /\ logs \in Seq(PendingLog) /\ DOMAIN logs = 1..3
       /\ logs[1] = q1 /\ logs[2] = q2 /\ logs[3] = l
  BY <1>5, <1>7, <1>8
<1> HIDE DEF logs
<1>11. \A x : /\ Delta(q1, x, "pendingBytes") = IF x = p THEN -n ELSE 0
              /\ Delta(q1, x, "committedBytes") = 0
  BY <1>7, ByteDeltas
<1>12. \A x : /\ Delta(q2, x, "committedBytes") = IF x = p THEN n ELSE 0
              /\ Delta(q2, x, "pendingBytes") = 0
  BY <1>8, ByteDeltas
<1>13. \A x : Delta(l, x, "pendingBytes") = 0 /\ Delta(l, x, "committedBytes") = 0
  BY <1>5, <1>9, ByteDeltas DEF ByteEvents, ByteColumns
<1>14. Moves(logs, p, "pendingBytes", -n)
  <2>1. 1 \in DOMAIN logs /\ \A k \in DOMAIN logs : k # 1 => logs[k] = q2 \/ logs[k] = l
    BY <1>10
  <2> QED
    BY <2>1, <1>10, <1>11, <1>12, <1>13 DEF Moves
<1>15. Moves(logs, p, "committedBytes", n)
  <2>1. 2 \in DOMAIN logs /\ \A k \in DOMAIN logs : k # 2 => logs[k] = q1 \/ logs[k] = l
    BY <1>10
  <2> QED
    BY <2>1, <1>10, <1>11, <1>12, <1>13 DEF Moves
<1>16. 3 \in DOMAIN logs /\ logs[3] = l /\ OthersOfBytes(logs, 3)
  <2>1. \A k \in DOMAIN logs : k # 3 => logs[k] = q1 \/ logs[k] = q2
    BY <1>10
  <2> QED
    BY <2>1, <1>7, <1>8, <1>10 DEF ByteEvents, OthersOfBytes
<1>17. PICK a \in Int : a = -n
  BY <1>4
<1>18. /\ l = Log("DealAccepted", d, <<>>) /\ ps = Bytes(p, a, n)
       /\ ds = WithColumn(chain.deals, d, "state", EventNameToDealState["DealAccepted"])
  BY <1>17 DEF l, ps, ds, s
<1>19. Told(logs)
  BY ONLY IInv, <1>1, <1>2, <1>3, <1>4, <1>6, <1>10, <1>14, <1>15, <1>16, <1>17, <1>18, DecisionTold
<1> QED
  BY <1>2, <1>19, CallKeepsMirror

\* A rejection releases the deal's pending bytes.
LEMMA RejectDealKeepsMirror ==
  ASSUME IInv, MirrorInv, NEW d \in Deals, RejectDeal(d)
  PROVE  MirrorInv'
<1> DEFINE p == chain.deals[d].provider
           n == chain.deals[d].totalDealSize
           q == Log("PendingCapacityReleased", p, [bytes |-> n])
           l == Log("DealRejected", d, <<>>)
           logs == <<q, l>>
           s == EventNameToDealState["DealRejected"]
           ds == WithColumn(chain.deals, d, "state", s)
           ps == Bytes(p, -n, 0)
<1>1. s = "REJECTED" /\ "DealRejected" \in StateEvents
  BY DEF EventNameToDealState, StateEvents
<1>2. d \in DOMAIN chain.deals /\ Emit(logs) /\ chain' = [chain EXCEPT !.deals = ds, !.providers = ps]
  BY <1>1 DEF RejectDeal, InState, WithColumn
<1>3. ChainShape /\ TypesInv
  BY DEF IInv, MirrorInv
<1>4. p \in DOMAIN chain.providers /\ p \in Providers /\ n \in Sizes /\ n \in Int
  <2>1. chain.deals[d] \in DealRow
    BY <1>2, <1>3 DEF ChainShape
  <2> QED
    BY <2>1, <1>2, <1>3, ConstantsAssumption DEF ChainShape, DealRow
<1>5. l \in PendingLog /\ l.eventName = "DealRejected"
  <2>1. "DealRejected" \in Events /\ d \in Providers \cup Deals /\ <<>> \in Arguments
    BY DEF Events, StateEvents, Arguments
  <2> QED
    BY <2>1, LogTyped
<1> HIDE DEF p, n, ps, s, ds
<1>6. chain'.providers = ps /\ chain'.capabilities = chain.capabilities /\ chain'.deals = ds
  BY <1>2, <1>3 DEF ChainShape
<1>7. /\ q \in PendingLog /\ q.eventName = "PendingCapacityReleased" /\ q.entity = p
      /\ q.blockNumber = block /\ q.args.bytes = n /\ Typed(q)
  BY <1>4, BytesTold DEF ByteEvents
<1>8. Typed(l)
  BY <1>5 DEF Typed, Log, DealEvents, StateEvents, ValueEvents, ByteEvents
<1> HIDE DEF q, l
<1>9. logs \in Seq(PendingLog) /\ DOMAIN logs = 1..2 /\ logs[1] = q /\ logs[2] = l
  BY <1>5, <1>7
<1> HIDE DEF logs
<1>10. \A x : /\ Delta(q, x, "pendingBytes") = IF x = p THEN -n ELSE 0
              /\ Delta(q, x, "committedBytes") = 0
  BY <1>7, ByteDeltas
<1>11. \A x : Delta(l, x, "pendingBytes") = 0 /\ Delta(l, x, "committedBytes") = 0
  BY <1>5, <1>8, ByteDeltas DEF ByteEvents, ByteColumns
<1>12. 1 \in DOMAIN logs /\ \A k \in DOMAIN logs : k # 1 => logs[k] = l
  BY <1>9
<1>13. Moves(logs, p, "pendingBytes", -n) /\ Moves(logs, p, "committedBytes", 0)
  BY <1>9, <1>10, <1>11, <1>12 DEF Moves
<1>14. 2 \in DOMAIN logs /\ logs[2] = l /\ OthersOfBytes(logs, 2)
  <2>1. \A k \in DOMAIN logs : k # 2 => logs[k] = q
    BY <1>9
  <2> QED
    BY <2>1, <1>7, <1>9 DEF ByteEvents, OthersOfBytes
<1>15. PICK a \in Int : a = -n
  BY <1>4
<1>16. /\ l = Log("DealRejected", d, <<>>) /\ ps = Bytes(p, a, 0) /\ 0 \in Int
       /\ ds = WithColumn(chain.deals, d, "state", EventNameToDealState["DealRejected"])
  BY <1>15 DEF l, ps, ds, s
<1>17. Told(logs)
  BY ONLY IInv, <1>1, <1>2, <1>3, <1>4, <1>6, <1>9, <1>13, <1>14, <1>15, <1>16, DecisionTold
<1> QED
  BY <1>2, <1>17, CallKeepsMirror

\* A termination releases the deal's committed bytes.
LEMMA TerminateDealKeepsMirror ==
  ASSUME IInv, MirrorInv, NEW d \in Deals, TerminateDeal(d)
  PROVE  MirrorInv'
<1> DEFINE p == chain.deals[d].provider
           n == chain.deals[d].totalDealSize
           q == Log("CapacityReleased", p, [bytes |-> n])
           l == Log("DealTerminated", d, <<>>)
           logs == <<q, l>>
           s == EventNameToDealState["DealTerminated"]
           ds == WithColumn(chain.deals, d, "state", s)
           ps == Bytes(p, 0, -n)
<1>1. s = "TERMINATED" /\ "DealTerminated" \in StateEvents
  BY DEF EventNameToDealState, StateEvents
<1>2. d \in DOMAIN chain.deals /\ Emit(logs) /\ chain' = [chain EXCEPT !.deals = ds, !.providers = ps]
  BY <1>1 DEF TerminateDeal, InState, WithColumn
<1>3. ChainShape /\ TypesInv
  BY DEF IInv, MirrorInv
<1>4. p \in DOMAIN chain.providers /\ p \in Providers /\ n \in Sizes /\ n \in Int
  <2>1. chain.deals[d] \in DealRow
    BY <1>2, <1>3 DEF ChainShape
  <2> QED
    BY <2>1, <1>2, <1>3, ConstantsAssumption DEF ChainShape, DealRow
<1>5. l \in PendingLog /\ l.eventName = "DealTerminated"
  <2>1. "DealTerminated" \in Events /\ d \in Providers \cup Deals /\ <<>> \in Arguments
    BY DEF Events, StateEvents, Arguments
  <2> QED
    BY <2>1, LogTyped
<1> HIDE DEF p, n, ps, s, ds
<1>6. chain'.providers = ps /\ chain'.capabilities = chain.capabilities /\ chain'.deals = ds
  BY <1>2, <1>3 DEF ChainShape
<1>7. /\ q \in PendingLog /\ q.eventName = "CapacityReleased" /\ q.entity = p
      /\ q.blockNumber = block /\ q.args.bytes = n /\ Typed(q)
  BY <1>4, BytesTold DEF ByteEvents
<1>8. Typed(l)
  BY <1>5 DEF Typed, Log, DealEvents, StateEvents, ValueEvents, ByteEvents
<1> HIDE DEF q, l
<1>9. logs \in Seq(PendingLog) /\ DOMAIN logs = 1..2 /\ logs[1] = q /\ logs[2] = l
  BY <1>5, <1>7
<1> HIDE DEF logs
<1>10. \A x : /\ Delta(q, x, "committedBytes") = IF x = p THEN -n ELSE 0
              /\ Delta(q, x, "pendingBytes") = 0
  BY <1>7, ByteDeltas
<1>11. \A x : Delta(l, x, "pendingBytes") = 0 /\ Delta(l, x, "committedBytes") = 0
  BY <1>5, <1>8, ByteDeltas DEF ByteEvents, ByteColumns
<1>12. 1 \in DOMAIN logs /\ \A k \in DOMAIN logs : k # 1 => logs[k] = l
  BY <1>9
<1>13. Moves(logs, p, "committedBytes", -n) /\ Moves(logs, p, "pendingBytes", 0)
  BY <1>9, <1>10, <1>11, <1>12 DEF Moves
<1>14. 2 \in DOMAIN logs /\ logs[2] = l /\ OthersOfBytes(logs, 2)
  <2>1. \A k \in DOMAIN logs : k # 2 => logs[k] = q
    BY <1>9
  <2> QED
    BY <2>1, <1>7, <1>9 DEF ByteEvents, OthersOfBytes
<1>15. PICK a \in Int : a = -n
  BY <1>4
<1>16. /\ l = Log("DealTerminated", d, <<>>) /\ ps = Bytes(p, 0, a) /\ 0 \in Int
       /\ ds = WithColumn(chain.deals, d, "state", EventNameToDealState["DealTerminated"])
  BY <1>15 DEF l, ps, ds, s
<1>17. Told(logs)
  BY ONLY IInv, <1>1, <1>2, <1>3, <1>4, <1>6, <1>9, <1>13, <1>14, <1>15, <1>16, DecisionTold
<1> QED
  BY <1>2, <1>17, CallKeepsMirror

-----------------------------------------------------------------------------
(* Calls that add rows. *)

\* A new provider has a new row's columns on both sides.
LEMMA RegisterProviderKeepsMirror ==
  ASSUME IInv, MirrorInv, NEW p \in Providers, RegisterProvider(p)
  PROVE  MirrorInv'
<1> DEFINE l == Log("ProviderRegistered", p, <<>>)
           logs == <<l>>
           ps == Spread(chain.providers, [x \in {p} |-> NewProvider])
           cs == Spread(chain.capabilities, [x \in {p} |-> Default])
<1>1. /\ p \notin DOMAIN chain.providers /\ Emit(logs)
      /\ chain' = [chain EXCEPT !.providers = ps, !.capabilities = cs]
  BY DEF RegisterProvider, Registered
<1>2. ChainShape /\ TypesInv
  BY DEF IInv, MirrorInv
<1>3. /\ DOMAIN ps = DOMAIN chain.providers \cup {p} /\ ps[p] = NewProvider
      /\ \A x \in DOMAIN chain.providers : ps[x] = chain.providers[x]
  BY <1>1 DEF Spread
<1>4. /\ DOMAIN cs = DOMAIN chain.capabilities \cup {p} /\ cs[p] = Default
      /\ \A x \in DOMAIN chain.capabilities : cs[x] = chain.capabilities[x]
  BY <1>1, <1>2 DEF Spread, ChainShape
<1> HIDE DEF ps, cs
<1>5. chain'.providers = ps /\ chain'.capabilities = cs /\ chain'.deals = chain.deals
  BY <1>1, <1>2 DEF ChainShape
<1>6. l \in PendingLog /\ l.eventName = "ProviderRegistered" /\ l.entity = p /\ l.blockNumber = block
  <2>1. "ProviderRegistered" \in Events /\ p \in Providers \cup Deals /\ <<>> \in Arguments
    BY DEF Events, RowEvents, Arguments
  <2> QED
    BY <2>1, LogTyped
<1>7. Typed(l)
  BY <1>6 DEF Typed, DealEvents, StateEvents, ValueEvents, ByteEvents
<1>8. \A e, c : ~Writes(l, e, c)
  BY <1>6, EventColumns DEF Writes, RowEvents
<1>9. \A x : \A c \in ByteColumns : Delta(l, x, c) = 0
  BY <1>6, <1>7, ByteDeltas DEF ByteEvents
<1> HIDE DEF l
<1>10. logs \in Seq(PendingLog) /\ DOMAIN logs = {1} /\ logs[1] = l
  BY <1>6
<1> HIDE DEF logs
<1>11. ASSUME NEW e, NEW c \in Overwritten \cup ByteColumns
       PROVE  Cell(chain', e, c) = Cell(chain, e, c)
  <2>1. CASE c = "capabilities"
    BY <2>1, <1>1, <1>2, <1>4, <1>5 DEF Cell, ChainShape
  <2>2. CASE c # "capabilities" /\ c \in DOMAIN NewProvider
    BY <2>2, <1>1, <1>3, <1>5 DEF Cell
  <2>3. CASE c # "capabilities" /\ c \notin DOMAIN NewProvider
    BY <2>3, <1>5 DEF Cell
  <2> QED
    BY <2>1, <2>2, <2>3
<1>12. ASSUME NEW x \in Providers, NEW c \in ByteColumns
       PROVE  Cell(chain', x, c) = Cell(chain, x, c) + 0
  <2>1. Cell(chain, x, c) \in Int
    BY <1>2, ByteCell
  <2> QED
    BY <2>1, <1>11
<1>13. \A x \in DOMAIN chain'.providers : chain'.providers[x] \in ProviderRow
  <2>1. NewProvider \in ProviderRow
    BY DEF NewProvider, ProviderRow, Default
  <2> QED
    BY <2>1, <1>2, <1>3, <1>5 DEF TypesInv
<1>14. Told(logs)
  BY <1>5, <1>6, <1>7, <1>8, <1>9, <1>10, <1>11, <1>12, <1>13 DEF Told
<1> QED
  BY <1>1, <1>14, CallKeepsMirror

\* A proposal fixes two columns of a deal and reserves its bytes.
LEMMA ProposeDealKeepsMirror ==
  ASSUME IInv, MirrorInv, NEW p \in Providers, NEW d \in Deals, NEW size \in Sizes,
         ProposeDeal(d, p, size)
  PROVE  MirrorInv'
<1> DEFINE args == [provider |-> p, totalDealSize |-> size, manifestLocation |-> Default]
           q == Log("PendingCapacityReserved", p, [bytes |-> size])
           l == Log("DealProposalCreated", d, args)
           logs == <<q, l>>
           deal == NewDeal(p, size, Default)
           ds == Spread(chain.deals, [x \in {d} |-> deal])
           ps == Bytes(p, size, 0)
<1>1. /\ d \notin DOMAIN chain.deals /\ p \in DOMAIN chain.providers /\ Emit(logs)
      /\ chain' = [chain EXCEPT !.deals = ds, !.providers = ps]
  BY DEF ProposeDeal, Registered
<1>2. ChainShape /\ TypesInv /\ size \in Int
  BY ConstantsAssumption DEF IInv, MirrorInv
<1>3. args \in Arguments /\ args.provider = p /\ args.totalDealSize = size /\ args.manifestLocation = Default
  BY DEF Arguments
<1>4. deal.provider = p /\ deal.totalDealSize = size
      /\ \A c \in DealSettings : deal[c] = NewDeal(Default, 0, Default)[c]
  BY DEF NewDeal, DealSettings
<1> HIDE DEF args, deal
<1>5. /\ DOMAIN ds = DOMAIN chain.deals \cup {d} /\ ds[d] = deal
      /\ \A x \in DOMAIN chain.deals : ds[x] = chain.deals[x]
  BY <1>1 DEF Spread
<1> HIDE DEF ds, ps
<1>6. chain'.providers = ps /\ chain'.capabilities = chain.capabilities /\ chain'.deals = ds
  BY <1>1, <1>2 DEF ChainShape
<1>7. /\ q \in PendingLog /\ q.eventName = "PendingCapacityReserved" /\ q.entity = p
      /\ q.blockNumber = block /\ q.args.bytes = size /\ Typed(q)
  BY BytesTold DEF ByteEvents
<1>8. /\ l \in PendingLog /\ l.eventName = "DealProposalCreated" /\ l.entity = d
      /\ l.blockNumber = block /\ l.args = args
  <2>1. "DealProposalCreated" \in Events /\ d \in Providers \cup Deals
    BY DEF Events, RowEvents
  <2> QED
    BY <2>1, <1>3, LogTyped
<1> HIDE DEF q, l
<1>9. Typed(l)
  BY <1>3, <1>8 DEF Typed, DealEvents, StateEvents, ValueEvents, ByteEvents
<1>10. logs \in Seq(PendingLog) /\ DOMAIN logs = 1..2 /\ logs[1] = q /\ logs[2] = l
  BY <1>7, <1>8
<1> HIDE DEF logs
<1>11. \A k \in DOMAIN logs : logs[k] = q \/ logs[k] = l
  BY <1>10
<1>12. \A k \in DOMAIN logs : \A e, c : ~Writes(logs[k], e, c)
  <2>1. OverwrittenColumns(q) = {} /\ OverwrittenColumns(l) = {}
    BY <1>7, <1>8, EventColumns DEF RowEvents, ByteEvents
  <2> QED
    BY <2>1, <1>11 DEF Writes
<1>13. \A x : /\ Delta(q, x, "pendingBytes") = IF x = p THEN size ELSE 0
              /\ Delta(q, x, "committedBytes") = 0
  BY <1>7, ByteDeltas
<1>14. \A x : \A c \in ByteColumns : Delta(l, x, c) = 0
  BY <1>8, <1>9, ByteDeltas DEF ByteEvents
<1>15. /\ \A x \in DOMAIN chain'.providers : chain'.providers[x] \in ProviderRow
       /\ \A e : \A c \in ProviderSettings \cup ProviderFlags : Cell(chain', e, c) = Cell(chain, e, c)
       /\ \A e : /\ Cell(chain', e, "pendingBytes") =
                       Cell(chain, e, "pendingBytes") + (IF e = p THEN size ELSE 0)
                 /\ Cell(chain', e, "committedBytes") =
                       Cell(chain, e, "committedBytes") + (IF e = p THEN 0 ELSE 0)
  <2>1. chain'.providers = Bytes(p, size, 0) /\ 0 \in Int
    BY <1>6 DEF ps
  <2> QED
    BY ONLY <2>1, <1>1, <1>2, BytesMoved
<1>16. ASSUME NEW x \in Providers, NEW c \in ByteColumns
       PROVE  \E j \in DOMAIN logs :
                 /\ \A k \in DOMAIN logs : k # j => Delta(logs[k], x, c) = 0
                 /\ Cell(chain', x, c) = Cell(chain, x, c) + Delta(logs[j], x, c)
  <2>1. Cell(chain', x, c) = Cell(chain, x, c) + Delta(q, x, c)
    BY <1>13, <1>15 DEF ByteColumns
  <2>2. 1 \in DOMAIN logs /\ \A k \in DOMAIN logs : k # 1 => logs[k] = l
    BY <1>10
  <2> QED
    BY <2>1, <2>2, <1>10, <1>14
<1>17. ASSUME NEW e, NEW c \in Overwritten PROVE Cell(chain', e, c) = Cell(chain, e, c)
  <2>1. CASE c \in ProviderSettings \cup ProviderFlags
    BY <2>1, <1>15
  <2>2. CASE c = "capabilities"
    BY <2>2, <1>6 DEF Cell
  <2>3. CASE c \in DealSettings
    <3>1. c # "capabilities" /\ c \notin DOMAIN NewProvider
      BY <2>3 DEF DealSettings, NewProvider
    <3> QED
      BY <2>3, <3>1, <1>1, <1>4, <1>5, <1>6 DEF Cell
  <2> QED
    BY <2>1, <2>2, <2>3 DEF Overwritten
<1>18. \A x \in DOMAIN chain.deals : /\ x \in DOMAIN chain'.deals
                                     /\ chain'.deals[x].provider = chain.deals[x].provider
                                     /\ chain'.deals[x].totalDealSize = chain.deals[x].totalDealSize
  BY <1>5, <1>6
<1>19. \A k \in DOMAIN logs : /\ Typed(logs[k]) /\ logs[k].blockNumber = block
                              /\ logs[k].eventName = "DealProposalCreated" => logs[k] = l
  BY <1>7, <1>8, <1>9, <1>11
<1>20. l.entity \in DOMAIN chain'.deals /\ chain'.deals[l.entity].provider = l.args.provider
       /\ chain'.deals[l.entity].totalDealSize = l.args.totalDealSize
  BY <1>3, <1>4, <1>5, <1>6, <1>8
<1>21. Told(logs)
  BY <1>10, <1>12, <1>15, <1>16, <1>17, <1>18, <1>19, <1>20 DEF Told
<1> QED
  BY <1>1, <1>21, CallKeepsMirror

-----------------------------------------------------------------------------
(* The theorems of the mirror. *)

\* A step that leaves contracts, logs and tables alone keeps the mirror.
LEMMA StutterKeepsMirror ==
  ASSUME MirrorInv, UNCHANGED <<chain, pending, tables, entangled>>
  PROVE  MirrorInv'
<1>1. TypesInv /\ FixedInv /\ BytesInv /\ ColumnInv
  BY DEF MirrorInv
<1>2. \A e, c : (Cell(tables, e, c))' = Cell(tables, e, c) /\ (Cell(chain, e, c))' = Cell(chain, e, c)
  BY DEF Cell
<1>3. TypesInv'
  <2>1. \A i \in DOMAIN pending' : (Typed(pending[i]))' <=> Typed(pending[i])
    BY DEF Typed
  <2> QED
    BY <1>1, <2>1 DEF TypesInv
<1>4. FixedInv'
  BY <1>1 DEF FixedInv
<1>5. BytesInv'
  <2>1. \A p, c : \A i \in DOMAIN pending' : (Delta(pending[i], p, c))' = Delta(pending[i], p, c)
    BY DEF Delta
  <2> QED
    BY <1>1, <1>2, <2>1 DEF BytesInv
<1>6. ColumnInv'
  <2>1. \A e, c : \A i \in DOMAIN pending' : /\ (Writes(pending[i], e, c))' <=> Writes(pending[i], e, c)
                                             /\ (Written(pending[i], c))' = Written(pending[i], c)
    BY DEF Writes, Written
  <2> QED
    BY <1>1, <1>2, <2>1 DEF ColumnInv
<1> QED
  BY <1>3, <1>4, <1>5, <1>6 DEF MirrorInv

\* In every batching of the logs the tables follow the contracts: the pending logs
\* lead from each byte counter to the contract's, and the last of those that
\* overwrite a column, or else the table, holds the contract's value.
THEOREM MirrorInvariance == Spec => []MirrorInv
<1>1. Init => MirrorInv
  <2> SUFFICES ASSUME Init PROVE MirrorInv
    OBVIOUS
  <2>1. /\ pending = <<>> /\ chain.providers = <<>> /\ chain.capabilities = <<>> /\ chain.deals = <<>>
        /\ tables.providers = <<>> /\ tables.capabilities = <<>> /\ tables.deals = <<>>
    BY DEF Init
  <2>2. DOMAIN <<>> = {} /\ Len(<<>>) = 0
    OBVIOUS
  <2>3. TypesInv /\ FixedInv
    BY <2>1, <2>2 DEF TypesInv, FixedInv
  <2>4. \A e, c : Cell(tables, e, c) = Cell(chain, e, c)
    BY <2>1 DEF Cell
  <2>5. ColumnInv
    BY <2>1, <2>2, <2>4 DEF ColumnInv
  <2>6. BytesInv
    <3> SUFFICES ASSUME NEW p \in Providers, NEW c \in ByteColumns
                 PROVE  \E sum \in [0..Len(pending) -> Int] :
                           /\ sum[0] = Cell(tables, p, c)
                           /\ \A i \in 1..Len(pending) : sum[i] = sum[i - 1] + Delta(pending[i], p, c)
                           /\ sum[Len(pending)] = Cell(chain, p, c)
      BY DEF BytesInv
    <3>1. Cell(chain, p, c) \in Int
      BY <2>3, ByteCell
    <3> DEFINE sum == [i \in 0..0 |-> Cell(chain, p, c)]
    <3>2. sum \in [0..0 -> Int] /\ sum[0] = Cell(chain, p, c)
      BY <3>1
    <3>3. Len(pending) = 0
      BY <2>1, <2>2
    <3> HIDE DEF sum
    <3> QED
      BY <3>2, <3>3, <2>4
  <2> QED
    BY <2>3, <2>5, <2>6 DEF MirrorInv
<1>2. IInv /\ IInv' /\ MirrorInv /\ [Next]_vars => MirrorInv'
  <2> SUFFICES ASSUME IInv, IInv', MirrorInv, [Next]_vars PROVE MirrorInv'
    OBVIOUS
  <2>1. CASE NextBlock
    BY <2>1, StutterKeepsMirror DEF NextBlock
  <2>2. ASSUME NEW p \in Providers, RegisterProvider(p) PROVE MirrorInv'
    BY <2>2, RegisterProviderKeepsMirror
  <2>3. ASSUME NEW p \in Providers, NEW v \in Values, UpdateCapabilities(p, v) PROVE MirrorInv'
    BY <2>3, UpdateCapabilitiesKeepsMirror
  <2>4. ASSUME NEW p \in Providers, NEW s \in Settings, NEW v \in Values, UpdateSetting(p, s, v)
        PROVE  MirrorInv'
    BY <2>4, UpdateSettingKeepsMirror
  <2>5. ASSUME NEW p \in Providers, NEW f \in DOMAIN FlagEvents, ToggleFlag(p, f) PROVE MirrorInv'
    BY <2>5, ToggleFlagKeepsMirror
  <2>6. ASSUME NEW p \in Providers, NEW d \in Deals, NEW n \in Sizes, ProposeDeal(d, p, n)
        PROVE  MirrorInv'
    BY <2>6, ProposeDealKeepsMirror
  <2>7. ASSUME NEW d \in Deals, AcceptDeal(d) PROVE MirrorInv'
    BY <2>7, AcceptDealKeepsMirror
  <2>8. ASSUME NEW d \in Deals, RejectDeal(d) PROVE MirrorInv'
    BY <2>8, RejectDealKeepsMirror
  <2>9. ASSUME NEW d \in Deals, CompleteDeal(d) PROVE MirrorInv'
    BY <2>9, CompleteDealKeepsMirror
  <2>10. ASSUME NEW d \in Deals, TerminateDeal(d) PROVE MirrorInv'
    BY <2>10, TerminateDealKeepsMirror
  <2>11. ASSUME NEW d \in Deals, NEW v \in Values, UpdateDeal(d, "RailIdUpdated", "railId", v)
         PROVE  MirrorInv'
    BY <2>11, UpdateDealKeepsMirror
  <2>12. ASSUME NEW d \in Deals, NEW v \in Values,
                UpdateDeal(d, "ManifestLocationUpdated", "manifestLocation", v)
         PROVE  MirrorInv'
    BY <2>12, UpdateDealKeepsMirror
  <2>13. ASSUME NEW b \in 1..MaxBlock, Index(b) PROVE MirrorInv'
    <3>1. b \in Nat
      BY ConstantsAssumption
    <3> QED
      BY <3>1, <2>13, IndexKeepsMirror
  <2>14. CASE UNCHANGED vars
    BY <2>14, StutterKeepsMirror DEF vars
  <2> QED
    BY <2>1, <2>2, <2>3, <2>4, <2>5, <2>6, <2>7, <2>8, <2>9, <2>10, <2>11, <2>12, <2>13, <2>14
       DEF Next
<1> QED
  BY <1>1, <1>2, Invariance, PTL DEF Spec

\* When all the logs are indexed, every cell of the tables is the contract's, but for
\* the overwritten columns of a row that two logs of one batch wrote.
LEMMA CaughtUpCells ==
  ASSUME IInv, MirrorInv, CaughtUp
  PROVE  /\ \A p \in Providers, c \in ByteColumns : Cell(tables, p, c) = Cell(chain, p, c)
         /\ \A e \in (Providers \cup Deals) \ entangled, c \in Overwritten :
               Cell(tables, e, c) = Cell(chain, e, c)
<1>1. pending = <<>> /\ Len(pending) = 0 /\ DOMAIN pending = {}
  BY DEF CaughtUp
<1>2. BytesInv /\ ColumnInv
  BY DEF MirrorInv
<1>3. \A p \in Providers, c \in ByteColumns : Cell(tables, p, c) = Cell(chain, p, c)
  BY <1>1, <1>2 DEF BytesInv
<1>4. \A e \in (Providers \cup Deals) \ entangled, c \in Overwritten :
         Cell(tables, e, c) = Cell(chain, e, c)
  BY <1>1, <1>2 DEF ColumnInv
<1> QED
  BY <1>3, <1>4

\* When all the logs are indexed, the tables have the rows of the contracts.
LEMMA CaughtUpRows ==
  ASSUME IInv, CaughtUp
  PROVE  /\ DOMAIN tables.providers = DOMAIN chain.providers
         /\ DOMAIN tables.capabilities = DOMAIN chain.capabilities
         /\ DOMAIN tables.deals = DOMAIN chain.deals
<1>1. DOMAIN pending = {}
  BY DEF CaughtUp
<1>2. \A e \in Providers \cup Deals : Known(e) <=> Present(e)
  BY <1>1 DEF IInv, RowsInv, Inserted
<1>3. /\ DOMAIN chain.providers \subseteq Providers /\ DOMAIN tables.providers \subseteq Providers
      /\ DOMAIN chain.deals \subseteq Deals /\ DOMAIN tables.deals \subseteq Deals
      /\ DOMAIN chain.capabilities = DOMAIN chain.providers
      /\ DOMAIN tables.capabilities = DOMAIN tables.providers
  BY DEF IInv, ChainShape, TablesShape
<1>4. Providers \cap Deals = {}
  BY ConstantsAssumption
<1> QED
  BY <1>2, <1>3, <1>4 DEF Known, Present

\* The byte counters are those of the contract, in any batching
\* (prepareProvidersUpdates() and mergeBigIntFieldUpdate()).
THEOREM BytesMirrorChainCorrect == Spec => []BytesMirrorChain
<1>1. IInv /\ MirrorInv => BytesMirrorChain
  <2> SUFFICES ASSUME IInv, MirrorInv, CaughtUp, NEW p \in DOMAIN tables.providers
               PROVE  /\ tables.providers[p].committedBytes = chain.providers[p].committedBytes
                      /\ tables.providers[p].pendingBytes = chain.providers[p].pendingBytes
    BY DEF BytesMirrorChain
  <2>1. p \in DOMAIN chain.providers /\ p \in Providers
    BY CaughtUpRows DEF IInv, TablesShape
  <2>2. ASSUME NEW c \in ByteColumns PROVE tables.providers[p][c] = chain.providers[p][c]
    <3>1. Cell(tables, p, c) = Cell(chain, p, c)
      BY <2>1, CaughtUpCells
    <3>2. Cell(tables, p, c) = tables.providers[p][c] /\ Cell(chain, p, c) = chain.providers[p][c]
      BY <2>1, Cells
    <3> QED
      BY <3>1, <3>2
  <2> QED
    BY <2>2 DEF ByteColumns
<1> QED
  BY <1>1, Invariance, MirrorInvariance, PTL

\* Every row of the contracts has its row in the tables, which is equal unless two
\* logs of one batch overwrote the same column of it (the prepare...() methods).
THEOREM RowsMirrorChainCorrect == Spec => []RowsMirrorChain
<1>1. IInv /\ MirrorInv => RowsMirrorChain
  <2> SUFFICES ASSUME IInv, MirrorInv, CaughtUp
               PROVE  /\ DOMAIN tables.providers = DOMAIN chain.providers
                      /\ DOMAIN tables.deals = DOMAIN chain.deals
                      /\ \A p \in DOMAIN chain.providers \ entangled :
                            /\ tables.providers[p] = chain.providers[p]
                            /\ tables.capabilities[p] = chain.capabilities[p]
                      /\ \A d \in DOMAIN chain.deals \ entangled : tables.deals[d] = chain.deals[d]
    BY DEF RowsMirrorChain
  <2>1. /\ DOMAIN tables.providers = DOMAIN chain.providers
        /\ DOMAIN tables.capabilities = DOMAIN chain.capabilities
        /\ DOMAIN tables.deals = DOMAIN chain.deals
    BY CaughtUpRows
  <2>2. ChainShape /\ TypesInv /\ FixedInv
    BY DEF IInv, MirrorInv
  <2>3. ASSUME NEW p \in DOMAIN chain.providers \ entangled
        PROVE  /\ tables.providers[p] = chain.providers[p]
               /\ tables.capabilities[p] = chain.capabilities[p]
    <3>1. p \in Providers /\ p \in DOMAIN chain.providers /\ p \in DOMAIN chain.capabilities
      BY <2>2, <2>3 DEF ChainShape
    <3>2. \A c \in Overwritten \cup ByteColumns : Cell(tables, p, c) = Cell(chain, p, c)
      BY <2>3, <3>1, CaughtUpCells
    <3>3. ASSUME NEW c \in ProviderSettings \cup ProviderFlags \cup ByteColumns
          PROVE  tables.providers[p][c] = chain.providers[p][c]
      <4>1. Cell(tables, p, c) = Cell(chain, p, c)
        BY <3>2 DEF Overwritten
      <4>2. Cell(tables, p, c) = tables.providers[p][c] /\ Cell(chain, p, c) = chain.providers[p][c]
        BY <2>1, <3>1, Cells
      <4> QED
        BY <4>1, <4>2
    <3>4. tables.providers[p] \in ProviderRow /\ chain.providers[p] \in ProviderRow
      BY <2>1, <2>2, <3>1 DEF TypesInv
    <3>5. tables.providers[p] = chain.providers[p]
      BY <3>3, <3>4 DEF ProviderRow, ProviderSettings, ProviderFlags, ByteColumns
    <3>6. Cell(tables, p, "capabilities") = Cell(chain, p, "capabilities")
      BY <3>2 DEF Overwritten
    <3> QED
      BY <3>1, <3>5, <3>6, <2>1 DEF Cell
  <2>4. ASSUME NEW d \in DOMAIN chain.deals \ entangled
        PROVE  tables.deals[d] = chain.deals[d]
    <3>1. d \in Deals /\ d \in DOMAIN chain.deals
      BY <2>2, <2>4 DEF ChainShape
    <3>2. ASSUME NEW c \in DealSettings PROVE tables.deals[d][c] = chain.deals[d][c]
      <4>1. Cell(tables, d, c) = Cell(chain, d, c)
        BY <2>4, <3>1, CaughtUpCells DEF Overwritten
      <4>2. Cell(tables, d, c) = tables.deals[d][c] /\ Cell(chain, d, c) = chain.deals[d][c]
        BY <2>1, <3>1, Cells
      <4> QED
        BY <4>1, <4>2
    <3>3. tables.deals[d].provider = chain.deals[d].provider
          /\ tables.deals[d].totalDealSize = chain.deals[d].totalDealSize
      BY <2>1, <2>2, <3>1 DEF FixedInv
    <3>4. tables.deals[d] \in DealRow /\ chain.deals[d] \in DealRow
      BY <2>1, <2>2, <3>1 DEF TypesInv, ChainShape
    <3> QED
      BY <3>2, <3>3, <3>4 DEF DealRow, DealSettings
  <2> QED
    BY <2>1, <2>3, <2>4
<1> QED
  BY <1>1, Invariance, MirrorInvariance, PTL

\* The tables of providers, deals and their states are typed and mirror the contracts,
\* for every set of them, every sequence of calls and every batching of the logs.
THEOREM DealTablesMirrorChainCorrect == Spec => []DealTablesMirrorChain
<1>1. IInv /\ MirrorInv => TypeOK
  <2> SUFFICES ASSUME IInv, MirrorInv PROVE TypeOK
    OBVIOUS
  <2>1. \A d \in DOMAIN tables.deals : tables.deals[d].state \in States
    BY DEF MirrorInv, TypesInv, DealRow
  <2> QED
    BY <2>1 DEF MirrorInv, TypesInv, IInv, TablesShape, HistoryInv, TypeOK
<1>2. TypeOK /\ BytesMirrorChain /\ HistoryMirrorsChain /\ RowsMirrorChain /\ DealsHaveTerms
         => DealTablesMirrorChain
  BY DEF DealTablesMirrorChain
<1> QED
  BY <1>1, <1>2, Invariance, MirrorInvariance, BytesMirrorChainCorrect, HistoryMirrorsChainCorrect,
     RowsMirrorChainCorrect, DealsHaveTermsCorrect, PTL

-----------------------------------------------------------------------------
(* Bags of payments. *)

\* How often an element is in a bag.
Copies(x, B) == IF x \in DOMAIN B THEN B[x] ELSE 0

\* Bags with as many copies of everything are equal.
LEMMA EqualBags ==
  ASSUME NEW A, NEW B, IsABag(A), IsABag(B), \A x : Copies(x, A) = Copies(x, B)
  PROVE  A = B
<1>1. \A x : x \in DOMAIN A <=> Copies(x, A) # 0
  BY DEF IsABag, Copies
<1>2. \A x : x \in DOMAIN B <=> Copies(x, B) # 0
  BY DEF IsABag, Copies
<1>3. DOMAIN A = DOMAIN B
  BY <1>1, <1>2
<1>4. \A x \in DOMAIN A : A[x] = B[x]
  <2> SUFFICES ASSUME NEW x \in DOMAIN A PROVE A[x] = B[x]
    OBVIOUS
  <2>1. Copies(x, A) = A[x] /\ Copies(x, B) = B[x]
    BY <1>3 DEF Copies
  <2> QED
    BY <2>1
<1>5. A = [x \in DOMAIN A |-> A[x]] /\ B = [x \in DOMAIN B |-> B[x]]
  BY DEF IsABag
<1> QED
  BY <1>3, <1>4, <1>5

\* A union of bags has the copies of both.
LEMMA UnitedBags ==
  ASSUME NEW A, NEW B, IsABag(A), IsABag(B)
  PROVE  /\ IsABag(A (+) B)
         /\ \A x : /\ Copies(x, A) \in Nat /\ Copies(x, B) \in Nat
                   /\ Copies(x, A (+) B) = Copies(x, A) + Copies(x, B)
<1> DEFINE a(x) == IF x \in DOMAIN A THEN A[x] ELSE 0
           b(x) == IF x \in DOMAIN B THEN B[x] ELSE 0
<1>1. A (+) B = [x \in DOMAIN A \cup DOMAIN B |-> a(x) + b(x)]
  BY DEF (+)
<1>2. /\ \A x : a(x) \in Nat /\ (x \in DOMAIN A => a(x) > 0)
      /\ \A x : b(x) \in Nat /\ (x \in DOMAIN B => b(x) > 0)
  BY DEF IsABag
<1>3. \A x : Copies(x, A) = a(x) /\ Copies(x, B) = b(x)
  BY DEF Copies
<1>4. \A x : x \notin DOMAIN A \cup DOMAIN B => a(x) = 0 /\ b(x) = 0
  OBVIOUS
<1> HIDE DEF a, b
<1>5. \A x \in DOMAIN A \cup DOMAIN B : a(x) + b(x) \in {n \in Nat : n > 0}
  BY <1>2
<1>6. IsABag(A (+) B)
  BY <1>1, <1>5 DEF IsABag
<1>7. \A x : Copies(x, A (+) B) = IF x \in DOMAIN A \cup DOMAIN B THEN a(x) + b(x) ELSE 0
  BY <1>1 DEF Copies
<1>8. \A x : Copies(x, A (+) B) = a(x) + b(x)
  BY <1>4, <1>7
<1> QED
  BY <1>2, <1>3, <1>6, <1>8

\* The bag of one row, and the empty one.
LEMMA SmallBags ==
  ASSUME NEW row
  PROVE  /\ IsABag(SetToBag({row})) /\ IsABag(EmptyBag)
         /\ \A x : Copies(x, SetToBag({row})) = IF x = row THEN 1 ELSE 0
         /\ \A x : Copies(x, EmptyBag) = 0
BY DEF IsABag, Copies, SetToBag, EmptyBag

\* A log is of a payment; the positions of the logs that stand for a row.
Paying(l) == l.eventName \in {"RailOneTimePaymentProcessed", "RailSettled"}
Payers(logs, x) == {i \in DOMAIN logs : Paying(logs[i]) /\ PaymentRow(logs[i]) = x}

\* The rows of some logs have as many copies as there are logs that stand for them.
LEMMA CopiesOfRows ==
  ASSUME NEW logs, NEW n \in Nat, DOMAIN logs = 1..n
  PROVE  /\ IsABag(PaymentRows(logs))
         /\ \A x : /\ IsFiniteSet(Payers(logs, x)) /\ Cardinality(Payers(logs, x)) \in Nat
                   /\ Copies(x, PaymentRows(logs)) = Cardinality(Payers(logs, x))
<1> DEFINE rows == {PaymentRow(logs[i]) : i \in {j \in DOMAIN logs : Paying(logs[j])}}
<1>1. PaymentRows(logs) = [x \in rows |-> Cardinality(Payers(logs, x))]
  <2>1. \A x : {i \in {j \in DOMAIN logs :
                    logs[j].eventName \in {"RailOneTimePaymentProcessed", "RailSettled"}} :
                  PaymentRow(logs[i]) = x} = Payers(logs, x)
    BY DEF Payers, Paying
  <2>2. rows = {PaymentRow(logs[i]) : i \in {j \in DOMAIN logs :
                    logs[j].eventName \in {"RailOneTimePaymentProcessed", "RailSettled"}}}
    BY DEF Paying
  <2> HIDE DEF rows
  <2> QED
    BY <2>1, <2>2 DEF PaymentRows
<1>2. \A x : Payers(logs, x) \subseteq 1..n
  BY DEF Payers
<1>3. IsFiniteSet(1..n)
  BY FS_Interval
<1>4. \A x : IsFiniteSet(Payers(logs, x)) /\ Cardinality(Payers(logs, x)) \in Nat
  BY <1>2, <1>3, FS_Subset, FS_CardinalityType
<1>5. \A x : x \in rows <=> Payers(logs, x) # {}
  BY DEF Payers
<1> HIDE DEF rows
<1>6. \A x : Cardinality(Payers(logs, x)) = 0 <=> x \notin rows
  BY <1>4, <1>5, FS_EmptySet
<1>7. IsABag(PaymentRows(logs))
  <2>1. \A x \in rows : Cardinality(Payers(logs, x)) \in {k \in Nat : k > 0}
    BY <1>4, <1>6
  <2> QED
    BY <1>1, <2>1 DEF IsABag
<1>8. \A x : Copies(x, PaymentRows(logs)) = Cardinality(Payers(logs, x))
  <2>1. \A x : Copies(x, PaymentRows(logs)) = IF x \in rows THEN Cardinality(Payers(logs, x)) ELSE 0
    BY <1>1 DEF Copies
  <2> QED
    BY <2>1, <1>6
<1> QED
  BY <1>4, <1>7, <1>8

\* One more log adds the row it stands for.
LEMMA OneMoreRow ==
  ASSUME NEW S, NEW logs \in Seq(S), NEW l \in S
  PROVE  /\ ~Paying(l) => PaymentRows(Append(logs, l)) = PaymentRows(logs)
         /\ Paying(l) => PaymentRows(Append(logs, l)) = PaymentRows(logs) (+) SetToBag({PaymentRow(l)})
<1> DEFINE m == Len(logs)
           all == Append(logs, l)
<1>1. /\ m \in Nat /\ DOMAIN logs = 1..m /\ DOMAIN all = 1..(m + 1)
      /\ all[m + 1] = l /\ \A i \in 1..m : all[i] = logs[i]
  <2>1. all \in Seq(S) /\ Len(all) = m + 1 /\ (\A i \in 1..m : all[i] = logs[i]) /\ all[m + 1] = l
    BY AppendProperties
  <2> HIDE DEF all
  <2> QED
    BY <2>1, LenProperties
<1> HIDE DEF all, m
<1>2. 1..(m + 1) = 1..m \cup {m + 1} /\ m + 1 \notin 1..m /\ m + 1 \in Nat
  BY <1>1
<1>3. \A x : Payers(all, x) = IF Paying(l) /\ PaymentRow(l) = x
                              THEN Payers(logs, x) \cup {m + 1} ELSE Payers(logs, x)
  BY <1>1, <1>2 DEF Payers
<1>4. \A x : m + 1 \notin Payers(logs, x)
  BY <1>1, <1>2 DEF Payers
<1>5. /\ IsABag(PaymentRows(logs))
      /\ \A x : /\ IsFiniteSet(Payers(logs, x)) /\ Cardinality(Payers(logs, x)) \in Nat
                /\ Copies(x, PaymentRows(logs)) = Cardinality(Payers(logs, x))
  BY <1>1, CopiesOfRows
<1>6. /\ IsABag(PaymentRows(all))
      /\ \A x : Copies(x, PaymentRows(all)) = Cardinality(Payers(all, x))
  BY <1>1, <1>2, CopiesOfRows
<1>7. \A x : Copies(x, PaymentRows(all)) =
               IF Paying(l) /\ PaymentRow(l) = x THEN Copies(x, PaymentRows(logs)) + 1
                                                 ELSE Copies(x, PaymentRows(logs))
  <2> TAKE x
  <2>1. Cardinality(Payers(logs, x) \cup {m + 1}) = Cardinality(Payers(logs, x)) + 1
    BY <1>4, <1>5, FS_AddElement
  <2> QED
    BY <2>1, <1>3, <1>5, <1>6
<1>8. ~Paying(l) => PaymentRows(all) = PaymentRows(logs)
  BY <1>5, <1>6, <1>7, EqualBags
<1>9. ASSUME Paying(l)
      PROVE  PaymentRows(all) = PaymentRows(logs) (+) SetToBag({PaymentRow(l)})
  <2> DEFINE A == PaymentRows(logs)
             B == SetToBag({PaymentRow(l)})
  <2>1. IsABag(B) /\ \A x : Copies(x, B) = IF x = PaymentRow(l) THEN 1 ELSE 0
    BY SmallBags
  <2>2. IsABag(A)
    BY <1>5
  <2> HIDE DEF A, B
  <2>3. /\ IsABag(A (+) B)
        /\ \A x : Copies(x, A) \in Nat /\ Copies(x, A (+) B) = Copies(x, A) + Copies(x, B)
    BY <2>1, <2>2, UnitedBags
  <2>4. \A x : Copies(x, PaymentRows(all)) = Copies(x, A (+) B)
    BY <2>1, <2>3, <1>7, <1>9 DEF A
  <2>5. PaymentRows(all) = A (+) B
    BY <2>3, <2>4, <1>6, EqualBags
  <2> QED
    BY <2>5 DEF A, B
<1> QED
  BY <1>8, <1>9 DEF all

-----------------------------------------------------------------------------
(* The payments of one batch and of the logs. *)

\* A renumbering of a finite set has as many elements.
LEMMA Renumbered ==
  ASSUME NEW A, IsFiniteSet(A), NEW B, NEW f \in [A -> B],
         \A x \in A : \A y \in A : f[x] = f[y] => x = y,
         \A y \in B : \E x \in A : f[x] = y
  PROVE  Cardinality(B) = Cardinality(A) /\ IsFiniteSet(B)
<1>1. f \in Surjection(A, B) /\ f \in Injection(A, B)
  BY DEF Surjection, Injection, IsInjective
<1> QED
  BY <1>1, FS_Surjection

\* The rows of a sequence of logs are those of a batch from its front and of the rest.
LEMMA RowsOfBatch ==
  ASSUME NEW S, NEW all \in Seq(S), NEW n \in 0..Len(all)
  PROVE  LET logs == SortLogs(SubSeq(all, 1, n))
             rest == SubSeq(all, n + 1, Len(all))
         IN \A x : Copies(x, PaymentRows(all)) =
                     Copies(x, PaymentRows(logs)) + Copies(x, PaymentRows(rest))
<1> DEFINE m == Len(all)
           logs == SortLogs(SubSeq(all, 1, n))
           rest == SubSeq(all, n + 1, Len(all))
<1>1. /\ DOMAIN logs = 1..n
      /\ \A i \in 1..n : n - i + 1 \in 1..n /\ logs[i] = all[n - i + 1]
      /\ DOMAIN rest = 1..(m - n)
      /\ \A i \in 1..(m - n) : n + i \in (n + 1)..m /\ rest[i] = all[n + i]
  <2>1. DOMAIN logs = 1..n
    BY ONLY all \in Seq(S), n \in 0..Len(all), PrefixOfLogs
  <2>2. \A i \in 1..n : n - i + 1 \in 1..n /\ logs[i] = all[n - i + 1]
    BY ONLY all \in Seq(S), n \in 0..Len(all), PrefixOfLogs
  <2>3. DOMAIN rest = 1..(m - n)
    BY ONLY all \in Seq(S), n \in 0..Len(all), PrefixOfLogs
  <2>4. \A i \in 1..(m - n) : n + i \in (n + 1)..m /\ rest[i] = all[n + i]
    BY ONLY all \in Seq(S), n \in 0..Len(all), PrefixOfLogs
  <2> QED
    BY <2>1, <2>2, <2>3, <2>4
<1>2. m \in Nat /\ DOMAIN all = 1..m /\ n \in Nat /\ m - n \in Nat /\ n <= m
  BY LenProperties
<1> HIDE DEF logs, rest, m
<1> SUFFICES ASSUME NEW x
             PROVE  Copies(x, PaymentRows(all)) =
                      Copies(x, PaymentRows(logs)) + Copies(x, PaymentRows(rest))
  BY DEF logs, rest
<1> DEFINE P == Payers(all, x)
           front == {i \in P : i <= n}
           back == {i \in P : i > n}
<1>3. /\ IsFiniteSet(P) /\ Cardinality(P) \in Nat
      /\ Copies(x, PaymentRows(all)) = Cardinality(P)
  BY <1>2, CopiesOfRows
<1>4. Copies(x, PaymentRows(logs)) = Cardinality(Payers(logs, x))
  BY <1>1, <1>2, CopiesOfRows
<1>5. Copies(x, PaymentRows(rest)) = Cardinality(Payers(rest, x))
  BY <1>1, <1>2, CopiesOfRows
<1>6. P \subseteq 1..m
  BY <1>2 DEF Payers
<1>7. IsFiniteSet(front) /\ IsFiniteSet(back)
  <2>1. front \subseteq P /\ back \subseteq P
    OBVIOUS
  <2> HIDE DEF P, front, back
  <2> QED
    BY <2>1, <1>3, FS_Subset
<1>8. Cardinality(P) = Cardinality(front) + Cardinality(back)
  <2>1. front \cup back = P /\ front \cap back = {}
    BY <1>2, <1>6
  <2> HIDE DEF P, front, back
  <2>2. Cardinality(front \cup back) = Cardinality(front) + Cardinality(back) - Cardinality(front \cap back)
    BY <1>7, FS_Union
  <2>3. Cardinality(front) \in Nat /\ Cardinality(back) \in Nat /\ Cardinality({}) = 0
    BY <1>7, FS_CardinalityType, FS_EmptySet
  <2>4. Cardinality(front \cap back) = 0
    BY <2>1, <2>3
  <2>5. Cardinality(front \cup back) = Cardinality(front) + Cardinality(back)
    BY <2>2, <2>3, <2>4
  <2> QED
    BY <2>1, <2>5
<1>9. Cardinality(Payers(logs, x)) = Cardinality(front)
  <2> DEFINE f == [i \in front |-> n - i + 1]
  <2>1. \A i \in front : i \in 1..n /\ Paying(all[i]) /\ PaymentRow(all[i]) = x
    BY <1>2, <1>6 DEF Payers
  <2>2. \A i \in 1..n : n - i + 1 \in 1..n /\ n - (n - i + 1) + 1 = i
    BY <1>2
  <2>3. \A k : k \in Payers(logs, x) <=> k \in 1..n /\ Paying(logs[k]) /\ PaymentRow(logs[k]) = x
    BY <1>1 DEF Payers
  <2>4. \A i \in 1..n : i \in front <=> Paying(all[i]) /\ PaymentRow(all[i]) = x
    BY <1>2 DEF Payers
  <2> HIDE DEF front
  <2>5. \A i \in front : f[i] \in Payers(logs, x)
    <3> SUFFICES ASSUME NEW i \in front PROVE n - i + 1 \in Payers(logs, x)
      OBVIOUS
    <3> DEFINE k == n - i + 1
    <3>1. k \in 1..n /\ n - k + 1 = i
      BY <2>1, <2>2
    <3> HIDE DEF k
    <3>2. logs[k] = all[i]
      BY <3>1, <1>1
    <3> QED
      BY <3>1, <3>2, <2>1, <2>3 DEF k
  <2>6. \A k \in Payers(logs, x) : \E i \in front : f[i] = k
    <3> SUFFICES ASSUME NEW k \in Payers(logs, x) PROVE \E i \in front : n - i + 1 = k
      OBVIOUS
    <3> DEFINE i == n - k + 1
    <3>1. k \in 1..n /\ i \in 1..n /\ n - i + 1 = k
      BY <2>2, <2>3
    <3>2. all[i] = logs[k]
      BY <3>1, <1>1
    <3> HIDE DEF i
    <3>3. i \in front
      BY <3>1, <3>2, <2>3, <2>4
    <3> QED
      BY <3>1, <3>3
  <2>7. \A i \in front : \A j \in front : f[i] = f[j] => i = j
    <3> SUFFICES ASSUME NEW i \in front, NEW j \in front, n - i + 1 = n - j + 1 PROVE i = j
      OBVIOUS
    <3> QED
      BY <2>1, <1>2
  <2>8. f \in [front -> Payers(logs, x)]
    BY <2>5
  <2> HIDE DEF f
  <2> QED
    BY <2>6, <2>7, <2>8, <1>7, Renumbered
<1>10. Cardinality(Payers(rest, x)) = Cardinality(back)
  <2> DEFINE f == [i \in back |-> i - n]
  <2>1. \A i \in back : i \in (n + 1)..m /\ Paying(all[i]) /\ PaymentRow(all[i]) = x
    BY <1>2, <1>6 DEF Payers
  <2>2. /\ \A i \in (n + 1)..m : i - n \in 1..(m - n) /\ n + (i - n) = i
        /\ \A k \in 1..(m - n) : n + k \in (n + 1)..m /\ n + k - n = k
    BY <1>2
  <2>3. \A k : k \in Payers(rest, x) <=> k \in 1..(m - n) /\ Paying(rest[k]) /\ PaymentRow(rest[k]) = x
    BY <1>1 DEF Payers
  <2>4. \A i \in (n + 1)..m : i \in back <=> Paying(all[i]) /\ PaymentRow(all[i]) = x
    <3>1. \A i \in (n + 1)..m : i \in 1..m /\ i > n
      BY <1>2
    <3> QED
      BY <3>1, <1>2 DEF Payers
  <2> HIDE DEF back
  <2>5. \A i \in back : f[i] \in Payers(rest, x)
    <3> SUFFICES ASSUME NEW i \in back PROVE i - n \in Payers(rest, x)
      OBVIOUS
    <3> DEFINE k == i - n
    <3>1. k \in 1..(m - n) /\ n + k = i
      BY <2>1, <2>2
    <3> HIDE DEF k
    <3>2. rest[k] = all[i]
      BY <3>1, <1>1
    <3> QED
      BY <3>1, <3>2, <2>1, <2>3 DEF k
  <2>6. \A k \in Payers(rest, x) : \E i \in back : f[i] = k
    <3> SUFFICES ASSUME NEW k \in Payers(rest, x) PROVE \E i \in back : i - n = k
      OBVIOUS
    <3> DEFINE i == n + k
    <3>1. k \in 1..(m - n) /\ i \in (n + 1)..m /\ i - n = k
      BY <2>2, <2>3
    <3>2. all[i] = rest[k]
      BY <3>1, <1>1
    <3> HIDE DEF i
    <3>3. i \in back
      BY <3>1, <3>2, <2>3, <2>4
    <3> QED
      BY <3>1, <3>3
  <2>7. \A i \in back : \A j \in back : f[i] = f[j] => i = j
    <3> SUFFICES ASSUME NEW i \in back, NEW j \in back, i - n = j - n PROVE i = j
      OBVIOUS
    <3> QED
      BY <2>1, <1>2
  <2>8. f \in [back -> Payers(rest, x)]
    BY <2>5
  <2> HIDE DEF f
  <2> QED
    BY <2>6, <2>7, <2>8, <1>7, Renumbered
<1> QED
  BY <1>3, <1>4, <1>5, <1>8, <1>9, <1>10

-----------------------------------------------------------------------------
(* Columns. *)

\* The columns a log writes are of a rail's row, and what it writes is of their type.
LEMMA RailUpdateColumns ==
  ASSUME NEW l, l.eventName \in RailEvents, RailTyped(l)
  PROVE  /\ DOMAIN RailUpdate(l) \subseteq ColumnNames \ {"createdAtBlock"}
         /\ "endEpoch" \in DOMAIN RailUpdate(l) <=> l.eventName = "RailTerminated"
         /\ "finalized" \in DOMAIN RailUpdate(l) <=> l.eventName = "RailFinalized"
         /\ \A c \in ColumnNames : \A v \in ColumnType(c) :
               Effect(RailUpdate(l), c, v) \in ColumnType(c)
<1> DEFINE Good(u) ==
             /\ DOMAIN u \subseteq ColumnNames \ {"createdAtBlock"}
             /\ "endEpoch" \in DOMAIN u <=> l.eventName = "RailTerminated"
             /\ "finalized" \in DOMAIN u <=> l.eventName = "RailFinalized"
             /\ \A c \in ColumnNames : \A v \in ColumnType(c) : Effect(u, c, v) \in ColumnType(c)
           u == RailUpdate(l)
<1>1. ASSUME l.eventName = "RailCreated" PROVE Good(u)
  <2>1. u = <<>>
    BY <1>1 DEF RailUpdate
  <2> HIDE DEF u
  <2>2. DOMAIN u = {}
    BY <2>1
  <2>3. \A c : \A v : Effect(u, c, v) = v
    BY <2>2 DEF Effect
  <2> QED
    BY <2>2, <2>3, <1>1
<1>2. ASSUME l.eventName = "RailLockupModified" PROVE Good(u)
  <2>1. u = [lockupFixed |-> SetTo(l.args.newLockupFixed)]
    BY <1>2 DEF RailUpdate
  <2> HIDE DEF u
  <2>2. l.args.newLockupFixed \in Int
    BY <1>2 DEF RailTyped
  <2>3. DOMAIN u = {"lockupFixed"} /\ u["lockupFixed"].op = "set" /\ u["lockupFixed"].arg \in Int
    BY <2>1, <2>2 DEF SetTo
  <2>4. \A c \in ColumnNames : \A v \in ColumnType(c) : Effect(u, c, v) \in ColumnType(c)
    BY <2>3 DEF Effect, ColumnType
  <2>5. DOMAIN u \subseteq ColumnNames \ {"createdAtBlock"}
    BY <2>3 DEF ColumnNames
  <2>6. "endEpoch" \in DOMAIN u <=> l.eventName = "RailTerminated"
    BY <2>3, <1>2
  <2>7. "finalized" \in DOMAIN u <=> l.eventName = "RailFinalized"
    BY <2>3, <1>2
  <2> QED
    BY <2>4, <2>5, <2>6, <2>7
<1>3. ASSUME l.eventName = "RailRateModified" PROVE Good(u)
  <2>1. /\ DOMAIN u \subseteq {"paymentRate", "activatedAtBlock", "settledUpTo"}
        /\ \A c \in DOMAIN u : u[c] = SetTo(l.args.newRate) \/ u[c] = SetTo(l.blockNumber)
    BY <1>3 DEF RailUpdate
  <2> HIDE DEF u
  <2>2. l.args.newRate \in Nat /\ l.blockNumber \in Nat
    BY <1>3 DEF RailTyped
  <2>3. \A c \in DOMAIN u : u[c].op = "set" /\ u[c].arg \in Nat
    BY <2>1, <2>2 DEF SetTo
  <2>4. \A c \in DOMAIN u : ColumnType(c) = Nat
    BY <2>1 DEF ColumnType
  <2>5. \A c \in ColumnNames : \A v \in ColumnType(c) : Effect(u, c, v) \in ColumnType(c)
    BY <2>3, <2>4 DEF Effect
  <2>6. DOMAIN u \subseteq ColumnNames \ {"createdAtBlock"}
    BY <2>1 DEF ColumnNames
  <2>7. "endEpoch" \in DOMAIN u <=> l.eventName = "RailTerminated"
    BY <2>1, <1>3
  <2>8. "finalized" \in DOMAIN u <=> l.eventName = "RailFinalized"
    BY <2>1, <1>3
  <2> QED
    BY <2>5, <2>6, <2>7, <2>8
<1>4. ASSUME l.eventName = "RailSettled" PROVE Good(u)
  <2>1. u = [settledUpTo |-> SetTo(l.args.settledUpTo)]
    BY <1>4 DEF RailUpdate
  <2> HIDE DEF u
  <2>2. l.args.settledUpTo \in Nat
    BY <1>4 DEF RailTyped
  <2>3. DOMAIN u = {"settledUpTo"} /\ u["settledUpTo"].op = "set" /\ u["settledUpTo"].arg \in Nat
    BY <2>1, <2>2 DEF SetTo
  <2>4. \A c \in ColumnNames : \A v \in ColumnType(c) : Effect(u, c, v) \in ColumnType(c)
    BY <2>3 DEF Effect, ColumnType
  <2>5. DOMAIN u \subseteq ColumnNames \ {"createdAtBlock"}
    BY <2>3 DEF ColumnNames
  <2>6. "endEpoch" \in DOMAIN u <=> l.eventName = "RailTerminated"
    BY <2>3, <1>4
  <2>7. "finalized" \in DOMAIN u <=> l.eventName = "RailFinalized"
    BY <2>3, <1>4
  <2> QED
    BY <2>4, <2>5, <2>6, <2>7
<1>5. ASSUME l.eventName = "RailTerminated" PROVE Good(u)
  <2>1. u = [endEpoch |-> SetTo(l.args.endEpoch)]
    BY <1>5 DEF RailUpdate
  <2> HIDE DEF u
  <2>2. l.args.endEpoch \in Nat
    BY <1>5 DEF RailTyped
  <2>3. DOMAIN u = {"endEpoch"} /\ u["endEpoch"].op = "set" /\ u["endEpoch"].arg \in Nat
    BY <2>1, <2>2 DEF SetTo
  <2>4. \A c \in ColumnNames : \A v \in ColumnType(c) : Effect(u, c, v) \in ColumnType(c)
    BY <2>3 DEF Effect, ColumnType
  <2>5. DOMAIN u \subseteq ColumnNames \ {"createdAtBlock"}
    BY <2>3 DEF ColumnNames
  <2>6. "endEpoch" \in DOMAIN u <=> l.eventName = "RailTerminated"
    BY <2>3, <1>5
  <2>7. "finalized" \in DOMAIN u <=> l.eventName = "RailFinalized"
    BY <2>3, <1>5
  <2> QED
    BY <2>4, <2>5, <2>6, <2>7
<1>6. ASSUME l.eventName = "RailFinalized" PROVE Good(u)
  <2>1. u = [lockupFixed |-> SetTo(0), finalized |-> SetTo(TRUE)]
    BY <1>6 DEF RailUpdate
  <2> HIDE DEF u
  <2>2. /\ DOMAIN u = {"lockupFixed", "finalized"}
        /\ u["lockupFixed"].op = "set" /\ u["lockupFixed"].arg = 0
        /\ u["finalized"].op = "set" /\ u["finalized"].arg = TRUE
    BY <2>1 DEF SetTo
  <2>3. \A v : Effect(u, "lockupFixed", v) = 0
    BY <2>2 DEF Effect
  <2>4. \A v : Effect(u, "finalized", v) = TRUE
    BY <2>2 DEF Effect
  <2>5. \A c : \A v : c \notin {"lockupFixed", "finalized"} => Effect(u, c, v) = v
    BY <2>2 DEF Effect
  <2>6. \A c \in ColumnNames : \A v \in ColumnType(c) : Effect(u, c, v) \in ColumnType(c)
    <3> SUFFICES ASSUME NEW c \in ColumnNames, NEW v \in ColumnType(c)
                 PROVE  Effect(u, c, v) \in ColumnType(c)
      OBVIOUS
    <3>1. CASE c = "lockupFixed"
      <4>1. ColumnType(c) = Int /\ Effect(u, c, v) = 0
        BY <3>1, <2>3 DEF ColumnType
      <4> QED
        BY <4>1
    <3>2. CASE c = "finalized"
      <4>1. ColumnType(c) = BOOLEAN /\ Effect(u, c, v) = TRUE
        BY <3>2, <2>4 DEF ColumnType
      <4> QED
        BY <4>1
    <3>3. CASE c \notin {"lockupFixed", "finalized"}
      BY <3>3, <2>5
    <3> QED
      BY <3>1, <3>2, <3>3
  <2>7. DOMAIN u \subseteq ColumnNames \ {"createdAtBlock"}
    BY <2>2 DEF ColumnNames
  <2>8. "endEpoch" \in DOMAIN u <=> l.eventName = "RailTerminated"
    BY <2>2, <1>6
  <2>9. "finalized" \in DOMAIN u <=> l.eventName = "RailFinalized"
    BY <2>2, <1>6
  <2> QED
    BY <2>6, <2>7, <2>8, <2>9
<1>7. ASSUME l.eventName = "RailOneTimePaymentProcessed" PROVE Good(u)
  <2>1. u = [lockupFixed |-> Decrement(Total(l))]
    BY <1>7 DEF RailUpdate
  <2> HIDE DEF u
  <2>2. Total(l) \in Int
    BY <1>7 DEF RailTyped
  <2>3. DOMAIN u = {"lockupFixed"} /\ u["lockupFixed"].op = "decrement" /\ u["lockupFixed"].arg \in Int
    BY <2>1, <2>2 DEF Decrement
  <2>4. \A c \in ColumnNames : \A v \in ColumnType(c) : Effect(u, c, v) \in ColumnType(c)
    BY <2>3 DEF Effect, ColumnType
  <2>5. DOMAIN u \subseteq ColumnNames \ {"createdAtBlock"}
    BY <2>3 DEF ColumnNames
  <2>6. "endEpoch" \in DOMAIN u <=> l.eventName = "RailTerminated"
    BY <2>3, <1>7
  <2>7. "finalized" \in DOMAIN u <=> l.eventName = "RailFinalized"
    BY <2>3, <1>7
  <2> QED
    BY <2>4, <2>5, <2>6, <2>7
<1> HIDE DEF Good
<1> QED
  <2>1. Good(u)
    BY <1>1, <1>2, <1>3, <1>4, <1>5, <1>6, <1>7 DEF RailEvents
  <2> QED
    BY <2>1 DEF Good

\* Rows are records of the columns.
LEMMA RowColumns ==
  /\ \A row \in RailColumns : /\ DOMAIN row = ColumnNames
                              /\ \A c \in ColumnNames : row[c] \in ColumnType(c)
  /\ \A row : /\ DOMAIN row = ColumnNames /\ row = [c \in DOMAIN row |-> row[c]]
              /\ \A c \in ColumnNames : row[c] \in ColumnType(c)
              => row \in RailColumns
  /\ \A b \in Nat : CreatedRail(b) \in RailColumns
<1>1. ASSUME NEW row \in RailColumns
      PROVE  /\ DOMAIN row = ColumnNames
             /\ \A c \in ColumnNames : row[c] \in ColumnType(c)
  BY DEF RailColumns, ColumnNames, ColumnType
<1>2. ASSUME NEW row, DOMAIN row = ColumnNames, row = [c \in DOMAIN row |-> row[c]],
             \A c \in ColumnNames : row[c] \in ColumnType(c)
      PROVE  row \in RailColumns
  <2>1. /\ row.lockupFixed \in Int /\ row.paymentRate \in Nat /\ row.settledUpTo \in Nat
        /\ row.endEpoch \in Nat /\ row.finalized \in BOOLEAN /\ row.createdAtBlock \in Nat
        /\ row.activatedAtBlock \in Nat
    BY <1>2 DEF ColumnNames, ColumnType
  <2> QED
    BY <2>1, <1>2 DEF RailColumns, ColumnNames
<1>3. \A b \in Nat : CreatedRail(b) \in RailColumns
  BY DEF CreatedRail, RailColumns
<1> QED
  BY <1>1, <1>2, <1>3

\* The database changes every column as the input says.
LEMMA AppliedColumns ==
  ASSUME NEW row, NEW input
  PROVE  /\ ApplyUpdate(row, input) = [c \in DOMAIN row |-> ApplyUpdate(row, input)[c]]
         /\ DOMAIN ApplyUpdate(row, input) = DOMAIN row
         /\ \A c \in DOMAIN row : ApplyUpdate(row, input)[c] = Effect(input, c, row[c])
<1> DEFINE new == ApplyUpdate(row, input)
<1>1. DOMAIN new = DOMAIN row
  BY DEF ApplyUpdate
<1>2. \A c \in DOMAIN row : new[c] = Effect(input, c, row[c])
  <2> SUFFICES ASSUME NEW c \in DOMAIN row PROVE new[c] = Effect(input, c, row[c])
    OBVIOUS
  <2>1. new[c] = IF c \notin DOMAIN input THEN row[c]
                 ELSE CASE input[c].op = "set" -> input[c].arg
                        [] input[c].op = "increment" -> row[c] + input[c].arg
                        [] input[c].op = "decrement" -> row[c] - input[c].arg
    BY DEF ApplyUpdate
  <2> HIDE DEF new
  <2> QED
    BY <2>1 DEF Effect
<1>3. new = [c \in DOMAIN row |-> new[c]]
  <2> DEFINE F(c) == IF c \notin DOMAIN input THEN row[c]
                     ELSE CASE input[c].op = "set" -> input[c].arg
                            [] input[c].op = "increment" -> row[c] + input[c].arg
                            [] input[c].op = "decrement" -> row[c] - input[c].arg
  <2>1. new = [c \in DOMAIN row |-> F(c)]
    BY DEF ApplyUpdate
  <2> HIDE DEF new, F
  <2> QED
    BY <2>1
<1> QED
  BY <1>1, <1>2, <1>3

\* What stays at every step stays.
LEMMA Steady ==
  ASSUME NEW val, NEW a \in Nat, NEW b \in Nat, a <= b,
         \A i \in (a + 1)..b : val[i] = val[i - 1]
  PROVE  val[b] = val[a]
<1> DEFINE T == {i \in a..b : val[i] # val[a]}
<1>1. T = {}
  <2> SUFFICES ASSUME T # {} PROVE FALSE
    OBVIOUS
  <2>1. T \in SUBSET Nat
    OBVIOUS
  <2>2. PICK k \in T : \A j \in T : k <= j
    <3> HIDE DEF T
    <3> QED
      BY <2>1, Smallest
  <2>3. k \in a..b /\ val[k] # val[a]
    OBVIOUS
  <2>4. k # a /\ k \in Nat
    BY <2>3
  <2>5. k \in (a + 1)..b /\ k - 1 \in a..b /\ ~(k <= k - 1)
    BY <2>3, <2>4
  <2>6. val[k - 1] = val[a]
    BY <2>2, <2>5
  <2> QED
    BY <2>3, <2>5, <2>6
<1>2. b \in a..b
  OBVIOUS
<1> QED
  BY <1>1, <1>2

-----------------------------------------------------------------------------
(* A batch of the payment contract's logs. *)

\* What a batch of the first n logs, newest first, does to the rails of the table.
RailsIndexed(n, logs) ==
  /\ n \in Nat /\ n <= Len(unindexed) /\ Len(unindexed) \in Nat
  /\ DOMAIN unindexed = 1..Len(unindexed)
  /\ Len(logs) = n /\ DOMAIN logs = 1..n
  /\ \A i \in 1..n : n - i + 1 \in 1..n /\ logs[i] = unindexed[n - i + 1]
  /\ unindexed' \in Seq(RailLogs) /\ Len(unindexed') = Len(unindexed) - n
  /\ DOMAIN unindexed' = 1..(Len(unindexed) - n)
  /\ \A i \in DOMAIN unindexed' : n + i \in DOMAIN unindexed /\ unindexed'[i] = unindexed[n + i]
  /\ \A j \in DOMAIN unindexed : j > n => j - n \in DOMAIN unindexed' /\ unindexed'[j - n] = unindexed[j]
  /\ mixed' = mixed \cup {r \in Rails : Mixed(logs, r)}
  /\ \A r : r \in DOMAIN rails' <=> r \in DOMAIN rails \/ RailInserted(r, n)
  /\ \A r \in DOMAIN rails' : \E row \in RailColumns :
        /\ \A c \in ColumnNames : row[c] = RailCell(r, c)
        /\ rails'[r] = ApplyUpdate(row, UpdateInput({}, RailUpdates(logs, r)))
  /\ UNCHANGED <<epoch, chainRail, chainPayments>>

\* Rows of a table updated by logs that create some of them.
Made(table, logs, ids, new) ==
  /\ DOMAIN new = DOMAIN table \cup ids
  /\ \A r \in ids : \E l \in ToSet(logs) :
        /\ l.eventName = "RailCreated" /\ l.railId = r
        /\ new[r] = ApplyUpdate(CreatedRail(l.blockNumber), UpdateInput({}, RailUpdates(logs, r)))
  /\ \A r \in DOMAIN table \ ids :
        new[r] = ApplyUpdate(table[r], UpdateInput({}, RailUpdates(logs, r)))

\* The rows that a batch makes.
LEMMA CreatedAndUpdated ==
  ASSUME NEW table, NEW logs, NEW ids, NEW new,
         ids = {l.railId : l \in {x \in ToSet(logs) : x.eventName = "RailCreated"}},
         new = UpdateRails(CreateRails(table, logs), logs)
  PROVE  Made(table, logs, ids, new)
<1> DEFINE created == {x \in ToSet(logs) : x.eventName = "RailCreated"}
           row(r) == CreatedRail((CHOOSE l \in created : l.railId = r).blockNumber)
           t == CreateRails(table, logs)
           input(r) == UpdateInput({}, RailUpdates(logs, r))
<1>1. t = Spread(table, [r \in ids |-> row(r)])
  BY DEF CreateRails
<1>2. \A r \in ids : \E l \in created : l.railId = r /\ row(r) = CreatedRail(l.blockNumber)
  <2> SUFFICES ASSUME NEW r \in ids
               PROVE  \E l \in created : l.railId = r /\ row(r) = CreatedRail(l.blockNumber)
    OBVIOUS
  <2>1. \E l \in created : l.railId = r
    OBVIOUS
  <2> HIDE DEF created
  <2> QED
    BY <2>1
<1> HIDE DEF row, t
<1>3. /\ DOMAIN t = DOMAIN table \cup ids
      /\ \A r \in ids : t[r] = row(r)
      /\ \A r \in DOMAIN table \ ids : t[r] = table[r]
  <2> QED
    BY <1>1 DEF Spread
<1>4. new = [r \in DOMAIN t |-> ApplyUpdate(t[r], input(r))]
  <2>1. new = UpdateRails(t, logs)
    BY DEF t
  <2> QED
    BY <2>1 DEF UpdateRails
<1> HIDE DEF input
<1>5. DOMAIN new = DOMAIN t /\ \A r \in DOMAIN t : new[r] = ApplyUpdate(t[r], input(r))
  BY <1>4
<1>6. ASSUME NEW r \in ids
      PROVE  \E l \in ToSet(logs) : /\ l.eventName = "RailCreated" /\ l.railId = r
                                    /\ new[r] = ApplyUpdate(CreatedRail(l.blockNumber), input(r))
  <2>1. PICK l \in created : l.railId = r /\ row(r) = CreatedRail(l.blockNumber)
    BY <1>2
  <2>2. new[r] = ApplyUpdate(row(r), input(r))
    BY <1>3, <1>5
  <2> QED
    BY <2>1, <2>2
<1>7. \A r \in DOMAIN table \ ids : new[r] = ApplyUpdate(table[r], input(r))
  BY <1>3, <1>5
<1>8. DOMAIN new = DOMAIN table \cup ids
  BY <1>3, <1>5
<1> QED
  BY <1>6, <1>7, <1>8 DEF input, Made

\* A batch is the first logs, and its rows start from those of the table or from new ones.
LEMMA RailsOfBatch ==
  ASSUME UnindexedShape, RailRowsInv, NEW b \in 1..MaxEpoch, IndexRails(b)
  PROVE  \E n \in 0..Len(unindexed) :
           /\ RailsIndexed(n, SortLogs(SubSeq(unindexed, 1, n)))
           /\ payments' = CreatePayments(payments, SortLogs(SubSeq(unindexed, 1, n)))
           /\ unindexed' = SubSeq(unindexed, n + 1, Len(unindexed))
<1>1. /\ unindexed \in Seq(RailLogs) /\ b \in Nat
      /\ \A l \in RailLogs : l.blockNumber \in Nat
      /\ \A i, j \in DOMAIN unindexed : i <= j => unindexed[i].blockNumber <= unindexed[j].blockNumber
  BY DEF UnindexedShape, RailLogs
<1>2. PICK n \in 0..Len(unindexed) : UpTo(unindexed, b) = SubSeq(unindexed, 1, n)
  BY ONLY <1>1, UpToIsPrefix
<1> DEFINE logs == SortLogs(SubSeq(unindexed, 1, n))
           rest == SubSeq(unindexed, n + 1, Len(unindexed))
           m == Len(unindexed)
<1>3. /\ Len(SubSeq(unindexed, 1, n)) = n
      /\ logs \in Seq(RailLogs) /\ DOMAIN logs = 1..n
      /\ \A i \in 1..n : n - i + 1 \in 1..n /\ logs[i] = unindexed[n - i + 1]
      /\ ToSet(logs) = {unindexed[i] : i \in 1..n}
      /\ rest \in Seq(RailLogs) /\ Len(rest) = m - n
      /\ DOMAIN rest = 1..(m - n)
      /\ \A i \in 1..(m - n) : n + i \in (n + 1)..m /\ rest[i] = unindexed[n + i]
  BY ONLY <1>1, n \in 0..Len(unindexed), PrefixOfLogs
<1>4. m \in Nat /\ n \in Nat /\ n <= m /\ DOMAIN unindexed = 1..m
  BY <1>1, LenProperties
<1>5. /\ rails' = UpdateRails(CreateRails(rails, logs), logs)
      /\ payments' = CreatePayments(payments, logs)
      /\ mixed' = mixed \cup {r \in Rails : Mixed(logs, r)}
      /\ unindexed' = rest
      /\ UNCHANGED <<epoch, chainRail, chainPayments>>
  BY <1>2, <1>3 DEF IndexRails
<1>6. Len(logs) = n
  BY <1>3, <1>4, LenProperties
<1> HIDE DEF logs, rest, m
<1>7. \A i \in 1..(m - n) : n + i \in 1..m
  BY <1>4
<1>8. ASSUME NEW j \in 1..m, j > n
      PROVE  j - n \in 1..(m - n) /\ rest[j - n] = unindexed[j]
  <2>1. j - n \in 1..(m - n) /\ n + (j - n) = j
    BY <1>4, <1>8
  <2> DEFINE i == j - n
  <2> HIDE DEF i
  <2>2. rest[i] = unindexed[n + i]
    BY <2>1, <1>3 DEF i
  <2> QED
    BY <2>1, <2>2 DEF i
<1> DEFINE ids == {l.railId : l \in {x \in ToSet(logs) : x.eventName = "RailCreated"}}
<1>9. /\ DOMAIN rails' = DOMAIN rails \cup ids
      /\ \A r \in ids : \E l \in ToSet(logs) :
            /\ l.eventName = "RailCreated" /\ l.railId = r
            /\ rails'[r] = ApplyUpdate(CreatedRail(l.blockNumber), UpdateInput({}, RailUpdates(logs, r)))
      /\ \A r \in DOMAIN rails \ ids :
            rails'[r] = ApplyUpdate(rails[r], UpdateInput({}, RailUpdates(logs, r)))
  <2>1. PICK new : new = UpdateRails(CreateRails(rails, logs), logs)
    OBVIOUS
  <2>2. ids = {l.railId : l \in {x \in ToSet(logs) : x.eventName = "RailCreated"}}
    OBVIOUS
  <2> HIDE DEF ids
  <2>3. Made(rails, logs, ids, new)
    BY ONLY <2>1, <2>2, CreatedAndUpdated
  <2>4. rails' = new
    BY <2>1, <1>5
  <2> QED
    BY <2>3, <2>4 DEF Made
<1>10. \A r : r \in ids <=> RailInserted(r, n)
  <2>1. \A l : l \in ToSet(logs) <=> \E i \in 1..n : l = unindexed[i]
    BY <1>3
  <2>2. \A i : i \in 1..n <=> i \in DOMAIN unindexed /\ i <= n
    BY <1>4
  <2>3. \A r : r \in ids <=> \E i \in 1..n : /\ unindexed[i].eventName = "RailCreated"
                                             /\ unindexed[i].railId = r
    BY <2>1
  <2> HIDE DEF ids
  <2> QED
    BY <2>2, <2>3 DEF RailInserted, InsertedIn
<1> HIDE DEF ids
<1>11. ASSUME NEW r \in DOMAIN rails'
       PROVE  \E row \in RailColumns :
                 /\ \A c \in ColumnNames : row[c] = RailCell(r, c)
                 /\ rails'[r] = ApplyUpdate(row, UpdateInput({}, RailUpdates(logs, r)))
  <2>1. CASE r \in ids
    <3>1. PICK l \in ToSet(logs) :
            /\ l.eventName = "RailCreated" /\ l.railId = r
            /\ rails'[r] = ApplyUpdate(CreatedRail(l.blockNumber), UpdateInput({}, RailUpdates(logs, r)))
      BY <2>1, <1>9
    <3>2. PICK i \in 1..n : l = unindexed[i]
      BY <1>3
    <3>3. i \in DOMAIN unindexed
      BY <1>4
    <3>4. r \notin DOMAIN rails /\ l.blockNumber = chainRail[r].createdAtBlock /\ l.blockNumber \in Nat
      BY <3>1, <3>2, <3>3 DEF RailRowsInv, UnindexedShape, RailTyped
    <3>5. CreatedRail(l.blockNumber) \in RailColumns
      BY <3>4, RowColumns
    <3>6. \A c \in ColumnNames : CreatedRail(l.blockNumber)[c] = RailCell(r, c)
      BY <3>4 DEF RailCell
    <3> QED
      BY <3>1, <3>5, <3>6
  <2>2. CASE r \notin ids
    <3>1. r \in DOMAIN rails
      BY <2>2, <1>9
    <3>2. rails'[r] = ApplyUpdate(rails[r], UpdateInput({}, RailUpdates(logs, r)))
      BY <2>2, <3>1, <1>9
    <3>3. rails[r] \in RailColumns
      BY <3>1 DEF RailRowsInv
    <3>4. \A c \in ColumnNames : rails[r][c] = RailCell(r, c)
      BY <3>1 DEF RailCell
    <3> QED
      BY <3>2, <3>3, <3>4
  <2> QED
    BY <2>1, <2>2
<1>12. \A r : r \in DOMAIN rails' <=> r \in DOMAIN rails \/ RailInserted(r, n)
  BY <1>9, <1>10
<1>13. /\ \A i \in 1..n : n - i + 1 \in 1..n /\ logs[i] = unindexed[n - i + 1]
       /\ DOMAIN logs = 1..n
  BY <1>3
<1>14. /\ unindexed' \in Seq(RailLogs) /\ Len(unindexed') = m - n
       /\ DOMAIN unindexed' = 1..(m - n)
       /\ \A i \in DOMAIN unindexed' : n + i \in DOMAIN unindexed /\ unindexed'[i] = unindexed[n + i]
  BY <1>3, <1>4, <1>5, <1>7
<1>15. \A j \in DOMAIN unindexed : j > n => j - n \in DOMAIN unindexed' /\ unindexed'[j - n] = unindexed[j]
  BY <1>4, <1>5, <1>8, <1>14
<1>16. RailsIndexed(n, logs)
  BY <1>4, <1>5, <1>6, <1>11, <1>12, <1>13, <1>14, <1>15 DEF RailsIndexed, m
<1> QED
  BY <1>5, <1>16 DEF logs, rest, m

-----------------------------------------------------------------------------
(* The rails through a batch. *)

\* An update's effect on a column depends on what it says of the column.
LEMMA SameEffect ==
  ASSUME NEW u, NEW w, NEW c, c \in DOMAIN u, c \in DOMAIN w, u[c] = w[c]
  PROVE  \A x : Effect(u, c, x) = Effect(w, c, x)
<1> SUFFICES ASSUME NEW x PROVE Effect(u, c, x) = Effect(w, c, x)
  OBVIOUS
<1> DEFINE do(o) == CASE o.op = "set" -> o.arg
                      [] o.op = "increment" -> x + o.arg
                      [] o.op = "decrement" -> x - o.arg
<1>1. Effect(u, c, x) = do(u[c]) /\ Effect(w, c, x) = do(w[c])
  BY DEF Effect
<1> HIDE DEF do
<1> QED
  BY <1>1

\* What a batch makes of a column: what the only log of the batch that writes it makes of
\* it, if there is one; what one of them makes of it; the same, if there is none.
LEMMA RailColumnOfBatch ==
  ASSUME NEW n, NEW logs, RailsIndexed(n, logs), NEW r, r \in DOMAIN rails',
         NEW c \in ColumnNames
  PROVE  /\ (\A i \in 1..n : ~Touches(unindexed[i], r, c)) => rails'[r][c] = RailCell(r, c)
         /\ \/ rails'[r][c] = RailCell(r, c)
            \/ \E i \in 1..n : /\ Touches(unindexed[i], r, c)
                               /\ rails'[r][c] = After(unindexed[i], r, c, RailCell(r, c))
         /\ \A i \in 1..n :
              (\A j \in 1..n : Touches(unindexed[j], r, c) <=> j = i) =>
                 rails'[r][c] = After(unindexed[i], r, c, RailCell(r, c))
<1> DEFINE updates == RailUpdates(logs, r)
           input == UpdateInput({}, updates)
<1>1. /\ n \in Nat /\ DOMAIN logs = 1..n
      /\ \A i \in 1..n : n - i + 1 \in 1..n /\ logs[i] = unindexed[n - i + 1]
  BY DEF RailsIndexed
<1>2. PICK row \in RailColumns :
        /\ \A x \in ColumnNames : row[x] = RailCell(r, x)
        /\ rails'[r] = ApplyUpdate(row, input)
  BY DEF RailsIndexed
<1>3. /\ Len(updates) = n
      /\ \A i \in 1..n : updates[i] = IF logs[i].railId = r THEN RailUpdate(logs[i]) ELSE <<>>
  <2> DEFINE f(i) == IF logs[i].railId = r THEN RailUpdate(logs[i]) ELSE <<>>
  <2>1. updates = [i \in 1..n |-> f(i)]
    BY <1>1 DEF RailUpdates
  <2> HIDE DEF updates, f
  <2>2. Len(updates) = n /\ \A i \in 1..n : updates[i] = f(i)
    BY <2>1, <1>1
  <2> QED
    BY <2>2 DEF f
<1> HIDE DEF updates, input
<1>4. /\ c \in DOMAIN input <=> \E i \in 1..n : c \in DOMAIN updates[i]
      /\ c \in DOMAIN input =>
           \E i \in 1..n : c \in DOMAIN updates[i] /\ input[c] = updates[i][c]
  <2>1. Len(updates) \in Nat /\ c \notin {}
    BY <1>1, <1>3
  <2>2. /\ c \in DOMAIN UpdateInput({}, updates) <=> \E i \in 1..Len(updates) : c \in DOMAIN updates[i]
        /\ c \in DOMAIN UpdateInput({}, updates) =>
             \E i \in 1..Len(updates) : /\ c \in DOMAIN updates[i]
                                        /\ UpdateInput({}, updates)[c] = updates[i][c]
    BY ONLY <2>1, OverwrittenColumn
  <2> QED
    BY <2>2, <1>3 DEF input
<1> DEFINE v == RailCell(r, c)
<1>5. rails'[r][c] = Effect(input, c, v)
  <2>1. c \in DOMAIN row /\ row[c] = v
    BY <1>2, RowColumns
  <2>2. ApplyUpdate(row, input)[c] = Effect(input, c, row[c])
    BY <2>1, AppliedColumns
  <2> QED
    BY <2>1, <2>2, <1>2
<1>6. \A k \in 1..n : \E i \in 1..n : n - i + 1 = k /\ logs[i] = unindexed[k]
  <2> SUFFICES ASSUME NEW k \in 1..n
               PROVE  \E i \in 1..n : n - i + 1 = k /\ logs[i] = unindexed[k]
    OBVIOUS
  <2> DEFINE i == n - k + 1
  <2>1. i \in 1..n /\ n - i + 1 = k
    BY <1>1
  <2> HIDE DEF i
  <2> QED
    BY <2>1, <1>1
<1>7. \A i \in 1..n : c \in DOMAIN updates[i] <=> Touches(logs[i], r, c)
  BY <1>3 DEF Touches
<1>8. \A k \in 1..n : Touches(unindexed[k], r, c) => c \in DOMAIN input
  BY <1>4, <1>6, <1>7
<1>9. ASSUME c \in DOMAIN input
      PROVE  \E k \in 1..n : /\ Touches(unindexed[k], r, c)
                             /\ rails'[r][c] = After(unindexed[k], r, c, v)
  <2>1. PICK i \in 1..n : c \in DOMAIN updates[i] /\ input[c] = updates[i][c]
    BY <1>4, <1>9
  <2>2. Touches(logs[i], r, c) /\ logs[i].railId = r /\ updates[i] = RailUpdate(logs[i])
    BY <2>1, <1>3, <1>7 DEF Touches
  <2>3. Effect(input, c, v) = Effect(RailUpdate(logs[i]), c, v)
    <3> DEFINE u == RailUpdate(logs[i])
    <3>1. c \in DOMAIN u /\ input[c] = u[c]
      BY <2>1, <2>2
    <3> HIDE DEF u, v
    <3>2. \A x : Effect(input, c, x) = Effect(u, c, x)
      BY ONLY <3>1, <1>9, SameEffect
    <3> QED
      BY <3>2 DEF u, v
  <2>4. rails'[r][c] = After(logs[i], r, c, v)
    BY <2>2, <2>3, <1>5 DEF After
  <2>5. n - i + 1 \in 1..n /\ logs[i] = unindexed[n - i + 1]
    BY <1>1
  <2> HIDE DEF v
  <2> QED
    BY <2>2, <2>4, <2>5
<1>10. ASSUME c \notin DOMAIN input
       PROVE  rails'[r][c] = v
  BY <1>5, <1>10 DEF Effect
<1> HIDE DEF v
<1>11. (\A i \in 1..n : ~Touches(unindexed[i], r, c)) => rails'[r][c] = v
  BY <1>9, <1>10
<1>12. \/ rails'[r][c] = v
       \/ \E i \in 1..n : /\ Touches(unindexed[i], r, c)
                          /\ rails'[r][c] = After(unindexed[i], r, c, v)
  BY <1>9, <1>10
<1>13. ASSUME NEW i \in 1..n, \A j \in 1..n : Touches(unindexed[j], r, c) <=> j = i
       PROVE  rails'[r][c] = After(unindexed[i], r, c, v)
  <2>1. c \in DOMAIN input
    BY <1>8, <1>13
  <2>2. PICK k \in 1..n : /\ Touches(unindexed[k], r, c)
                          /\ rails'[r][c] = After(unindexed[k], r, c, v)
    BY <2>1, <1>9
  <2>3. k = i
    BY <2>2, <1>13
  <2> QED
    BY <2>2, <2>3
<1> QED
  BY <1>11, <1>12, <1>13 DEF v

\* The rows of rails stay typed.
LEMMA RailRowsOfBatch ==
  ASSUME UnindexedShape, RailRowsInv, NEW n, NEW logs, RailsIndexed(n, logs),
         NEW r, r \in DOMAIN rails'
  PROVE  rails'[r] \in RailColumns
<1>1. PICK row \in RailColumns : 
        /\ \A x \in ColumnNames : row[x] = RailCell(r, x)
        /\ rails'[r] = ApplyUpdate(row, UpdateInput({}, RailUpdates(logs, r)))
  BY DEF RailsIndexed
<1>2. DOMAIN row = ColumnNames /\ \A c \in ColumnNames : row[c] \in ColumnType(c)
  BY RowColumns
<1>3. DOMAIN rails'[r] = ColumnNames /\ rails'[r] = [c \in DOMAIN rails'[r] |-> rails'[r][c]]
  <2> DEFINE input == UpdateInput({}, RailUpdates(logs, r))
             new == ApplyUpdate(row, input)
  <2>1. new = [c \in DOMAIN row |-> new[c]] /\ DOMAIN new = DOMAIN row
    BY AppliedColumns
  <2>2. rails'[r] = new
    BY <1>1
  <2> HIDE DEF new, input
  <2>3. DOMAIN new = ColumnNames /\ new = [c \in DOMAIN new |-> new[c]]
    BY <2>1, <1>2
  <2> QED
    BY <2>2, <2>3
<1>4. n \in Nat /\ n <= Len(unindexed) /\ Len(unindexed) \in Nat /\ DOMAIN unindexed = 1..Len(unindexed)
  BY DEF RailsIndexed
<1>5. ASSUME NEW c \in ColumnNames
      PROVE  rails'[r][c] \in ColumnType(c)
  <2>1. RailCell(r, c) \in ColumnType(c)
    BY <1>1, <1>2
  <2>2. CASE rails'[r][c] = RailCell(r, c)
    BY <2>1, <2>2
  <2>3. ASSUME NEW i \in 1..n, Touches(unindexed[i], r, c),
               rails'[r][c] = After(unindexed[i], r, c, RailCell(r, c))
        PROVE  rails'[r][c] \in ColumnType(c)
    <3>1. i \in DOMAIN unindexed
      BY <1>4
    <3>2. unindexed[i] \in RailLogs /\ RailTyped(unindexed[i])
      BY <3>1, <1>4, LenProperties DEF UnindexedShape
    <3>3. unindexed[i].eventName \in RailEvents /\ unindexed[i].railId = r
      BY <3>2, <2>3 DEF RailLogs, Touches
    <3>4. Effect(RailUpdate(unindexed[i]), c, RailCell(r, c)) \in ColumnType(c)
      BY <2>1, <3>2, <3>3, RailUpdateColumns
    <3> QED
      BY <2>3, <3>3, <3>4 DEF After
  <2> QED
    BY <2>2, <2>3, RailColumnOfBatch
<1> QED
  BY <1>3, <1>5, RowColumns

\* A batch keeps the shape of the logs that remain.
LEMMA IndexRailsKeepsShape ==
  ASSUME UnindexedShape, NEW n, NEW logs, RailsIndexed(n, logs)
  PROVE  UnindexedShape'
<1>1. /\ n \in Nat /\ DOMAIN unindexed' \subseteq Int /\ unindexed' \in Seq(RailLogs) /\ epoch' = epoch
      /\ \A i \in DOMAIN unindexed' : n + i \in DOMAIN unindexed /\ unindexed'[i] = unindexed[n + i]
  BY DEF RailsIndexed
<1>2. ASSUME NEW i \in DOMAIN unindexed'
      PROVE  RailTyped(unindexed'[i]) /\ unindexed'[i].blockNumber <= epoch
  <2>1. RailTyped(unindexed[n + i]) /\ unindexed[n + i].blockNumber <= epoch
    BY <1>1 DEF UnindexedShape
  <2> QED
    BY <2>1, <1>1
<1>3. ASSUME NEW i \in DOMAIN unindexed', NEW j \in DOMAIN unindexed', i <= j
      PROVE  unindexed'[i].blockNumber <= unindexed'[j].blockNumber
  <2>1. n + i <= n + j
    BY <1>1, <1>3
  <2>2. unindexed[n + i].blockNumber <= unindexed[n + j].blockNumber
    BY <2>1, <1>1 DEF UnindexedShape
  <2> QED
    BY <2>2, <1>1
<1>4. \A i \in DOMAIN unindexed' : (RailTyped(unindexed[i]))' <=> RailTyped(unindexed'[i])
  BY DEF RailTyped, Total
<1>5. epoch \in Nat \ {0}
  BY DEF UnindexedShape
<1> QED
  BY <1>1, <1>2, <1>3, <1>4, <1>5 DEF UnindexedShape

\* A row is inserted by the batch or by what remains.
LEMMA InsertedByBatch ==
  ASSUME NEW n, NEW logs, RailsIndexed(n, logs), NEW r, NEW i \in 0..(Len(unindexed) - n)
  PROVE  RailInserted(r, n + i) <=> RailInserted(r, n) \/ InsertedIn(unindexed', r, i)
<1>1. /\ n \in Nat /\ n <= Len(unindexed) /\ Len(unindexed) \in Nat
      /\ DOMAIN unindexed = 1..Len(unindexed) /\ DOMAIN unindexed' = 1..(Len(unindexed) - n)
      /\ \A k \in DOMAIN unindexed' : n + k \in DOMAIN unindexed /\ unindexed'[k] = unindexed[n + k]
      /\ \A j \in DOMAIN unindexed : j > n => j - n \in DOMAIN unindexed' /\ unindexed'[j - n] = unindexed[j]
  BY DEF RailsIndexed
<1>2. InsertedIn(unindexed', r, i) <=> \E k \in DOMAIN unindexed' :
                                 /\ k <= i /\ unindexed'[k].eventName = "RailCreated"
                                 /\ unindexed'[k].railId = r
  BY DEF RailInserted, InsertedIn
<1>3. ASSUME RailInserted(r, n + i) PROVE RailInserted(r, n) \/ InsertedIn(unindexed', r, i)
  <2>1. PICK j \in DOMAIN unindexed : /\ j <= n + i /\ unindexed[j].eventName = "RailCreated"
                                      /\ unindexed[j].railId = r
    BY <1>3 DEF RailInserted, InsertedIn
  <2>2. CASE j > n
    <3>1. j - n \in DOMAIN unindexed' /\ unindexed'[j - n] = unindexed[j] /\ j - n <= i
      BY <1>1, <2>1, <2>2
    <3> QED
      BY <1>2, <2>1, <3>1
  <2>3. CASE ~(j > n)
    <3>1. j <= n
      BY <1>1, <2>3
    <3> QED
      BY <2>1, <3>1 DEF RailInserted, InsertedIn
  <2> QED
    BY <2>2, <2>3
<1>4. ASSUME RailInserted(r, n) PROVE RailInserted(r, n + i)
  <2>1. PICK j \in DOMAIN unindexed : /\ j <= n /\ unindexed[j].eventName = "RailCreated"
                                      /\ unindexed[j].railId = r
    BY <1>4 DEF RailInserted, InsertedIn
  <2>2. j <= n + i
    BY <1>1, <2>1
  <2> QED
    BY <2>1, <2>2 DEF RailInserted, InsertedIn
<1>5. ASSUME InsertedIn(unindexed', r, i) PROVE RailInserted(r, n + i)
  <2>1. PICK k \in DOMAIN unindexed' : /\ k <= i /\ unindexed'[k].eventName = "RailCreated"
                                       /\ unindexed'[k].railId = r
    BY <1>2, <1>5
  <2>2. n + k \in DOMAIN unindexed /\ unindexed'[k] = unindexed[n + k] /\ n + k <= n + i
    BY <1>1, <2>1
  <2>3. \E j \in DOMAIN unindexed : /\ j <= n + i /\ unindexed[j].eventName = "RailCreated"
                                    /\ unindexed[j].railId = r
    BY <2>1, <2>2
  <2> QED
    BY <2>3 DEF RailInserted, InsertedIn
<1> QED
  BY <1>3, <1>4, <1>5

-----------------------------------------------------------------------------
(* A batch keeps the invariant of the rails and payments. *)

\* The logs not indexed yet are typed.
LEMMA UnindexedLogs ==
  ASSUME UnindexedShape
  PROVE  /\ DOMAIN unindexed = 1..Len(unindexed) /\ Len(unindexed) \in Nat
         /\ \A k \in DOMAIN unindexed :
               /\ unindexed[k] \in RailLogs /\ RailTyped(unindexed[k])
               /\ unindexed[k].eventName \in RailEvents
<1>1. unindexed \in Seq(RailLogs) /\ \A k \in DOMAIN unindexed : RailTyped(unindexed[k])
  BY DEF UnindexedShape
<1>2. /\ DOMAIN unindexed = 1..Len(unindexed) /\ Len(unindexed) \in Nat
      /\ \A k \in DOMAIN unindexed : unindexed[k] \in RailLogs
  BY <1>1, LenProperties
<1>3. \A l \in RailLogs : l.eventName \in RailEvents
  BY DEF RailLogs
<1> QED
  BY <1>1, <1>2, <1>3

\* A batch keeps the rails known: a row stays, and the rest have a log of theirs to come.
LEMMA IndexRailsKeepsRows ==
  ASSUME UnindexedShape, RailRowsInv, NEW n, NEW logs, RailsIndexed(n, logs)
  PROVE  RailRowsInv'
<1> DEFINE m == Len(unindexed)
<1>1. /\ n \in Nat /\ n <= m /\ m \in Nat /\ DOMAIN unindexed = 1..m /\ chainRail' = chainRail
      /\ DOMAIN unindexed' = 1..(m - n) /\ Len(unindexed') = m - n
      /\ \A i \in DOMAIN unindexed' : n + i \in DOMAIN unindexed /\ unindexed'[i] = unindexed[n + i]
      /\ \A r : r \in DOMAIN rails' <=> r \in DOMAIN rails \/ RailInserted(r, n)
  BY DEF RailsIndexed
<1>2. /\ m - n \in 0..(m - n) /\ n + (m - n) = m
      /\ \A i \in DOMAIN unindexed' : i \in 0..(m - n) /\ n + i > n /\ n + i \in Int
  BY <1>1
<1> HIDE DEF m
<1>3. \A r : \A i \in 0..(m - n) : RailInserted(r, n + i) <=> RailInserted(r, n) \/ InsertedIn(unindexed', r, i)
  BY InsertedByBatch DEF m
<1>4. ASSUME NEW r, RailInserted(r, n)
      PROVE  r \in DOMAIN chainRail \ OldRails
  BY <1>4 DEF RailInserted, InsertedIn, RailRowsInv
<1>5. /\ \A r \in DOMAIN rails' : rails'[r] \in RailColumns
      /\ DOMAIN rails' \subseteq DOMAIN chainRail \ OldRails
  <2>1. \A r \in DOMAIN rails' : rails'[r] \in RailColumns
    BY RailRowsOfBatch
  <2>2. DOMAIN rails' \subseteq DOMAIN chainRail \ OldRails
    BY <1>1, <1>4 DEF RailRowsInv
  <2> QED
    BY <2>1, <2>2
<1>6. ASSUME NEW r \in DOMAIN chainRail \ OldRails
      PROVE  r \in DOMAIN rails' \/ RailInserted(r, Len(unindexed))'
  <2>1. r \in DOMAIN rails \/ RailInserted(r, m)
    BY DEF RailRowsInv, m
  <2>2. RailInserted(r, m) => RailInserted(r, n) \/ InsertedIn(unindexed', r, m - n)
    BY <1>2, <1>3
  <2>3. RailInserted(r, Len(unindexed))' <=> InsertedIn(unindexed', r, m - n)
    BY <1>1 DEF RailInserted
  <2> QED
    BY <2>1, <2>2, <2>3, <1>1
<1>7. ASSUME NEW i \in DOMAIN unindexed'
      PROVE  LET l == unindexed'[i]
             IN /\ l.railId \in DOMAIN chainRail
                /\ l.railId \in OldRails \cup DOMAIN rails' \/ InsertedIn(unindexed', l.railId, i)
                /\ l.eventName = "RailCreated" =>
                      /\ l.railId \notin OldRails \cup DOMAIN rails'
                      /\ l.blockNumber = chainRail[l.railId].createdAtBlock
  <2> DEFINE l == unindexed'[i]
             k == n + i
             r == l.railId
  <2>1. k \in DOMAIN unindexed /\ l = unindexed[k] /\ i \in 0..(m - n) /\ ~(k <= n)
    <3>1. k \in DOMAIN unindexed /\ l = unindexed[k] /\ i \in 0..(m - n) /\ k > n /\ k \in Int
      BY <1>1, <1>2
    <3> HIDE DEF k, l
    <3> QED
      BY <3>1, <1>1
  <2>2. RailInserted(r, k) <=> RailInserted(r, n) \/ InsertedIn(unindexed', r, i)
    BY <2>1, <1>3
  <2> HIDE DEF l, k
  <2>3. /\ r \in DOMAIN chainRail
        /\ r \in OldRails \cup DOMAIN rails \/ RailInserted(r, k)
        /\ l.eventName = "RailCreated" =>
              /\ r \notin OldRails \cup DOMAIN rails
              /\ l.blockNumber = chainRail[r].createdAtBlock
    BY <2>1 DEF RailRowsInv
  <2>4. ASSUME l.eventName = "RailCreated" PROVE ~RailInserted(r, n)
    <3> SUFFICES ASSUME NEW j \in DOMAIN unindexed, j <= n,
                        unindexed[j].eventName = "RailCreated", unindexed[j].railId = r
                 PROVE  FALSE
      BY DEF RailInserted, InsertedIn
    <3>1. j = k
      BY <2>1, <2>4 DEF RailRowsInv
    <3> QED
      BY <3>1, <2>1
  <2>5. r \in OldRails \cup DOMAIN rails' \/ InsertedIn(unindexed', r, i)
    BY <2>2, <2>3, <1>1
  <2>6. l.eventName = "RailCreated" => r \notin OldRails \cup DOMAIN rails'
    BY <2>3, <2>4, <1>1
  <2> QED
    BY <2>3, <2>5, <2>6 DEF l
<1>8. ASSUME NEW i \in DOMAIN unindexed', NEW j \in DOMAIN unindexed',
             unindexed'[i].eventName = "RailCreated", unindexed'[j].eventName = "RailCreated",
             unindexed'[i].railId = unindexed'[j].railId
      PROVE  i = j
  <2>1. /\ n + i \in DOMAIN unindexed /\ n + j \in DOMAIN unindexed
        /\ unindexed'[i] = unindexed[n + i] /\ unindexed'[j] = unindexed[n + j]
    BY <1>1
  <2>2. n + i = n + j
    BY <2>1, <1>8 DEF RailRowsInv
  <2> QED
    BY <2>2, <1>1
<1>9. /\ OldRails \subseteq DOMAIN chainRail /\ DOMAIN chainRail \subseteq Rails
      /\ \A r \in DOMAIN chainRail : chainRail[r] \in RailColumns
  BY DEF RailRowsInv
<1>10. \A i \in DOMAIN unindexed' :
          /\ unindexed'[i].railId \in DOMAIN chainRail'
          /\ unindexed'[i].railId \in OldRails \cup DOMAIN rails' \/ (RailInserted(unindexed[i].railId, i))'
          /\ unindexed'[i].eventName = "RailCreated" =>
                /\ unindexed'[i].railId \notin OldRails \cup DOMAIN rails'
                /\ unindexed'[i].blockNumber = chainRail'[unindexed'[i].railId].createdAtBlock
  <2> SUFFICES ASSUME NEW i \in DOMAIN unindexed'
               PROVE  /\ unindexed'[i].railId \in DOMAIN chainRail'
                      /\ unindexed'[i].railId \in OldRails \cup DOMAIN rails' \/ (RailInserted(unindexed[i].railId, i))'
                      /\ unindexed'[i].eventName = "RailCreated" =>
                            /\ unindexed'[i].railId \notin OldRails \cup DOMAIN rails'
                            /\ unindexed'[i].blockNumber = chainRail'[unindexed'[i].railId].createdAtBlock
    OBVIOUS
  <2>1. (RailInserted(unindexed[i].railId, i))' <=> InsertedIn(unindexed', unindexed'[i].railId, i)
    BY DEF RailInserted
  <2> QED
    BY <2>1, <1>1, <1>7
<1> QED
  BY <1>1, <1>5, <1>6, <1>8, <1>9, <1>10 DEF RailRowsInv

\* A batch keeps the events that happen once.
LEMMA IndexRailsKeepsOnce ==
  ASSUME RailOnceInv, NEW n, NEW logs, RailsIndexed(n, logs)
  PROVE  RailOnceInv'
<1>1. /\ n \in Nat /\ DOMAIN unindexed' \subseteq Int /\ chainRail' = chainRail
      /\ \A i \in DOMAIN unindexed' : n + i \in DOMAIN unindexed /\ unindexed'[i] = unindexed[n + i]
  BY DEF RailsIndexed
<1>2. ASSUME NEW i \in DOMAIN unindexed'
      PROVE  /\ unindexed'[i].eventName = "RailTerminated" => chainRail[unindexed'[i].railId].endEpoch > 0
             /\ unindexed'[i].eventName = "RailFinalized" => chainRail[unindexed'[i].railId].finalized
  BY <1>1 DEF RailOnceInv
<1>3. ASSUME NEW i \in DOMAIN unindexed', NEW j \in DOMAIN unindexed',
             unindexed'[i].eventName \in {"RailTerminated", "RailFinalized"},
             unindexed'[i].eventName = unindexed'[j].eventName,
             unindexed'[i].railId = unindexed'[j].railId
      PROVE  i = j
  <2>1. n + i = n + j
    BY <1>1, <1>3 DEF RailOnceInv
  <2>2. i \in Int /\ j \in Int /\ n \in Int
    BY <1>1
  <2> QED
    BY ONLY <2>1, <2>2
<1> QED
  BY <1>1, <1>2, <1>3 DEF RailOnceInv

\* Two logs of a batch that write a column of a rail mix it up, unless the column is one
\* that no two logs write.
LEMMA OneToucher ==
  ASSUME UnindexedShape, RailRowsInv, RailOnceInv, NEW n, NEW logs, RailsIndexed(n, logs),
         NEW r \in DOMAIN chainRail, NEW c \in ColumnNames, r \notin mixed' \/ c \in OneShot,
         NEW i \in 1..n, NEW j \in 1..n,
         Touches(unindexed[i], r, c), Touches(unindexed[j], r, c)
  PROVE  i = j
<1>1. /\ n \in Nat /\ n <= Len(unindexed) /\ Len(unindexed) \in Nat
      /\ DOMAIN unindexed = 1..Len(unindexed) /\ DOMAIN logs = 1..n
      /\ \A k \in 1..n : n - k + 1 \in 1..n /\ logs[k] = unindexed[n - k + 1]
      /\ mixed' = mixed \cup {x \in Rails : Mixed(logs, x)}
  BY DEF RailsIndexed
<1>2. i \in DOMAIN unindexed /\ j \in DOMAIN unindexed
  BY <1>1
<1>3. CASE c \in OneShot
  <2>1. \A k \in DOMAIN unindexed : unindexed[k].eventName \in RailEvents /\ RailTyped(unindexed[k])
    BY UnindexedLogs
  <2>2. \A k \in {i, j} : /\ unindexed[k].railId = r
                          /\ c \in ColumnNames \ {"createdAtBlock"}
                          /\ c = "endEpoch" => unindexed[k].eventName = "RailTerminated"
                          /\ c = "finalized" => unindexed[k].eventName = "RailFinalized"
    <3> SUFFICES ASSUME NEW k \in {i, j}
                 PROVE  /\ unindexed[k].railId = r
                        /\ c \in ColumnNames \ {"createdAtBlock"}
                        /\ c = "endEpoch" => unindexed[k].eventName = "RailTerminated"
                        /\ c = "finalized" => unindexed[k].eventName = "RailFinalized"
      OBVIOUS
    <3>1. unindexed[k].railId = r /\ c \in DOMAIN RailUpdate(unindexed[k])
      BY DEF Touches
    <3>2. unindexed[k].eventName \in RailEvents /\ RailTyped(unindexed[k])
      BY <1>2, <2>1
    <3> QED
      BY <3>1, <3>2, RailUpdateColumns
  <2>3. c \in {"endEpoch", "finalized"}
    BY <1>3, <2>2 DEF OneShot
  <2>4. /\ unindexed[i].railId = unindexed[j].railId
        /\ unindexed[i].eventName = unindexed[j].eventName
        /\ unindexed[i].eventName \in {"RailTerminated", "RailFinalized"}
    BY <2>2, <2>3
  <2> QED
    BY <1>2, <2>4 DEF RailOnceInv
<1>4. CASE r \notin mixed'
  <2> SUFFICES ASSUME i # j PROVE FALSE
    OBVIOUS
  <2>1. r \in Rails
    BY DEF RailRowsInv
  <2>2. ~Mixed(logs, r)
    BY <1>1, <1>4, <2>1
  <2> DEFINE a == n - i + 1
             b == n - j + 1
  <2>3. a \in 1..n /\ b \in 1..n /\ a # b /\ n - a + 1 = i /\ n - b + 1 = j
    BY <1>1
  <2> HIDE DEF a, b
  <2>4. logs[a] = unindexed[i] /\ logs[b] = unindexed[j]
    BY <1>1, <2>3
  <2>5. /\ logs[a].railId = r /\ logs[b].railId = r
        /\ c \in DOMAIN RailUpdate(logs[a]) \cap DOMAIN RailUpdate(logs[b])
    BY <2>4 DEF Touches
  <2>6. DOMAIN RailUpdate(logs[a]) \cap DOMAIN RailUpdate(logs[b]) # {}
    BY <2>5
  <2>7. Mixed(logs, r)
    BY <1>1, <2>3, <2>5, <2>6 DEF Mixed
  <2> QED
    BY <2>2, <2>7
<1> QED
  BY <1>3, <1>4

-----------------------------------------------------------------------------
(* A told log leads the columns on. *)

\* The logs lead a column in the next state.
LEMMA LedInNext ==
  ASSUME NEW r, NEW c, NEW val, val[0] = RailCell(r, c)',
         \A i \in 1..Len(unindexed') : val[i] = After(unindexed'[i], r, c, val[i - 1]),
         val[Len(unindexed')] = chainRail'[r][c]
  PROVE  Leads(r, c)'
<1>1. \A l : \A v : After(l, r, c, v) = IF l.railId = r THEN Effect(RailUpdate(l), c, v) ELSE v
  BY DEF After
<1>2. \A i \in 1..Len(unindexed') : val[i] = (After(unindexed[i], r, c, val[i - 1]))'
  BY <1>1 DEF After
<1> QED
  BY <1>2 DEF Leads

\* The value that the logs of a batch lead a column to is the one the batch gives it.
LEMMA BatchLeads ==
  ASSUME UnindexedShape, RailRowsInv, RailOnceInv, NEW n, NEW logs, RailsIndexed(n, logs),
         NEW r \in DOMAIN chainRail \ OldRails, NEW c \in ColumnNames,
         r \notin mixed' \/ c \in OneShot,
         NEW val, val[0] = RailCell(r, c),
         \A i \in 1..Len(unindexed) : val[i] = After(unindexed[i], r, c, val[i - 1])
  PROVE  val[n] = (IF r \in DOMAIN rails' THEN rails'[r][c]
                   ELSE CreatedRail(chainRail[r].createdAtBlock)[c])
<1>1. /\ n \in Nat /\ n <= Len(unindexed) /\ Len(unindexed) \in Nat
      /\ DOMAIN unindexed = 1..Len(unindexed)
      /\ \A x : x \in DOMAIN rails' <=> x \in DOMAIN rails \/ RailInserted(x, n)
  BY DEF RailsIndexed
<1>2. \A i \in 1..n : i \in 1..Len(unindexed)
  BY <1>1
<1>3. \A i \in 1..n : ~Touches(unindexed[i], r, c) => val[i] = val[i - 1]
  <2> SUFFICES ASSUME NEW i \in 1..n, ~Touches(unindexed[i], r, c)
               PROVE  val[i] = val[i - 1]
    OBVIOUS
  <2>1. val[i] = After(unindexed[i], r, c, val[i - 1])
    BY <1>2
  <2> QED
    BY <2>1 DEF After, Effect, Touches
<1>4. CASE \A i \in 1..n : ~Touches(unindexed[i], r, c)
  <2>1. val[n] = val[0]
    <3>1. 0 \in Nat /\ 0 <= n /\ \A i \in (0 + 1)..n : val[i] = val[i - 1]
      BY <1>1, <1>3, <1>4
    <3> QED
      BY ONLY <3>1, <1>1, Steady
  <2>2. CASE r \in DOMAIN rails'
    <3>1. rails'[r][c] = RailCell(r, c)
      BY <1>4, <2>2, RailColumnOfBatch
    <3> QED
      BY <2>1, <2>2, <3>1
  <2>3. CASE r \notin DOMAIN rails'
    <3>1. RailCell(r, c) = CreatedRail(chainRail[r].createdAtBlock)[c]
      BY <1>1, <2>3 DEF RailCell
    <3> QED
      BY <2>1, <2>3, <3>1
  <2> QED
    BY <2>2, <2>3
<1>5. ASSUME NEW i \in 1..n, Touches(unindexed[i], r, c)
      PROVE  r \in DOMAIN rails' /\ val[n] = rails'[r][c]
  <2>1. r \in DOMAIN rails'
    <3>1. i \in DOMAIN unindexed /\ unindexed[i].railId = r
      BY <1>1, <1>5 DEF Touches
    <3>2. r \in DOMAIN rails \/ RailInserted(r, i)
      BY <3>1 DEF RailRowsInv
    <3>3. RailInserted(r, i) => RailInserted(r, n)
      <4>1. \A j \in DOMAIN unindexed : j <= i => j <= n
        BY <1>1
      <4> QED
        BY <4>1 DEF RailInserted, InsertedIn
    <3> QED
      BY <1>1, <3>2, <3>3
  <2>2. \A j \in 1..n : Touches(unindexed[j], r, c) <=> j = i
    BY <1>5, OneToucher
  <2>3. rails'[r][c] = After(unindexed[i], r, c, RailCell(r, c))
    BY <2>1, <2>2, RailColumnOfBatch
  <2>4. val[i - 1] = val[0]
    <3>1. 0 \in Nat /\ i - 1 \in Nat /\ 0 <= i - 1
      BY <1>1
    <3>2. \A j \in (0 + 1)..(i - 1) : j \in 1..n /\ j # i
      BY <1>1
    <3>3. \A j \in (0 + 1)..(i - 1) : val[j] = val[j - 1]
      BY <3>2, <2>2, <1>3
    <3> QED
      BY ONLY <3>1, <3>3, Steady
  <2>5. val[n] = val[i]
    <3>1. i \in Nat /\ n \in Nat /\ i <= n
      BY <1>1
    <3>2. \A j \in (i + 1)..n : j \in 1..n /\ j # i
      BY <1>1
    <3>3. \A j \in (i + 1)..n : val[j] = val[j - 1]
      BY <3>2, <2>2, <1>3
    <3> QED
      BY ONLY <3>1, <3>3, Steady
  <2>6. val[i] = After(unindexed[i], r, c, val[i - 1])
    BY <1>2
  <2> QED
    BY <2>1, <2>3, <2>4, <2>5, <2>6
<1> QED
  BY <1>4, <1>5

\* A batch leaves the logs that lead the columns on from where it brought them.
LEMMA IndexRailsKeepsColumns ==
  ASSUME UnindexedShape, RailRowsInv, RailOnceInv, RailColumnInv,
         NEW n, NEW logs, RailsIndexed(n, logs)
  PROVE  RailColumnInv'
<1>1. /\ n \in Nat /\ n <= Len(unindexed) /\ Len(unindexed) \in Nat
      /\ DOMAIN unindexed' = 1..(Len(unindexed) - n) /\ Len(unindexed') = Len(unindexed) - n
      /\ \A i \in DOMAIN unindexed' : n + i \in DOMAIN unindexed /\ unindexed'[i] = unindexed[n + i]
      /\ DOMAIN unindexed = 1..Len(unindexed)
      /\ chainRail' = chainRail /\ mixed \subseteq mixed'
  BY DEF RailsIndexed
<1>2. ASSUME NEW r \in DOMAIN chainRail \ OldRails, NEW c \in ColumnNames,
             r \notin mixed' \/ c \in OneShot
      PROVE  Leads(r, c)'
  <2>1. PICK val : /\ val[0] = RailCell(r, c)
                   /\ \A i \in 1..Len(unindexed) : val[i] = After(unindexed[i], r, c, val[i - 1])
                   /\ val[Len(unindexed)] = chainRail[r][c]
    BY <1>1, <1>2 DEF RailColumnInv, Leads
  <2>2. val[n] = (IF r \in DOMAIN rails' THEN rails'[r][c]
                  ELSE CreatedRail(chainRail[r].createdAtBlock)[c])
    BY <1>2, <2>1, BatchLeads
  <2>3. val[n] = RailCell(r, c)'
    BY <1>1, <2>2 DEF RailCell
  <2> DEFINE m == Len(unindexed) - n
             new == [i \in 0..m |-> val[n + i]]
  <2>4. /\ m \in Nat /\ 0 \in 0..m /\ m \in 0..m /\ n + 0 = n /\ n + m = Len(unindexed)
        /\ \A i \in 1..m : i \in 0..m /\ i - 1 \in 0..m /\ i \in Int
                           /\ n + i \in 1..Len(unindexed) /\ i \in DOMAIN unindexed'
    BY <1>1
  <2> HIDE DEF m
  <2>5. \A i \in 0..m : new[i] = val[n + i]
    OBVIOUS
  <2> HIDE DEF new
  <2>6. new[0] = RailCell(r, c)'
    BY <2>3, <2>4, <2>5
  <2>7. new[m] = chainRail'[r][c]
    BY <2>1, <2>4, <2>5, <1>1
  <2>8. ASSUME NEW i \in 1..m
        PROVE  new[i] = After(unindexed'[i], r, c, new[i - 1])
    <3>1. new[i] = val[n + i] /\ new[i - 1] = val[n + (i - 1)]
      BY <2>4, <2>5
    <3>2. val[n + i] = After(unindexed[n + i], r, c, val[n + (i - 1)])
      <4>1. PICK k : k = n + i
        OBVIOUS
      <4>2. k \in 1..Len(unindexed) /\ k - 1 = n + (i - 1)
        BY <4>1, <2>4, <1>1
      <4>3. val[k] = After(unindexed[k], r, c, val[k - 1])
        BY <4>2, <2>1
      <4> QED
        BY ONLY <4>1, <4>2, <4>3
    <3>3. unindexed'[i] = unindexed[n + i]
      BY <1>1, <2>4
    <3> QED
      BY <3>1, <3>2, <3>3
  <2>9. /\ new[0] = RailCell(r, c)'
        /\ \A i \in 1..Len(unindexed') : new[i] = After(unindexed'[i], r, c, new[i - 1])
        /\ new[Len(unindexed')] = chainRail'[r][c]
    BY <1>1, <2>6, <2>7, <2>8 DEF m
  <2> QED
    BY <2>9, LedInNext
<1> QED
  BY <1>1, <1>2 DEF RailColumnInv

\* A batch moves the payments of its logs to the table.
LEMMA IndexRailsKeepsPayments ==
  ASSUME UnindexedShape, PaymentsInv, NEW n \in 0..Len(unindexed),
         payments' = CreatePayments(payments, SortLogs(SubSeq(unindexed, 1, n))),
         unindexed' = SubSeq(unindexed, n + 1, Len(unindexed)),
         chainPayments' = chainPayments
  PROVE  PaymentsInv'
<1> DEFINE logs == SortLogs(SubSeq(unindexed, 1, n))
           rest == SubSeq(unindexed, n + 1, Len(unindexed))
           A == PaymentRows(unindexed)
           B == PaymentRows(logs)
           C == PaymentRows(rest)
<1>1. unindexed \in Seq(RailLogs) /\ Len(unindexed) \in Nat /\ DOMAIN unindexed = 1..Len(unindexed)
  BY LenProperties DEF UnindexedShape
<1>2. \A x : Copies(x, A) = Copies(x, B) + Copies(x, C)
  BY <1>1, RowsOfBatch
<1>3. /\ DOMAIN logs = 1..n /\ DOMAIN rest = 1..(Len(unindexed) - n)
      /\ n \in Nat /\ Len(unindexed) - n \in Nat
  <2>1. DOMAIN logs = 1..n /\ DOMAIN rest = 1..(Len(unindexed) - n)
    BY ONLY <1>1, n \in 0..Len(unindexed), PrefixOfLogs
  <2> QED
    BY <2>1, <1>1
<1> HIDE DEF logs, rest
<1>4. IsABag(A) /\ IsABag(B) /\ IsABag(C) /\ IsABag(payments)
  <2>1. IsABag(A)
    BY <1>1, CopiesOfRows
  <2>2. IsABag(B)
    BY <1>3, CopiesOfRows
  <2>3. IsABag(C)
    BY <1>3, CopiesOfRows
  <2> QED
    BY <2>1, <2>2, <2>3 DEF PaymentsInv
<1>5. payments' = payments (+) B /\ chainPayments' = payments (+) A /\ unindexed' = rest
  BY DEF CreatePayments, PaymentsInv, logs, rest
<1> HIDE DEF A, B, C
<1>6. /\ IsABag(payments (+) B)
      /\ \A x : /\ Copies(x, payments) \in Nat /\ Copies(x, B) \in Nat
                /\ Copies(x, payments (+) B) = Copies(x, payments) + Copies(x, B)
  BY <1>4, UnitedBags
<1>7. /\ IsABag(payments (+) A)
      /\ \A x : Copies(x, payments (+) A) = Copies(x, payments) + Copies(x, A)
  BY <1>4, UnitedBags
<1>8. /\ IsABag((payments (+) B) (+) C)
      /\ \A x : /\ Copies(x, C) \in Nat
                /\ Copies(x, (payments (+) B) (+) C) = Copies(x, payments (+) B) + Copies(x, C)
  BY <1>4, <1>6, UnitedBags
<1>9. \A x : Copies(x, payments (+) A) = Copies(x, (payments (+) B) (+) C)
  BY <1>2, <1>6, <1>7, <1>8
<1>10. payments (+) A = (payments (+) B) (+) C
  BY <1>7, <1>8, <1>9, EqualBags
<1>11. IsABag(payments') /\ chainPayments' = payments' (+) PaymentRows(unindexed')
  BY <1>5, <1>6, <1>10 DEF C
<1> QED
  BY <1>11 DEF PaymentsInv, PaymentRows, PaymentRow, Payment, Total

\* A batch keeps the invariant.
LEMMA IndexRailsKeepsPayInv ==
  ASSUME PayInv, NEW b \in 1..MaxEpoch, IndexRails(b)
  PROVE  PayInv'
<1>1. UnindexedShape /\ RailRowsInv /\ RailOnceInv /\ RailColumnInv /\ PaymentsInv
  BY DEF PayInv
<1>2. PICK n \in 0..Len(unindexed) :
        /\ RailsIndexed(n, SortLogs(SubSeq(unindexed, 1, n)))
        /\ payments' = CreatePayments(payments, SortLogs(SubSeq(unindexed, 1, n)))
        /\ unindexed' = SubSeq(unindexed, n + 1, Len(unindexed))
  BY <1>1, RailsOfBatch
<1>3. PICK logs : logs = SortLogs(SubSeq(unindexed, 1, n))
  OBVIOUS
<1>4. RailsIndexed(n, logs)
  BY <1>2, <1>3
<1>5. chainPayments' = chainPayments
  BY <1>4 DEF RailsIndexed
<1>6. UnindexedShape'
  BY <1>1, <1>4, IndexRailsKeepsShape
<1>7. RailRowsInv'
  BY <1>1, <1>4, IndexRailsKeepsRows
<1>8. RailOnceInv'
  BY <1>1, <1>4, IndexRailsKeepsOnce
<1>9. RailColumnInv'
  BY <1>1, <1>4, IndexRailsKeepsColumns
<1>10. PaymentsInv'
  BY <1>1, <1>2, <1>5, IndexRailsKeepsPayments
<1> QED
  BY <1>6, <1>7, <1>8, <1>9, <1>10 DEF PayInv

-----------------------------------------------------------------------------
(* A call of the payment contract. *)

\* A call emits a log, and makes the payment that the log is of.
RailEmitted(l) ==
  /\ l \in RailLogs /\ RailTyped(l) /\ l.blockNumber = epoch
  /\ unindexed' = Append(unindexed, l)
  /\ UNCHANGED <<epoch, rails, payments, mixed>>
  /\ chainPayments' = IF Paying(l) THEN chainPayments (+) SetToBag({PaymentRow(l)}) ELSE chainPayments

\* A call changes the rail of its log as the log says, and ends or finalizes it once.
RailTold(l) ==
  /\ RailEmitted(l) /\ l.eventName # "RailCreated" /\ l.railId \in DOMAIN chainRail
  /\ DOMAIN chainRail' = DOMAIN chainRail
  /\ \A r \in DOMAIN chainRail :
        /\ chainRail'[r] \in RailColumns
        /\ \A c \in ColumnNames : chainRail'[r][c] = After(l, r, c, chainRail[r][c])
  /\ l.eventName = "RailTerminated" => chainRail[l.railId].endEpoch = 0
  /\ l.eventName = "RailFinalized" => ~chainRail[l.railId].finalized

\* The log of a call comes last.
LEMMA EmittedLogs ==
  ASSUME UnindexedShape, NEW l, RailEmitted(l)
  PROVE  LET m == Len(unindexed)
         IN /\ m \in Nat /\ DOMAIN unindexed = 1..m
            /\ Len(unindexed') = m + 1 /\ DOMAIN unindexed' = 1..(m + 1)
            /\ m + 1 \in DOMAIN unindexed' /\ unindexed'[m + 1] = l
            /\ \A i \in DOMAIN unindexed : i \in DOMAIN unindexed' /\ i # m + 1 /\ unindexed'[i] = unindexed[i]
            /\ \A i \in DOMAIN unindexed' : i = m + 1 \/ i \in DOMAIN unindexed
            /\ unindexed' \in Seq(RailLogs)
<1> DEFINE m == Len(unindexed)
<1>1. unindexed \in Seq(RailLogs) /\ l \in RailLogs /\ unindexed' = Append(unindexed, l)
  BY DEF UnindexedShape, RailEmitted
<1>2. m \in Nat /\ DOMAIN unindexed = 1..m
  BY <1>1, LenProperties
<1>3. /\ Append(unindexed, l) \in Seq(RailLogs) /\ Len(Append(unindexed, l)) = m + 1
      /\ \A i \in 1..m : Append(unindexed, l)[i] = unindexed[i]
      /\ Append(unindexed, l)[m + 1] = l
  BY <1>1, AppendProperties
<1>4. /\ unindexed' \in Seq(RailLogs) /\ Len(unindexed') = m + 1
      /\ unindexed'[m + 1] = l /\ \A i \in 1..m : unindexed'[i] = unindexed[i]
  BY <1>1, <1>3
<1>5. DOMAIN unindexed' = 1..(m + 1)
  BY <1>4, LenProperties
<1> HIDE DEF m
<1>6. /\ m + 1 \in 1..(m + 1) /\ \A i \in 1..m : i \in 1..(m + 1) /\ i # m + 1
      /\ \A i \in 1..(m + 1) : i = m + 1 \/ i \in 1..m
  BY <1>2
<1> QED
  BY <1>2, <1>4, <1>5, <1>6 DEF m

\* A call keeps the shape of the logs.
LEMMA EmittedKeepsShape ==
  ASSUME UnindexedShape, NEW l, RailEmitted(l)
  PROVE  UnindexedShape'
<1> DEFINE m == Len(unindexed)
<1>1. /\ m \in Nat /\ DOMAIN unindexed = 1..m /\ DOMAIN unindexed' = 1..(m + 1)
      /\ unindexed'[m + 1] = l
      /\ \A i \in DOMAIN unindexed : i # m + 1 /\ unindexed'[i] = unindexed[i]
      /\ \A i \in DOMAIN unindexed' : i = m + 1 \/ i \in DOMAIN unindexed
      /\ unindexed' \in Seq(RailLogs)
  BY EmittedLogs
<1>2. /\ epoch \in Nat \ {0} /\ epoch' = epoch
      /\ \A i \in DOMAIN unindexed : RailTyped(unindexed[i]) /\ unindexed[i].blockNumber <= epoch
      /\ \A i, j \in DOMAIN unindexed : i <= j => unindexed[i].blockNumber <= unindexed[j].blockNumber
      /\ RailTyped(l) /\ l.blockNumber = epoch
  BY DEF UnindexedShape, RailEmitted
<1> HIDE DEF m
<1>3. \A i \in DOMAIN unindexed' : RailTyped(unindexed'[i]) /\ unindexed'[i].blockNumber <= epoch
  <2> SUFFICES ASSUME NEW i \in DOMAIN unindexed'
               PROVE  RailTyped(unindexed'[i]) /\ unindexed'[i].blockNumber <= epoch
    OBVIOUS
  <2>1. CASE i = m + 1
    BY <2>1, <1>1, <1>2
  <2>2. CASE i \in DOMAIN unindexed
    BY <2>2, <1>1, <1>2
  <2> QED
    BY <2>1, <2>2, <1>1
<1>4. ASSUME NEW i \in DOMAIN unindexed', NEW j \in DOMAIN unindexed', i <= j
      PROVE  unindexed'[i].blockNumber <= unindexed'[j].blockNumber
  <2>1. CASE j = m + 1
    BY <2>1, <1>1, <1>2, <1>3
  <2>2. CASE j # m + 1
    <3>1. i \in DOMAIN unindexed /\ j \in DOMAIN unindexed
      BY <2>2, <1>1, <1>4
    <3> QED
      BY <3>1, <1>1, <1>2, <1>4
  <2> QED
    BY <2>1, <2>2
<1>5. \A i \in DOMAIN unindexed' : (RailTyped(unindexed[i]))' <=> RailTyped(unindexed'[i])
  BY DEF RailTyped, Total
<1> QED
  BY <1>1, <1>2, <1>3, <1>4, <1>5 DEF UnindexedShape

\* A call's payment is in the table or will be.
LEMMA EmittedKeepsPayments ==
  ASSUME UnindexedShape, PaymentsInv, NEW l, RailEmitted(l)
  PROVE  PaymentsInv'
<1> DEFINE A == PaymentRows(unindexed)
           B == SetToBag({PaymentRow(l)})
           D == PaymentRows(Append(unindexed, l))
<1>1. unindexed \in Seq(RailLogs) /\ l \in RailLogs
  BY DEF UnindexedShape, RailEmitted
<1>2. DOMAIN unindexed = 1..Len(unindexed) /\ Len(unindexed) \in Nat
  BY <1>1, LenProperties
<1>3. /\ ~Paying(l) => D = A
      /\ Paying(l) => D = A (+) B
  BY <1>1, OneMoreRow
<1>4. IsABag(A) /\ IsABag(B) /\ IsABag(payments)
  BY <1>2, CopiesOfRows, SmallBags DEF PaymentsInv
<1>5. /\ chainPayments = payments (+) A /\ payments' = payments
      /\ chainPayments' = IF Paying(l) THEN chainPayments (+) B ELSE chainPayments
      /\ unindexed' = Append(unindexed, l)
  BY DEF PaymentsInv, RailEmitted
<1> HIDE DEF A, B, D
<1>6. (payments (+) A) (+) B = payments (+) (A (+) B)
  <2>1. /\ IsABag(payments (+) A)
        /\ \A x : /\ Copies(x, payments) \in Nat /\ Copies(x, A) \in Nat
                  /\ Copies(x, payments (+) A) = Copies(x, payments) + Copies(x, A)
    BY <1>4, UnitedBags
  <2>2. /\ IsABag(A (+) B)
        /\ \A x : /\ Copies(x, B) \in Nat
                  /\ Copies(x, A (+) B) = Copies(x, A) + Copies(x, B)
    BY <1>4, UnitedBags
  <2>3. /\ IsABag((payments (+) A) (+) B)
        /\ \A x : Copies(x, (payments (+) A) (+) B) = Copies(x, payments (+) A) + Copies(x, B)
    BY <1>4, <2>1, UnitedBags
  <2>4. /\ IsABag(payments (+) (A (+) B))
        /\ \A x : Copies(x, payments (+) (A (+) B)) = Copies(x, payments) + Copies(x, A (+) B)
    BY <1>4, <2>2, UnitedBags
  <2>5. \A x : Copies(x, (payments (+) A) (+) B) = Copies(x, payments (+) (A (+) B))
    BY <2>1, <2>2, <2>3, <2>4
  <2> QED
    BY <2>3, <2>4, <2>5, EqualBags
<1>7. chainPayments' = payments (+) D
  BY <1>3, <1>5, <1>6
<1>8. IsABag(payments') /\ chainPayments' = payments' (+) PaymentRows(unindexed')
  BY <1>4, <1>5, <1>7 DEF D
<1> QED
  BY <1>8 DEF PaymentsInv, PaymentRows, PaymentRow, Payment, Total

\* The rows that the logs insert after a call.
LEMMA InsertedAfterCall ==
  ASSUME UnindexedShape, NEW l, RailEmitted(l), NEW r
  PROVE  /\ \A i \in DOMAIN unindexed : RailInserted(r, i) => InsertedIn(unindexed', r, i)
         /\ InsertedIn(unindexed', r, Len(unindexed) + 1) <=>
               RailInserted(r, Len(unindexed)) \/ (l.eventName = "RailCreated" /\ l.railId = r)
<1> DEFINE m == Len(unindexed)
<1>1. /\ m \in Nat /\ DOMAIN unindexed = 1..m /\ DOMAIN unindexed' = 1..(m + 1)
      /\ m + 1 \in DOMAIN unindexed' /\ unindexed'[m + 1] = l
      /\ \A i \in DOMAIN unindexed : i \in DOMAIN unindexed' /\ i # m + 1 /\ unindexed'[i] = unindexed[i]
      /\ \A i \in DOMAIN unindexed' : i = m + 1 \/ i \in DOMAIN unindexed
  BY EmittedLogs
<1> HIDE DEF m
<1>2. \A i \in DOMAIN unindexed : i <= m /\ i <= m + 1
  BY <1>1
<1>3. \A i \in DOMAIN unindexed : RailInserted(r, i) => InsertedIn(unindexed', r, i)
  BY <1>1 DEF RailInserted, InsertedIn
<1>4. m + 1 <= m + 1
  BY <1>1
<1>5. InsertedIn(unindexed', r, m + 1) <=>
        RailInserted(r, m) \/ (l.eventName = "RailCreated" /\ l.railId = r)
  <2>1. InsertedIn(unindexed', r, m + 1) <=> \E j \in DOMAIN unindexed' :
           unindexed'[j].eventName = "RailCreated" /\ unindexed'[j].railId = r
    BY <1>1, <1>2, <1>4 DEF InsertedIn
  <2>2. RailInserted(r, m) <=> \E j \in DOMAIN unindexed :
           unindexed[j].eventName = "RailCreated" /\ unindexed[j].railId = r
    BY <1>2 DEF RailInserted, InsertedIn
  <2> QED
    BY <2>1, <2>2, <1>1
<1> QED
  BY <1>3, <1>5 DEF m

-----------------------------------------------------------------------------
(* A told log keeps the invariant. *)

\* What stays true of a told rail: its creation, its end and its finalization.
LEMMA ToldRails ==
  ASSUME RailRowsInv, NEW l, RailTold(l), NEW r \in DOMAIN chainRail
  PROVE  /\ chainRail'[r].createdAtBlock = chainRail[r].createdAtBlock
         /\ chainRail[r].endEpoch > 0 => chainRail'[r].endEpoch > 0
         /\ chainRail[r].finalized => chainRail'[r].finalized
         /\ l.railId = r /\ l.eventName = "RailTerminated" => chainRail'[r].endEpoch > 0
         /\ l.railId = r /\ l.eventName = "RailFinalized" => chainRail'[r].finalized
<1>1. /\ chainRail'[r] \in RailColumns /\ chainRail[r] \in RailColumns
      /\ \A c \in ColumnNames : chainRail'[r][c] = After(l, r, c, chainRail[r][c])
      /\ l \in RailLogs /\ RailTyped(l)
  BY DEF RailTold, RailRowsInv, RailEmitted
<1>2. l.eventName \in RailEvents
  BY <1>1 DEF RailLogs
<1>3. /\ DOMAIN RailUpdate(l) \subseteq ColumnNames \ {"createdAtBlock"}
      /\ "endEpoch" \in DOMAIN RailUpdate(l) <=> l.eventName = "RailTerminated"
      /\ "finalized" \in DOMAIN RailUpdate(l) <=> l.eventName = "RailFinalized"
  BY <1>1, <1>2, RailUpdateColumns
<1>4. \A c \in ColumnNames : c \notin DOMAIN RailUpdate(l) \/ l.railId # r => chainRail'[r][c] = chainRail[r][c]
  BY <1>1 DEF After, Effect
<1>5. {"createdAtBlock", "endEpoch", "finalized"} \subseteq ColumnNames
  BY DEF ColumnNames
<1>6. chainRail'[r].createdAtBlock = chainRail[r].createdAtBlock
  BY <1>3, <1>4, <1>5
<1>7. ASSUME l.railId = r, l.eventName = "RailTerminated"
      PROVE  chainRail'[r].endEpoch > 0
  <2>1. RailUpdate(l) = [endEpoch |-> SetTo(l.args.endEpoch)]
    BY <1>7 DEF RailUpdate
  <2>2. l.args.endEpoch \in Nat \ {0}
    BY <1>1, <1>7 DEF RailTyped
  <2>3. After(l, r, "endEpoch", chainRail[r].endEpoch) = l.args.endEpoch
    BY <1>7, <2>1 DEF After, Effect, SetTo
  <2>4. chainRail'[r].endEpoch = l.args.endEpoch
    BY <1>1, <1>5, <2>3
  <2> QED
    BY <2>2, <2>4
<1>8. ASSUME l.railId = r, l.eventName = "RailFinalized"
      PROVE  chainRail'[r].finalized
  <2>1. RailUpdate(l) = [lockupFixed |-> SetTo(0), finalized |-> SetTo(TRUE)]
    BY <1>8 DEF RailUpdate
  <2>2. After(l, r, "finalized", chainRail[r].finalized) = TRUE
    <3> DEFINE u == RailUpdate(l)
    <3>1. "finalized" \in DOMAIN u /\ u["finalized"].op = "set" /\ u["finalized"].arg = TRUE
      BY <2>1 DEF SetTo
    <3> HIDE DEF u
    <3>2. \A v : Effect(u, "finalized", v) = TRUE
      BY <3>1 DEF Effect
    <3> QED
      BY <1>8, <3>2 DEF After, u
  <2>3. chainRail'[r].finalized = TRUE
    BY <1>1, <1>5, <2>2
  <2> QED
    BY <2>3
<1>9. chainRail[r].endEpoch > 0 => chainRail'[r].endEpoch > 0
  BY <1>3, <1>4, <1>5, <1>7
<1>10. chainRail[r].finalized => chainRail'[r].finalized
  BY <1>3, <1>4, <1>5, <1>8
<1> QED
  BY <1>6, <1>7, <1>8, <1>9, <1>10

\* A call about a rail keeps the rails known.
LEMMA ToldKeepsRows ==
  ASSUME UnindexedShape, RailRowsInv, NEW l, RailTold(l)
  PROVE  RailRowsInv'
<1> DEFINE m == Len(unindexed)
<1>1. /\ m \in Nat /\ DOMAIN unindexed = 1..m /\ Len(unindexed') = m + 1
      /\ m + 1 \in DOMAIN unindexed' /\ unindexed'[m + 1] = l
      /\ \A i \in DOMAIN unindexed : i \in DOMAIN unindexed' /\ i # m + 1 /\ unindexed'[i] = unindexed[i]
      /\ \A i \in DOMAIN unindexed' : i = m + 1 \/ i \in DOMAIN unindexed
  <2>1. RailEmitted(l)
    BY DEF RailTold
  <2> QED
    BY <2>1, EmittedLogs
<1> HIDE DEF m
<1>2. /\ RailEmitted(l) /\ l.eventName # "RailCreated" /\ l.railId \in DOMAIN chainRail
      /\ DOMAIN chainRail' = DOMAIN chainRail /\ rails' = rails
      /\ \A r \in DOMAIN chainRail : chainRail'[r] \in RailColumns
  BY DEF RailTold, RailEmitted
<1>3. /\ OldRails \subseteq DOMAIN chainRail /\ DOMAIN chainRail \subseteq Rails
      /\ \A r \in DOMAIN rails : rails[r] \in RailColumns
      /\ DOMAIN rails \subseteq DOMAIN chainRail \ OldRails
  BY DEF RailRowsInv
<1>4. \A r : /\ \A i \in DOMAIN unindexed : RailInserted(r, i) => InsertedIn(unindexed', r, i)
             /\ InsertedIn(unindexed', r, m + 1) <=> RailInserted(r, m)
  <2> TAKE r
  <2>1. /\ \A i \in DOMAIN unindexed : RailInserted(r, i) => InsertedIn(unindexed', r, i)
        /\ InsertedIn(unindexed', r, Len(unindexed) + 1) <=>
              RailInserted(r, Len(unindexed)) \/ (l.eventName = "RailCreated" /\ l.railId = r)
    BY <1>2, InsertedAfterCall
  <2> QED
    BY <2>1, <1>2 DEF m
<1>5. \A r \in DOMAIN chainRail \ OldRails : r \in DOMAIN rails \/ RailInserted(r, m)
  BY DEF RailRowsInv, m
<1>6. ASSUME NEW r \in DOMAIN chainRail \ OldRails
      PROVE  r \in DOMAIN rails' \/ RailInserted(r, Len(unindexed))'
  <2>1. RailInserted(r, Len(unindexed))' <=> InsertedIn(unindexed', r, m + 1)
    BY <1>1 DEF RailInserted
  <2> QED
    BY <2>1, <1>2, <1>4, <1>5
<1>7. ASSUME NEW i \in DOMAIN unindexed'
      PROVE  /\ unindexed'[i].railId \in DOMAIN chainRail
             /\ unindexed'[i].railId \in OldRails \cup DOMAIN rails
                   \/ InsertedIn(unindexed', unindexed'[i].railId, i)
             /\ unindexed'[i].eventName = "RailCreated" =>
                   /\ unindexed'[i].railId \notin OldRails \cup DOMAIN rails
                   /\ unindexed'[i].blockNumber = chainRail'[unindexed'[i].railId].createdAtBlock
  <2>1. CASE i \in DOMAIN unindexed
    <3> DEFINE r == unindexed[i].railId
    <3>1. /\ r \in DOMAIN chainRail
          /\ r \in OldRails \cup DOMAIN rails \/ RailInserted(r, i)
          /\ unindexed[i].eventName = "RailCreated" =>
                /\ r \notin OldRails \cup DOMAIN rails
                /\ unindexed[i].blockNumber = chainRail[r].createdAtBlock
      BY <2>1 DEF RailRowsInv
    <3>2. unindexed'[i] = unindexed[i] /\ unindexed'[i].railId = r
      BY <2>1, <1>1
    <3> HIDE DEF r
    <3>3. chainRail'[r].createdAtBlock = chainRail[r].createdAtBlock
      BY <3>1, ToldRails
    <3>4. RailInserted(r, i) => InsertedIn(unindexed', r, i)
      BY <2>1, <1>4
    <3> QED
      BY <3>1, <3>2, <3>3, <3>4
  <2>2. CASE i = m + 1
    <3>1. unindexed'[i] = l
      BY <2>2, <1>1
    <3>2. l.railId \in OldRails \cup DOMAIN rails \/ InsertedIn(unindexed', l.railId, i)
      BY <2>2, <1>2, <1>4, <1>5
    <3> QED
      BY <3>1, <3>2, <1>2
  <2> QED
    BY <2>1, <2>2, <1>1
<1>8. \A i \in DOMAIN unindexed' :
        (RailInserted(unindexed[i].railId, i))' <=> InsertedIn(unindexed', unindexed'[i].railId, i)
  BY DEF RailInserted
<1>9. ASSUME NEW i \in DOMAIN unindexed', NEW j \in DOMAIN unindexed',
             unindexed'[i].eventName = "RailCreated", unindexed'[j].eventName = "RailCreated",
             unindexed'[i].railId = unindexed'[j].railId
      PROVE  i = j
  <2>1. i \in DOMAIN unindexed /\ j \in DOMAIN unindexed
    BY <1>1, <1>2, <1>9
  <2>2. unindexed'[i] = unindexed[i] /\ unindexed'[j] = unindexed[j]
    BY <2>1, <1>1
  <2> QED
    BY <2>1, <2>2, <1>9 DEF RailRowsInv
<1> QED
  BY <1>2, <1>3, <1>6, <1>7, <1>8, <1>9 DEF RailRowsInv

\* A call ends or finalizes a rail that was not.
LEMMA ToldKeepsOnce ==
  ASSUME UnindexedShape, RailRowsInv, RailOnceInv, NEW l, RailTold(l)
  PROVE  RailOnceInv'
<1> DEFINE m == Len(unindexed)
<1>1. /\ unindexed'[m + 1] = l
      /\ \A i \in DOMAIN unindexed : unindexed'[i] = unindexed[i]
      /\ \A i \in DOMAIN unindexed' : i = m + 1 \/ i \in DOMAIN unindexed
  <2>1. RailEmitted(l)
    BY DEF RailTold
  <2> QED
    BY <2>1, EmittedLogs
<1> HIDE DEF m
<1>2. /\ l.railId \in DOMAIN chainRail
      /\ l.eventName = "RailTerminated" => chainRail[l.railId].endEpoch = 0
      /\ l.eventName = "RailFinalized" => ~chainRail[l.railId].finalized
  BY DEF RailTold
<1>3. ASSUME NEW i \in DOMAIN unindexed
      PROVE  /\ unindexed[i].railId \in DOMAIN chainRail
             /\ unindexed[i].eventName = "RailTerminated" => chainRail[unindexed[i].railId].endEpoch > 0
             /\ unindexed[i].eventName = "RailFinalized" => chainRail[unindexed[i].railId].finalized
  BY DEF RailRowsInv, RailOnceInv
<1>4. ASSUME NEW i \in DOMAIN unindexed'
      PROVE  /\ unindexed'[i].eventName = "RailTerminated" => chainRail'[unindexed'[i].railId].endEpoch > 0
             /\ unindexed'[i].eventName = "RailFinalized" => chainRail'[unindexed'[i].railId].finalized
  <2>1. CASE i \in DOMAIN unindexed
    <3> DEFINE r == unindexed[i].railId
    <3>1. unindexed'[i] = unindexed[i] /\ r \in DOMAIN chainRail
      BY <2>1, <1>1, <1>3
    <3>2. /\ chainRail[r].endEpoch > 0 => chainRail'[r].endEpoch > 0
          /\ chainRail[r].finalized => chainRail'[r].finalized
      BY <3>1, ToldRails
    <3> QED
      BY <2>1, <3>1, <3>2, <1>3
  <2>2. CASE i = m + 1
    <3>1. /\ l.eventName = "RailTerminated" => chainRail'[l.railId].endEpoch > 0
          /\ l.eventName = "RailFinalized" => chainRail'[l.railId].finalized
      BY <1>2, ToldRails
    <3> QED
      BY <2>2, <3>1, <1>1
  <2> QED
    BY <2>1, <2>2, <1>1
<1>5. ASSUME NEW i \in DOMAIN unindexed,
             unindexed[i].eventName \in {"RailTerminated", "RailFinalized"},
             unindexed[i].eventName = l.eventName, unindexed[i].railId = l.railId
      PROVE  FALSE
  <2>1. CASE l.eventName = "RailTerminated"
    <3>1. chainRail[l.railId].endEpoch > 0 /\ chainRail[l.railId].endEpoch = 0
      BY <2>1, <1>2, <1>3, <1>5
    <3> QED
      BY <3>1
  <2>2. CASE l.eventName = "RailFinalized"
    BY <2>2, <1>2, <1>3, <1>5
  <2> QED
    BY <2>1, <2>2, <1>5
<1>6. ASSUME NEW i \in DOMAIN unindexed', NEW j \in DOMAIN unindexed',
             unindexed'[i].eventName \in {"RailTerminated", "RailFinalized"},
             unindexed'[i].eventName = unindexed'[j].eventName,
             unindexed'[i].railId = unindexed'[j].railId
      PROVE  i = j
  <2>1. CASE i \in DOMAIN unindexed /\ j \in DOMAIN unindexed
    <3>1. unindexed'[i] = unindexed[i] /\ unindexed'[j] = unindexed[j]
      BY <2>1, <1>1
    <3> QED
      BY <2>1, <3>1, <1>6 DEF RailOnceInv
  <2>2. CASE i = m + 1 /\ j \in DOMAIN unindexed
    BY <2>2, <1>1, <1>5, <1>6
  <2>3. CASE j = m + 1 /\ i \in DOMAIN unindexed
    BY <2>3, <1>1, <1>5, <1>6
  <2> QED
    BY <2>1, <2>2, <2>3, <1>1
<1> QED
  BY <1>4, <1>6 DEF RailOnceInv

\* A column led to the contract's is led on by the log of a call.
LEMMA LedOn ==
  ASSUME UnindexedShape, NEW l, RailEmitted(l), NEW r, NEW c, Leads(r, c),
         RailCell(r, c)' = RailCell(r, c),
         chainRail'[r][c] = After(l, r, c, chainRail[r][c])
  PROVE  Leads(r, c)'
<1> DEFINE m == Len(unindexed)
<1>1. /\ m \in Nat /\ DOMAIN unindexed = 1..m /\ Len(unindexed') = m + 1
      /\ unindexed'[m + 1] = l
      /\ \A i \in DOMAIN unindexed : unindexed'[i] = unindexed[i]
  BY EmittedLogs
<1>2. PICK val : /\ val[0] = RailCell(r, c)
                 /\ \A i \in 1..m : val[i] = After(unindexed[i], r, c, val[i - 1])
                 /\ val[m] = chainRail[r][c]
  BY DEF Leads
<1> HIDE DEF m
<1> DEFINE new == [i \in 0..(m + 1) |-> IF i = m + 1 THEN chainRail'[r][c] ELSE val[i]]
<1>3. /\ 0 \in 0..(m + 1) /\ 0 # m + 1 /\ m + 1 \in 0..(m + 1) /\ m \in 0..(m + 1) /\ m # m + 1
      /\ m + 1 - 1 = m
      /\ \A i \in 1..m : i \in 0..(m + 1) /\ i # m + 1 /\ i - 1 \in 0..(m + 1) /\ i - 1 # m + 1
      /\ \A i \in 1..(m + 1) : i \in 1..m \/ i = m + 1
  BY <1>1
<1>4. new[m + 1] = chainRail'[r][c] /\ \A i \in 0..(m + 1) : i # m + 1 => new[i] = val[i]
  BY <1>3
<1> HIDE DEF new
<1>5. new[0] = RailCell(r, c)'
  BY <1>2, <1>3, <1>4
<1>6. ASSUME NEW i \in 1..(m + 1)
      PROVE  new[i] = After(unindexed'[i], r, c, new[i - 1])
  <2>1. CASE i \in 1..m
    <3>1. new[i] = val[i] /\ new[i - 1] = val[i - 1] /\ unindexed'[i] = unindexed[i]
      BY <2>1, <1>1, <1>3, <1>4
    <3> QED
      BY <2>1, <3>1, <1>2
  <2>2. CASE i = m + 1
    <3>1. i - 1 = m
      BY <2>2, <1>1
    <3>2. new[i - 1] = chainRail[r][c] /\ new[i] = chainRail'[r][c] /\ unindexed'[i] = l
      BY <2>2, <3>1, <1>1, <1>2, <1>3, <1>4
    <3> QED
      BY <3>2
  <2> QED
    BY <2>1, <2>2, <1>3
<1> QED
  BY <1>1, <1>4, <1>5, <1>6, LedInNext

\* A call about a rail leads its columns on.
LEMMA ToldKeepsColumns ==
  ASSUME UnindexedShape, RailRowsInv, RailColumnInv, NEW l, RailTold(l)
  PROVE  RailColumnInv'
<1>1. /\ RailEmitted(l) /\ DOMAIN chainRail' = DOMAIN chainRail /\ rails' = rails /\ mixed' = mixed
      /\ \A r \in DOMAIN chainRail : \A c \in ColumnNames :
            chainRail'[r][c] = After(l, r, c, chainRail[r][c])
  BY DEF RailTold, RailEmitted
<1>2. ASSUME NEW r \in DOMAIN chainRail \ OldRails, NEW c \in ColumnNames,
             r \notin mixed' \/ c \in OneShot
      PROVE  Leads(r, c)'
  <2>1. Leads(r, c)
    BY <1>1, <1>2 DEF RailColumnInv
  <2>2. chainRail'[r].createdAtBlock = chainRail[r].createdAtBlock
    BY ToldRails
  <2>3. RailCell(r, c)' = RailCell(r, c)
    BY <1>1, <2>2 DEF RailCell
  <2>4. chainRail'[r][c] = After(l, r, c, chainRail[r][c])
    BY <1>1
  <2> QED
    BY <1>1, <2>1, <2>3, <2>4, LedOn
<1> QED
  BY <1>1, <1>2 DEF RailColumnInv

\* A call about a rail keeps the invariant.
LEMMA ToldKeepsPayInv ==
  ASSUME PayInv, NEW l, RailTold(l)
  PROVE  PayInv'
<1>1. UnindexedShape /\ RailRowsInv /\ RailOnceInv /\ RailColumnInv /\ PaymentsInv /\ RailEmitted(l)
  BY DEF PayInv, RailTold
<1> QED
  BY <1>1, EmittedKeepsShape, EmittedKeepsPayments, ToldKeepsRows, ToldKeepsOnce, ToldKeepsColumns
     DEF PayInv

-----------------------------------------------------------------------------
(* The contract's calls keep the invariant. *)

\* What a call writes to its rail.
LEMMA ChangedRail ==
  ASSUME RailRowsInv, NEW r \in DOMAIN chainRail, NEW update, Change(r, update),
         DOMAIN update \subseteq ColumnNames,
         \A c \in DOMAIN update : update[c] \in ColumnType(c)
  PROVE  /\ DOMAIN chainRail' = DOMAIN chainRail
         /\ \A x \in DOMAIN chainRail : chainRail'[x] \in RailColumns
         /\ \A x \in DOMAIN chainRail \ {r} : chainRail'[x] = chainRail[x]
         /\ \A c \in ColumnNames :
               chainRail'[r][c] = IF c \in DOMAIN update THEN update[c] ELSE chainRail[r][c]
<1> DEFINE new == Spread(chainRail[r], update)
<1>1. chainRail' = [chainRail EXCEPT ![r] = new]
  BY DEF Change
<1>2. \A x \in DOMAIN chainRail : chainRail[x] \in RailColumns
  BY DEF RailRowsInv
<1>3. DOMAIN chainRail[r] = ColumnNames /\ \A c \in ColumnNames : chainRail[r][c] \in ColumnType(c)
  BY <1>2, RowColumns
<1>4. /\ DOMAIN new = ColumnNames /\ new = [c \in DOMAIN new |-> new[c]]
      /\ \A c \in ColumnNames : new[c] = IF c \in DOMAIN update THEN update[c] ELSE chainRail[r][c]
  <2> DEFINE v(c) == IF c \in DOMAIN update THEN update[c] ELSE chainRail[r][c]
  <2>1. new = [c \in DOMAIN chainRail[r] \cup DOMAIN update |-> v(c)]
    BY DEF Spread
  <2>2. DOMAIN chainRail[r] \cup DOMAIN update = ColumnNames
    BY <1>3
  <2> HIDE DEF new, v
  <2>3. new = [c \in ColumnNames |-> v(c)]
    BY <2>1, <2>2
  <2>4. DOMAIN new = ColumnNames /\ \A c \in ColumnNames : new[c] = v(c)
    BY <2>3
  <2>5. new = [c \in DOMAIN new |-> new[c]]
    BY <2>3
  <2> QED
    BY <2>4, <2>5 DEF v
<1> HIDE DEF new
<1>5. \A c \in ColumnNames : new[c] \in ColumnType(c)
  BY <1>3, <1>4
<1>6. new \in RailColumns
  BY <1>4, <1>5, RowColumns
<1>7. /\ DOMAIN chainRail' = DOMAIN chainRail /\ chainRail'[r] = new
      /\ \A x \in DOMAIN chainRail \ {r} : chainRail'[x] = chainRail[x]
  BY <1>1
<1> QED
  BY <1>2, <1>4, <1>6, <1>7

\* A call that emits a log of its rail and changes it as the log says tells it.
LEMMA TellsRail ==
  ASSUME RailRowsInv, NEW l, RailEmitted(l), l.eventName # "RailCreated", l.railId \in DOMAIN chainRail,
         NEW update, Change(l.railId, update), DOMAIN update \subseteq ColumnNames,
         \A c \in DOMAIN update : update[c] \in ColumnType(c),
         DOMAIN RailUpdate(l) = DOMAIN update,
         \A c \in DOMAIN update : Effect(RailUpdate(l), c, chainRail[l.railId][c]) = update[c],
         l.eventName = "RailTerminated" => chainRail[l.railId].endEpoch = 0,
         l.eventName = "RailFinalized" => ~chainRail[l.railId].finalized
  PROVE  RailTold(l)
<1> DEFINE r == l.railId
<1>1. /\ DOMAIN chainRail' = DOMAIN chainRail
      /\ \A x \in DOMAIN chainRail : chainRail'[x] \in RailColumns
      /\ \A x \in DOMAIN chainRail \ {r} : chainRail'[x] = chainRail[x]
      /\ \A c \in ColumnNames :
            chainRail'[r][c] = IF c \in DOMAIN update THEN update[c] ELSE chainRail[r][c]
  BY ChangedRail
<1>2. \A c \in ColumnNames : chainRail'[r][c] = Effect(RailUpdate(l), c, chainRail[r][c])
  <2> SUFFICES ASSUME NEW c \in ColumnNames
               PROVE  chainRail'[r][c] = Effect(RailUpdate(l), c, chainRail[r][c])
    OBVIOUS
  <2>1. CASE c \in DOMAIN update
    BY <1>1, <2>1
  <2>2. CASE c \notin DOMAIN update
    <3>1. c \notin DOMAIN RailUpdate(l)
      BY <2>2
    <3>2. Effect(RailUpdate(l), c, chainRail[r][c]) = chainRail[r][c]
      BY <3>1 DEF Effect
    <3> QED
      BY <1>1, <2>2, <3>2
  <2> QED
    BY <2>1, <2>2
<1>3. ASSUME NEW x \in DOMAIN chainRail, NEW c \in ColumnNames
      PROVE  chainRail'[x][c] = After(l, x, c, chainRail[x][c])
  <2>1. CASE x = r
    BY <1>2, <2>1 DEF After
  <2>2. CASE x # r
    <3>1. After(l, x, c, chainRail[x][c]) = chainRail[x][c]
      BY <2>2 DEF After
    <3> QED
      BY <1>1, <2>2, <3>1
  <2> QED
    BY <2>1, <2>2
<1> QED
  BY <1>1, <1>3 DEF RailTold

\* A log of a call, typed, with the payment it is of.
LEMMA EmitsLog ==
  ASSUME UnindexedShape, RailRowsInv, NEW event \in RailEvents, NEW r \in Rails,
         NEW args \in RailArguments, EmitRailLog(event, r, args),
         RailTyped(RailLog(event, r, args)),
         IF Paying(RailLog(event, r, args)) THEN Pay(PaymentRow(RailLog(event, r, args)))
                                            ELSE chainPayments' = chainPayments
  PROVE  RailEmitted(RailLog(event, r, args))
<1> DEFINE l == RailLog(event, r, args)
<1>1. epoch \in Nat
  BY DEF UnindexedShape
<1>2. l \in RailLogs /\ l.blockNumber = epoch
  BY <1>1 DEF RailLog, RailLogs
<1>3. unindexed' = Append(unindexed, l) /\ UNCHANGED <<epoch, rails, payments, mixed>>
  BY DEF EmitRailLog, payTables
<1> HIDE DEF l
<1>4. chainPayments' = IF Paying(l) THEN chainPayments (+) SetToBag({PaymentRow(l)}) ELSE chainPayments
  BY DEF Pay, l
<1> QED
  BY <1>2, <1>3, <1>4 DEF RailEmitted, l

\* The fixed lockup is what the call sets.
LEMMA RailLockupModifiedTells ==
  ASSUME UnindexedShape, RailRowsInv, NEW r \in Rails, NEW new \in Amounts, RailLockupModified(r, new)
  PROVE  \E l : RailTold(l)
<1> DEFINE args == [newLockupFixed |-> new]
           l == RailLog("RailLockupModified", r, args)
           update == [lockupFixed |-> new]
<1>1. /\ r \in DOMAIN chainRail /\ EmitRailLog("RailLockupModified", r, args)
      /\ Change(r, update) /\ chainPayments' = chainPayments
  BY DEF RailLockupModified, Live
<1>2. new \in Nat /\ epoch \in Nat
  BY PayConstantsAssumption DEF UnindexedShape
<1>3. args \in RailArguments /\ args.newLockupFixed = new
  BY <1>2 DEF RailArguments
<1>4. DOMAIN update = {"lockupFixed"} /\ update["lockupFixed"] = new
  OBVIOUS
<1> HIDE DEF args, update
<1>5. /\ l.eventName = "RailLockupModified" /\ l.railId = r /\ l.blockNumber = epoch /\ l.args = args
  BY DEF RailLog
<1> HIDE DEF l
<1>6. RailTyped(l) /\ ~Paying(l)
  BY <1>2, <1>3, <1>5 DEF RailTyped, Paying
<1>7. RailEmitted(l)
  BY <1>1, <1>3, <1>6, EmitsLog DEF l, RailEvents
<1>8. RailUpdate(l) = [lockupFixed |-> SetTo(new)]
  BY <1>3, <1>5 DEF RailUpdate
<1>9. DOMAIN RailUpdate(l) = {"lockupFixed"}
  BY <1>8
<1>10. \A v : Effect(RailUpdate(l), "lockupFixed", v) = new
  BY <1>8 DEF Effect, SetTo
<1>11. new \in ColumnType("lockupFixed") /\ "lockupFixed" \in ColumnNames
  BY <1>2 DEF ColumnType, ColumnNames
<1>12. RailTold(l)
  BY <1>1, <1>4, <1>5, <1>7, <1>9, <1>10, <1>11, TellsRail
<1> QED
  BY <1>12

\* The payment rate is what the call sets, and a first rate starts the rail.
LEMMA RailRateModifiedTells ==
  ASSUME UnindexedShape, RailRowsInv, NEW r \in Rails, NEW new \in Amounts, RailRateModified(r, new)
  PROVE  \E l : RailTold(l)
<1> DEFINE old == chainRail[r].paymentRate
           args == [oldRate |-> old, newRate |-> new]
           l == RailLog("RailRateModified", r, args)
           update == IF old = 0
                     THEN [paymentRate |-> new, activatedAtBlock |-> epoch, settledUpTo |-> epoch]
                     ELSE [paymentRate |-> new]
<1>1. /\ r \in DOMAIN chainRail /\ EmitRailLog("RailRateModified", r, args)
      /\ Change(r, update) /\ chainPayments' = chainPayments /\ new # old
  BY DEF RailRateModified, Live
<1>2. new \in Nat /\ epoch \in Nat
  BY PayConstantsAssumption DEF UnindexedShape
<1>3. old \in Nat
  BY <1>1 DEF RailRowsInv, RailColumns
<1> HIDE DEF old
<1>4. args \in RailArguments /\ args.newRate = new /\ args.oldRate = old
  BY <1>2, <1>3 DEF RailArguments
<1> DEFINE columns == IF old = 0 THEN {"paymentRate", "activatedAtBlock", "settledUpTo"}
                                 ELSE {"paymentRate"}
           value(c) == IF c = "paymentRate" THEN new ELSE epoch
<1>5. DOMAIN update = columns /\ \A c \in columns : update[c] = value(c)
  OBVIOUS
<1> HIDE DEF args, update
<1>6. /\ l.eventName = "RailRateModified" /\ l.railId = r /\ l.blockNumber = epoch /\ l.args = args
  BY DEF RailLog
<1> HIDE DEF l
<1>7. RailTyped(l) /\ ~Paying(l)
  BY <1>2, <1>4, <1>6 DEF RailTyped, Paying
<1>8. RailEmitted(l)
  BY <1>1, <1>4, <1>7, EmitsLog DEF l, RailEvents
<1>9. RailUpdate(l) = IF old = 0
        THEN [paymentRate |-> SetTo(new), activatedAtBlock |-> SetTo(epoch), settledUpTo |-> SetTo(epoch)]
        ELSE [paymentRate |-> SetTo(new)]
  <2>1. RailUpdate(l) = IF l.args.oldRate = 0 /\ l.args.newRate > 0
         THEN [paymentRate |-> SetTo(l.args.newRate),
               activatedAtBlock |-> SetTo(l.blockNumber),
               settledUpTo |-> SetTo(l.blockNumber)]
         ELSE [paymentRate |-> SetTo(l.args.newRate)]
    BY <1>6 DEF RailUpdate
  <2>2. old = 0 => new > 0
    BY <1>1, <1>2
  <2> QED
    BY <2>1, <2>2, <1>4, <1>6
<1>10. DOMAIN RailUpdate(l) = columns /\ \A c \in columns : RailUpdate(l)[c] = SetTo(value(c))
  BY <1>9
<1>11. \A c \in columns : \A v : Effect(RailUpdate(l), c, v) = value(c)
  <2> HIDE DEF value, columns
  <2>1. \A c \in columns : RailUpdate(l)[c].op = "set" /\ RailUpdate(l)[c].arg = value(c)
    BY <1>10 DEF SetTo
  <2> QED
    BY <1>10, <2>1 DEF Effect
<1>12. columns \subseteq ColumnNames /\ \A c \in columns : value(c) \in ColumnType(c)
  BY <1>2 DEF ColumnType, ColumnNames
<1> HIDE DEF columns, value
<1>13. RailTold(l)
  BY <1>1, <1>5, <1>6, <1>8, <1>10, <1>11, <1>12, TellsRail
<1> QED
  BY <1>13

\* A one-time payment is taken from the fixed lockup.
LEMMA RailOneTimePaymentTells ==
  ASSUME UnindexedShape, RailRowsInv, NEW r \in Rails, NEW net \in Amounts, NEW fees \in Fees,
         RailOneTimePaymentProcessed(r, net, fees)
  PROVE  \E l : RailTold(l)
<1> DEFINE args == [netPayeeAmount |-> net, fees |-> fees]
           l == RailLog("RailOneTimePaymentProcessed", r, args)
           left == chainRail[r].lockupFixed - (net + fees)
           update == [lockupFixed |-> left]
<1>1. /\ r \in DOMAIN chainRail /\ EmitRailLog("RailOneTimePaymentProcessed", r, args)
      /\ Change(r, update) /\ Pay(Payment(r, net + fees, TRUE, epoch))
  BY DEF RailOneTimePaymentProcessed, Live
<1>2. net \in Nat /\ fees \in Nat /\ epoch \in Nat
  BY PayConstantsAssumption DEF UnindexedShape
<1>3. args \in RailArguments /\ args.netPayeeAmount = net /\ args.fees = fees
  BY <1>2 DEF RailArguments
<1>4. left \in Int
  <2>1. chainRail[r].lockupFixed \in Int
    BY <1>1 DEF RailRowsInv, RailColumns
  <2> QED
    BY <2>1, <1>2
<1>5. DOMAIN update = {"lockupFixed"} /\ update["lockupFixed"] = left
  OBVIOUS
<1> HIDE DEF args, update
<1>6. /\ l.eventName = "RailOneTimePaymentProcessed" /\ l.railId = r /\ l.blockNumber = epoch
      /\ l.args = args
  BY DEF RailLog
<1> HIDE DEF l
<1>7. Total(l) = net + fees /\ Total(l) \in Nat
  BY <1>2, <1>3, <1>6 DEF Total
<1>8. RailTyped(l) /\ Paying(l)
  BY <1>2, <1>6, <1>7 DEF RailTyped, Paying
<1>9. PaymentRow(l) = Payment(r, net + fees, TRUE, epoch)
  BY <1>6, <1>7 DEF PaymentRow
<1>10. RailEmitted(l)
  <2>1. Pay(PaymentRow(l))
    BY <1>1, <1>9
  <2> QED
    BY <2>1, <1>1, <1>3, <1>8, EmitsLog DEF l, RailEvents
<1>11. RailUpdate(l) = [lockupFixed |-> Decrement(net + fees)]
  BY <1>6, <1>7 DEF RailUpdate
<1>12. DOMAIN RailUpdate(l) = {"lockupFixed"}
  BY <1>11
<1>13. Effect(RailUpdate(l), "lockupFixed", chainRail[r]["lockupFixed"]) = left
  <2>1. \A v : Effect(RailUpdate(l), "lockupFixed", v) = v - (net + fees)
    BY <1>11 DEF Effect, Decrement
  <2> QED
    BY <2>1
<1>14. left \in ColumnType("lockupFixed") /\ "lockupFixed" \in ColumnNames
  BY <1>4 DEF ColumnType, ColumnNames
<1> HIDE DEF left
<1>15. RailTold(l)
  BY <1>1, <1>5, <1>6, <1>10, <1>12, <1>13, <1>14, TellsRail
<1> QED
  BY <1>15

-----------------------------------------------------------------------------
(* Settlements, ends and finalizations. *)

\* A settlement moves the rail's settled epoch up and pays for the epochs between.
LEMMA RailSettledTells ==
  ASSUME UnindexedShape, RailRowsInv, NEW r \in Rails, RailSettled(r)
  PROVE  \E l : RailTold(l)
<1> DEFINE amount == chainRail[r].paymentRate * (epoch - chainRail[r].settledUpTo)
           args == [settledUpTo |-> epoch, totalSettledAmount |-> amount]
           l == RailLog("RailSettled", r, args)
           update == [settledUpTo |-> epoch]
<1>1. /\ r \in DOMAIN chainRail /\ EmitRailLog("RailSettled", r, args)
      /\ Change(r, update) /\ Pay(Payment(r, amount, FALSE, epoch))
  BY DEF RailSettled, Live
<1>2. epoch \in Nat
  BY DEF UnindexedShape
<1>3. amount \in Int
  <2>1. chainRail[r].paymentRate \in Int /\ epoch - chainRail[r].settledUpTo \in Int
    BY <1>1, <1>2 DEF RailRowsInv, RailColumns
  <2> QED
    BY <2>1
<1> HIDE DEF amount
<1>4. args \in RailArguments /\ args.settledUpTo = epoch /\ args.totalSettledAmount = amount
  BY <1>2, <1>3 DEF RailArguments
<1>5. DOMAIN update = {"settledUpTo"} /\ update["settledUpTo"] = epoch
  OBVIOUS
<1> HIDE DEF args, update
<1>6. /\ l.eventName = "RailSettled" /\ l.railId = r /\ l.blockNumber = epoch /\ l.args = args
  BY DEF RailLog
<1> HIDE DEF l
<1>7. RailTyped(l) /\ Paying(l)
  BY <1>2, <1>4, <1>6 DEF RailTyped, Paying
<1>8. PaymentRow(l) = Payment(r, amount, FALSE, epoch)
  BY <1>4, <1>6 DEF PaymentRow
<1>9. RailEmitted(l)
  <2>1. Pay(PaymentRow(l))
    BY <1>1, <1>8
  <2> QED
    BY <2>1, <1>1, <1>4, <1>7, EmitsLog DEF l, RailEvents
<1>10. RailUpdate(l) = [settledUpTo |-> SetTo(epoch)]
  BY <1>4, <1>6 DEF RailUpdate
<1>11. DOMAIN RailUpdate(l) = {"settledUpTo"}
  BY <1>10
<1>12. \A v : Effect(RailUpdate(l), "settledUpTo", v) = epoch
  BY <1>10 DEF Effect, SetTo
<1>13. epoch \in ColumnType("settledUpTo") /\ "settledUpTo" \in ColumnNames
  BY <1>2 DEF ColumnType, ColumnNames
<1>14. RailTold(l)
  BY <1>1, <1>5, <1>6, <1>9, <1>11, <1>12, <1>13, TellsRail
<1> QED
  BY <1>14

\* A rail is terminated once, at the epoch of the call.
LEMMA RailTerminatedTells ==
  ASSUME UnindexedShape, RailRowsInv, NEW r \in Rails, RailTerminated(r)
  PROVE  \E l : RailTold(l)
<1> DEFINE args == [endEpoch |-> epoch]
           l == RailLog("RailTerminated", r, args)
           update == [endEpoch |-> epoch]
<1>1. /\ r \in DOMAIN chainRail /\ EmitRailLog("RailTerminated", r, args)
      /\ Change(r, update) /\ chainPayments' = chainPayments /\ chainRail[r].endEpoch = 0
  BY DEF RailTerminated, Live
<1>2. epoch \in Nat \ {0}
  BY DEF UnindexedShape
<1>3. args \in RailArguments /\ args.endEpoch = epoch
  BY <1>2 DEF RailArguments
<1>4. DOMAIN update = {"endEpoch"} /\ update["endEpoch"] = epoch
  OBVIOUS
<1> HIDE DEF args, update
<1>5. /\ l.eventName = "RailTerminated" /\ l.railId = r /\ l.blockNumber = epoch /\ l.args = args
  BY DEF RailLog
<1> HIDE DEF l
<1>6. RailTyped(l) /\ ~Paying(l)
  BY <1>2, <1>3, <1>5 DEF RailTyped, Paying
<1>7. RailEmitted(l)
  BY <1>1, <1>3, <1>6, EmitsLog DEF l, RailEvents
<1>8. RailUpdate(l) = [endEpoch |-> SetTo(epoch)]
  BY <1>3, <1>5 DEF RailUpdate
<1>9. DOMAIN RailUpdate(l) = {"endEpoch"}
  BY <1>8
<1>10. \A v : Effect(RailUpdate(l), "endEpoch", v) = epoch
  BY <1>8 DEF Effect, SetTo
<1>11. epoch \in ColumnType("endEpoch") /\ "endEpoch" \in ColumnNames
  BY <1>2 DEF ColumnType, ColumnNames
<1>12. RailTold(l)
  BY <1>1, <1>4, <1>5, <1>7, <1>9, <1>10, <1>11, TellsRail
<1> QED
  BY <1>12

\* A rail is finalized once, and its fixed lockup released.
LEMMA RailFinalizedTells ==
  ASSUME UnindexedShape, RailRowsInv, NEW r \in Rails, RailFinalized(r)
  PROVE  \E l : RailTold(l)
<1> DEFINE l == RailLog("RailFinalized", r, <<>>)
           update == [lockupFixed |-> 0, finalized |-> TRUE]
<1>1. /\ r \in DOMAIN chainRail /\ EmitRailLog("RailFinalized", r, <<>>)
      /\ Change(r, update) /\ chainPayments' = chainPayments /\ ~chainRail[r].finalized
  BY DEF RailFinalized, Live
<1>2. epoch \in Nat
  BY DEF UnindexedShape
<1>3. <<>> \in RailArguments
  BY DEF RailArguments
<1>4. /\ DOMAIN update = {"lockupFixed", "finalized"}
      /\ update["lockupFixed"] = 0 /\ update["finalized"] = TRUE
  OBVIOUS
<1> HIDE DEF update
<1>5. /\ l.eventName = "RailFinalized" /\ l.railId = r /\ l.blockNumber = epoch
  BY DEF RailLog
<1> HIDE DEF l
<1>6. RailTyped(l) /\ ~Paying(l)
  BY <1>2, <1>5 DEF RailTyped, Paying
<1>7. RailEmitted(l)
  BY <1>1, <1>3, <1>6, EmitsLog DEF l, RailEvents
<1>8. RailUpdate(l) = [lockupFixed |-> SetTo(0), finalized |-> SetTo(TRUE)]
  BY <1>5 DEF RailUpdate
<1> DEFINE u == RailUpdate(l)
<1>9. /\ DOMAIN u = {"lockupFixed", "finalized"}
      /\ u["lockupFixed"].op = "set" /\ u["lockupFixed"].arg = 0
      /\ u["finalized"].op = "set" /\ u["finalized"].arg = TRUE
  BY <1>8 DEF SetTo
<1> HIDE DEF u
<1>10. \A v : Effect(u, "lockupFixed", v) = 0
  BY <1>9 DEF Effect
<1>11. \A v : Effect(u, "finalized", v) = TRUE
  BY <1>9 DEF Effect
<1>12. \A c \in DOMAIN update : Effect(u, c, chainRail[r][c]) = update[c]
  <2> SUFFICES ASSUME NEW c \in DOMAIN update PROVE Effect(u, c, chainRail[r][c]) = update[c]
    OBVIOUS
  <2>1. CASE c = "lockupFixed"
    BY <2>1, <1>4, <1>10
  <2>2. CASE c = "finalized"
    BY <2>2, <1>4, <1>11
  <2> QED
    BY <2>1, <2>2, <1>4
<1>13. DOMAIN update \subseteq ColumnNames /\ \A c \in DOMAIN update : update[c] \in ColumnType(c)
  <2>1. update["lockupFixed"] \in ColumnType("lockupFixed")
    BY <1>4 DEF ColumnType
  <2>2. update["finalized"] \in ColumnType("finalized")
    BY <1>4 DEF ColumnType
  <2> QED
    BY <2>1, <2>2, <1>4 DEF ColumnNames
<1>14. DOMAIN RailUpdate(l) = DOMAIN update
  BY <1>4, <1>9 DEF u
<1>15. RailTold(l)
  BY <1>1, <1>5, <1>7, <1>12, <1>13, <1>14, TellsRail DEF u
<1> QED
  BY <1>15

\* A new rail has the columns of a new row, and a log that will insert it.
LEMMA RailCreatedKeepsPayInv ==
  ASSUME PayInv, NEW r \in Rails, RailCreated(r)
  PROVE  PayInv'
<1> DEFINE l == RailLog("RailCreated", r, <<>>)
           m == Len(unindexed)
           row == CreatedRail(epoch)
<1>1. UnindexedShape /\ RailRowsInv /\ RailOnceInv /\ RailColumnInv /\ PaymentsInv
  BY DEF PayInv
<1>2. /\ r \notin DOMAIN chainRail /\ EmitRailLog("RailCreated", r, <<>>)
      /\ chainRail' = Spread(chainRail, [x \in {r} |-> row]) /\ chainPayments' = chainPayments
  BY DEF RailCreated
<1>3. epoch \in Nat
  BY <1>1 DEF UnindexedShape
<1>4. <<>> \in RailArguments
  BY DEF RailArguments
<1>5. l.eventName = "RailCreated" /\ l.railId = r /\ l.blockNumber = epoch
  BY DEF RailLog
<1> HIDE DEF l
<1>6. RailTyped(l) /\ ~Paying(l)
  BY <1>3, <1>5 DEF RailTyped, Paying
<1>7. RailEmitted(l)
  BY <1>1, <1>2, <1>4, <1>6, EmitsLog DEF l, RailEvents
<1>8. rails' = rails /\ mixed' = mixed /\ epoch' = epoch
  BY <1>7 DEF RailEmitted
<1>9. row \in RailColumns /\ row.createdAtBlock = epoch
  BY <1>3, RowColumns DEF CreatedRail
<1> HIDE DEF row
<1>10. /\ DOMAIN chainRail' = DOMAIN chainRail \cup {r} /\ chainRail'[r] = row
       /\ \A x \in DOMAIN chainRail : chainRail'[x] = chainRail[x]
  BY <1>2 DEF Spread
<1>11. /\ m \in Nat /\ DOMAIN unindexed = 1..m /\ Len(unindexed') = m + 1
       /\ m + 1 \in DOMAIN unindexed' /\ unindexed'[m + 1] = l
       /\ \A i \in DOMAIN unindexed : i \in DOMAIN unindexed' /\ i # m + 1 /\ unindexed'[i] = unindexed[i]
       /\ \A i \in DOMAIN unindexed' : i = m + 1 \/ i \in DOMAIN unindexed
  BY <1>1, <1>7, EmittedLogs
<1> HIDE DEF m
<1>12. \A x : /\ \A i \in DOMAIN unindexed : RailInserted(x, i) => InsertedIn(unindexed', x, i)
              /\ InsertedIn(unindexed', x, m + 1) <=> RailInserted(x, m) \/ x = r
  <2> TAKE x
  <2>1. /\ \A i \in DOMAIN unindexed : RailInserted(x, i) => InsertedIn(unindexed', x, i)
        /\ InsertedIn(unindexed', x, Len(unindexed) + 1) <=>
              RailInserted(x, Len(unindexed)) \/ (l.eventName = "RailCreated" /\ l.railId = x)
    BY <1>1, <1>7, InsertedAfterCall
  <2> QED
    BY <2>1, <1>5 DEF m
<1>13. /\ OldRails \subseteq DOMAIN chainRail /\ DOMAIN chainRail \subseteq Rails
       /\ \A x \in DOMAIN chainRail : chainRail[x] \in RailColumns
       /\ \A x \in DOMAIN rails : rails[x] \in RailColumns
       /\ DOMAIN rails \subseteq DOMAIN chainRail \ OldRails
       /\ \A x \in DOMAIN chainRail \ OldRails : x \in DOMAIN rails \/ RailInserted(x, m)
       /\ \A i \in DOMAIN unindexed : unindexed[i].railId \in DOMAIN chainRail /\ unindexed[i].railId # r
  BY <1>1, <1>2 DEF RailRowsInv, m
<1>14. UnindexedShape'
  BY <1>1, <1>7, EmittedKeepsShape
<1>15. PaymentsInv'
  BY <1>1, <1>7, EmittedKeepsPayments
<1>16. RailRowsInv'
  <2>1. /\ OldRails \subseteq DOMAIN chainRail' /\ DOMAIN chainRail' \subseteq Rails
        /\ \A x \in DOMAIN chainRail' : chainRail'[x] \in RailColumns
        /\ DOMAIN rails' \subseteq DOMAIN chainRail' \ OldRails
    BY <1>8, <1>9, <1>10, <1>13
  <2>2. ASSUME NEW x \in DOMAIN chainRail' \ OldRails
        PROVE  x \in DOMAIN rails' \/ RailInserted(x, Len(unindexed))'
    <3>1. RailInserted(x, Len(unindexed))' <=> InsertedIn(unindexed', x, m + 1)
      BY <1>11 DEF RailInserted
    <3> QED
      BY <3>1, <1>8, <1>10, <1>12, <1>13
  <2>3. ASSUME NEW i \in DOMAIN unindexed'
        PROVE  /\ unindexed'[i].railId \in DOMAIN chainRail'
               /\ unindexed'[i].railId \in OldRails \cup DOMAIN rails
                     \/ InsertedIn(unindexed', unindexed'[i].railId, i)
               /\ unindexed'[i].eventName = "RailCreated" =>
                     /\ unindexed'[i].railId \notin OldRails \cup DOMAIN rails
                     /\ unindexed'[i].blockNumber = chainRail'[unindexed'[i].railId].createdAtBlock
    <3>1. CASE i \in DOMAIN unindexed
      <4> DEFINE x == unindexed[i].railId
      <4>1. /\ x \in DOMAIN chainRail
            /\ x \in OldRails \cup DOMAIN rails \/ RailInserted(x, i)
            /\ unindexed[i].eventName = "RailCreated" =>
                  /\ x \notin OldRails \cup DOMAIN rails
                  /\ unindexed[i].blockNumber = chainRail[x].createdAtBlock
        BY <3>1, <1>1 DEF RailRowsInv
      <4>2. unindexed'[i] = unindexed[i] /\ unindexed'[i].railId = x
        BY <3>1, <1>11
      <4> HIDE DEF x
      <4>3. RailInserted(x, i) => InsertedIn(unindexed', x, i)
        BY <3>1, <1>12
      <4> QED
        BY <4>1, <4>2, <4>3, <1>10
    <3>2. CASE i = m + 1
      <4>1. unindexed'[i] = l
        BY <3>2, <1>11
      <4>2. InsertedIn(unindexed', r, i)
        BY <3>2, <1>12
      <4>3. r \notin OldRails \cup DOMAIN rails
        BY <1>2, <1>13
      <4> QED
        BY <4>1, <4>2, <4>3, <1>5, <1>9, <1>10
    <3> QED
      BY <3>1, <3>2, <1>11
  <2>4. \A i \in DOMAIN unindexed' :
          (RailInserted(unindexed[i].railId, i))' <=> InsertedIn(unindexed', unindexed'[i].railId, i)
    BY DEF RailInserted
  <2>5. ASSUME NEW i \in DOMAIN unindexed', NEW j \in DOMAIN unindexed',
               unindexed'[i].eventName = "RailCreated", unindexed'[j].eventName = "RailCreated",
               unindexed'[i].railId = unindexed'[j].railId
        PROVE  i = j
    <3>1. CASE i \in DOMAIN unindexed /\ j \in DOMAIN unindexed
      <4>1. unindexed'[i] = unindexed[i] /\ unindexed'[j] = unindexed[j]
        BY <3>1, <1>11
      <4> QED
        BY <3>1, <4>1, <2>5, <1>1 DEF RailRowsInv
    <3>2. CASE i = m + 1 /\ j \in DOMAIN unindexed
      BY <3>2, <1>5, <1>11, <1>13, <2>5
    <3>3. CASE j = m + 1 /\ i \in DOMAIN unindexed
      BY <3>3, <1>5, <1>11, <1>13, <2>5
    <3> QED
      BY <3>1, <3>2, <3>3, <1>11
  <2> QED
    BY <1>8, <1>13, <2>1, <2>2, <2>3, <2>4, <2>5 DEF RailRowsInv
<1>17. RailOnceInv'
  <2>1. ASSUME NEW i \in DOMAIN unindexed'
        PROVE  /\ unindexed'[i].eventName = "RailTerminated" => chainRail'[unindexed'[i].railId].endEpoch > 0
               /\ unindexed'[i].eventName = "RailFinalized" => chainRail'[unindexed'[i].railId].finalized
    <3>1. CASE i \in DOMAIN unindexed
      <4>1. unindexed'[i] = unindexed[i] /\ unindexed[i].railId \in DOMAIN chainRail
        BY <3>1, <1>11, <1>13
      <4>2. chainRail'[unindexed[i].railId] = chainRail[unindexed[i].railId]
        BY <4>1, <1>10
      <4> QED
        BY <3>1, <4>1, <4>2, <1>1 DEF RailOnceInv
    <3>2. CASE i = m + 1
      BY <3>2, <1>5, <1>11
    <3> QED
      BY <3>1, <3>2, <1>11
  <2>2. ASSUME NEW i \in DOMAIN unindexed', NEW j \in DOMAIN unindexed',
               unindexed'[i].eventName \in {"RailTerminated", "RailFinalized"},
               unindexed'[i].eventName = unindexed'[j].eventName,
               unindexed'[i].railId = unindexed'[j].railId
        PROVE  i = j
    <3>1. i \in DOMAIN unindexed /\ j \in DOMAIN unindexed
      BY <1>5, <1>11, <2>2
    <3>2. unindexed'[i] = unindexed[i] /\ unindexed'[j] = unindexed[j]
      BY <3>1, <1>11
    <3> QED
      BY <3>1, <3>2, <2>2, <1>1 DEF RailOnceInv
  <2> QED
    BY <2>1, <2>2 DEF RailOnceInv
<1>18. RailColumnInv'
  <2>1. \A x : \A c : \A v : After(l, x, c, v) = v
    <3>1. RailUpdate(l) = <<>>
      BY <1>5 DEF RailUpdate
    <3>2. \A c : \A v : Effect(RailUpdate(l), c, v) = v
      BY <3>1 DEF Effect
    <3> QED
      BY <3>2 DEF After
  <2>2. ASSUME NEW x \in DOMAIN chainRail' \ OldRails, NEW c \in ColumnNames,
               x \notin mixed' \/ c \in OneShot
        PROVE  Leads(x, c)'
    <3>1. CASE x \in DOMAIN chainRail
      <4>1. Leads(x, c)
        BY <3>1, <2>2, <1>1, <1>8 DEF RailColumnInv
      <4>2. chainRail'[x] = chainRail[x]
        BY <3>1, <1>10
      <4>3. RailCell(x, c)' = RailCell(x, c)
        BY <4>2, <1>8 DEF RailCell
      <4>4. chainRail'[x][c] = After(l, x, c, chainRail[x][c])
        BY <2>1, <4>2
      <4> QED
        BY <4>1, <4>3, <4>4, <1>1, <1>7, LedOn
    <3>2. CASE x = r
      <4> DEFINE val == [i \in 0..(m + 1) |-> row[c]]
      <4>1. /\ 0 \in 0..(m + 1) /\ m + 1 \in 0..(m + 1)
            /\ \A i \in 1..(m + 1) : i \in 0..(m + 1) /\ i - 1 \in 0..(m + 1)
                                     /\ (i = m + 1 \/ i \in DOMAIN unindexed)
        BY <1>11
      <4>2. \A i \in 0..(m + 1) : val[i] = row[c]
        OBVIOUS
      <4> HIDE DEF val
      <4>3. RailCell(x, c)' = row[c]
        <5>1. RailCell(x, c)' = CreatedRail(chainRail'[r].createdAtBlock)[c]
          BY <3>2, <1>2, <1>8, <1>13 DEF RailCell
        <5> QED
          BY <5>1, <1>9, <1>10 DEF row
      <4>4. \A i \in 1..(m + 1) : \A v : After(unindexed'[i], x, c, v) = v
        <5> SUFFICES ASSUME NEW i \in 1..(m + 1), NEW v PROVE After(unindexed'[i], x, c, v) = v
          OBVIOUS
        <5>1. CASE i = m + 1
          BY <5>1, <1>11, <2>1
        <5>2. CASE i \in DOMAIN unindexed
          <6>1. unindexed'[i] = unindexed[i] /\ unindexed[i].railId # x
            BY <5>2, <3>2, <1>11, <1>13
          <6> QED
            BY <6>1 DEF After
        <5> QED
          BY <5>1, <5>2, <4>1
      <4>5. /\ val[0] = RailCell(x, c)'
            /\ \A i \in 1..(m + 1) : val[i] = After(unindexed'[i], x, c, val[i - 1])
            /\ val[m + 1] = chainRail'[x][c]
        BY <4>1, <4>2, <4>3, <4>4, <3>2, <1>10
      <4> QED
        BY <4>5, <1>11, LedInNext
    <3> QED
      BY <3>1, <3>2, <1>10
  <2> QED
    BY <2>2 DEF RailColumnInv
<1> QED
  BY <1>14, <1>15, <1>16, <1>17, <1>18 DEF PayInv

-----------------------------------------------------------------------------
(* The initial state and the whole step. *)

\* No logs make no payments.
LEMMA NoRows ==
  ASSUME NEW logs, DOMAIN logs = {}
  PROVE  PaymentRows(logs) = EmptyBag
<1>1. DOMAIN logs = 1..0
  OBVIOUS
<1>2. /\ IsABag(PaymentRows(logs))
      /\ \A x : Copies(x, PaymentRows(logs)) = Cardinality(Payers(logs, x))
  BY <1>1, CopiesOfRows
<1>3. \A x : Payers(logs, x) = {}
  BY DEF Payers
<1>4. \A x : Copies(x, PaymentRows(logs)) = 0
  BY <1>2, <1>3, FS_EmptySet
<1>5. IsABag(EmptyBag) /\ \A x : Copies(x, EmptyBag) = 0
  BY SmallBags
<1> QED
  BY <1>2, <1>4, <1>5, EqualBags

\* Rows with the same columns are equal.
LEMMA EqualRows ==
  ASSUME NEW a \in RailColumns, NEW b \in RailColumns, \A c \in ColumnNames : a[c] = b[c]
  PROVE  a = b
<1>1. DOMAIN a = ColumnNames /\ DOMAIN b = ColumnNames
  BY RowColumns
<1>2. a = [c \in DOMAIN a |-> a[c]] /\ b = [c \in DOMAIN b |-> b[c]]
  BY DEF RailColumns
<1> QED
  BY <1>1, <1>2

\* At first the tables are empty and the contract's rails are the old ones.
LEMMA PayInitInv ==
  ASSUME PayInit
  PROVE  PayInv
<1>1. /\ epoch = 1 /\ chainRail = [r \in OldRails |-> CreatedRail(0)]
      /\ chainPayments = EmptyBag /\ unindexed = <<>> /\ rails = <<>> /\ payments = EmptyBag
  BY DEF PayInit
<1>2. DOMAIN unindexed = {} /\ DOMAIN rails = {} /\ unindexed \in Seq(RailLogs)
  BY <1>1
<1>3. UnindexedShape
  BY <1>1, <1>2 DEF UnindexedShape
<1>4. RailRowsInv
  <2>1. \A r \in OldRails : chainRail[r] \in RailColumns
    BY <1>1, RowColumns
  <2>2. DOMAIN chainRail = OldRails /\ OldRails \subseteq Rails
    BY <1>1, PayConstantsAssumption
  <2> QED
    BY <1>2, <2>1, <2>2 DEF RailRowsInv
<1>5. RailOnceInv
  BY <1>2 DEF RailOnceInv
<1>6. RailColumnInv
  <2>1. DOMAIN chainRail \ OldRails = {}
    BY <1>1
  <2> QED
    BY <2>1 DEF RailColumnInv
<1>7. PaymentsInv
  <2>1. IsABag(EmptyBag) /\ \A x : Copies(x, EmptyBag) = 0
    BY SmallBags
  <2>2. PaymentRows(unindexed) = EmptyBag
    BY <1>2, NoRows
  <2>3. /\ IsABag(EmptyBag (+) EmptyBag)
        /\ \A x : Copies(x, EmptyBag (+) EmptyBag) = Copies(x, EmptyBag) + Copies(x, EmptyBag)
    BY <2>1, UnitedBags
  <2>4. \A x : Copies(x, EmptyBag) = Copies(x, EmptyBag (+) EmptyBag)
    BY <2>1, <2>3
  <2>5. EmptyBag = EmptyBag (+) EmptyBag
    BY <2>1, <2>3, <2>4, EqualBags
  <2> QED
    BY <1>1, <2>1, <2>2, <2>5 DEF PaymentsInv
<1> QED
  BY <1>3, <1>4, <1>5, <1>6, <1>7 DEF PayInv

\* What the invariant is about does not change.
LEMMA SteadyPayInv ==
  ASSUME PayInv, UNCHANGED <<chainRail, chainPayments, unindexed, rails, payments, mixed>>,
         epoch' \in Nat, epoch <= epoch'
  PROVE  PayInv'
<1>1. /\ chainRail' = chainRail /\ chainPayments' = chainPayments /\ unindexed' = unindexed
      /\ rails' = rails /\ payments' = payments /\ mixed' = mixed
  OBVIOUS
<1>2. UnindexedShape /\ RailRowsInv /\ RailOnceInv /\ RailColumnInv /\ PaymentsInv
  BY DEF PayInv
<1>3. UnindexedShape'
  <2>1. /\ epoch \in Nat \ {0} /\ unindexed \in Seq(RailLogs)
        /\ \A i \in DOMAIN unindexed : RailTyped(unindexed[i]) /\ unindexed[i].blockNumber <= epoch
        /\ \A i, j \in DOMAIN unindexed : i <= j => unindexed[i].blockNumber <= unindexed[j].blockNumber
    BY <1>2 DEF UnindexedShape
  <2>2. \A i \in DOMAIN unindexed : unindexed[i].blockNumber <= epoch'
    <3> SUFFICES ASSUME NEW i \in DOMAIN unindexed PROVE unindexed[i].blockNumber <= epoch'
      OBVIOUS
    <3>1. unindexed[i].blockNumber \in Nat /\ unindexed[i].blockNumber <= epoch
      BY <2>1 DEF RailTyped
    <3> QED
      BY <3>1, <2>1
  <2>3. epoch' \in Nat \ {0}
    BY <2>1
  <2> QED
    BY <1>1, <2>1, <2>2, <2>3 DEF UnindexedShape, RailTyped, Total
<1>4. RailRowsInv'
  BY <1>1, <1>2 DEF RailRowsInv, RailInserted, InsertedIn
<1>5. RailOnceInv'
  BY <1>1, <1>2 DEF RailOnceInv
<1>6. RailColumnInv'
  <2> SUFFICES ASSUME NEW r \in DOMAIN chainRail' \ OldRails, NEW c \in ColumnNames,
                      r \notin mixed' \/ c \in OneShot
               PROVE  Leads(r, c)'
    BY DEF RailColumnInv
  <2>1. Leads(r, c)
    BY <1>1, <1>2 DEF RailColumnInv
  <2>2. PICK val : /\ val[0] = RailCell(r, c)
                   /\ \A i \in 1..Len(unindexed) : val[i] = After(unindexed[i], r, c, val[i - 1])
                   /\ val[Len(unindexed)] = chainRail[r][c]
    BY <2>1 DEF Leads
  <2>3. RailCell(r, c)' = RailCell(r, c)
    BY <1>1 DEF RailCell
  <2>4. /\ val[0] = RailCell(r, c)'
        /\ \A i \in 1..Len(unindexed') : val[i] = After(unindexed'[i], r, c, val[i - 1])
        /\ val[Len(unindexed')] = chainRail'[r][c]
    BY <1>1, <2>2, <2>3
  <2> QED
    BY <2>4, LedInNext
<1>7. PaymentsInv'
  BY <1>1, <1>2 DEF PaymentsInv, PaymentRows, PaymentRow, Payment, Total
<1> QED
  BY <1>3, <1>4, <1>5, <1>6, <1>7 DEF PayInv

\* Once the logs are all indexed, the tables are the contract's.
LEMMA PayInvMirrors ==
  ASSUME PayInv
  PROVE  PayTablesMirrorChain
<1>1. UnindexedShape /\ RailRowsInv /\ RailOnceInv /\ RailColumnInv /\ PaymentsInv
  BY DEF PayInv
<1>2. /\ OldRails \subseteq DOMAIN chainRail /\ DOMAIN chainRail \subseteq Rails
      /\ \A r \in DOMAIN chainRail : chainRail[r] \in RailColumns
      /\ \A r \in DOMAIN rails : rails[r] \in RailColumns
      /\ DOMAIN rails \subseteq DOMAIN chainRail \ OldRails
      /\ \A r \in DOMAIN chainRail \ OldRails : r \in DOMAIN rails \/ RailInserted(r, Len(unindexed))
      /\ \A i \in DOMAIN unindexed : unindexed[i].railId \in DOMAIN chainRail
  BY <1>1 DEF RailRowsInv
<1>3. PayTypeOK
  BY <1>2 DEF PayTypeOK
<1>4. ASSUME unindexed = <<>>
      PROVE  payments = chainPayments
  <2>1. DOMAIN unindexed = {}
    BY <1>4
  <2>2. PaymentRows(unindexed) = EmptyBag
    BY <2>1, NoRows
  <2>3. IsABag(payments) /\ chainPayments = payments (+) EmptyBag
    BY <1>1, <2>2 DEF PaymentsInv
  <2>4. IsABag(EmptyBag) /\ \A x : Copies(x, EmptyBag) = 0
    BY SmallBags
  <2>5. /\ IsABag(payments (+) EmptyBag)
        /\ \A x : /\ Copies(x, payments) \in Nat
                  /\ Copies(x, payments (+) EmptyBag) = Copies(x, payments) + Copies(x, EmptyBag)
    BY <2>3, <2>4, UnitedBags
  <2>6. \A x : Copies(x, payments) = Copies(x, payments (+) EmptyBag)
    BY <2>4, <2>5
  <2>7. payments = payments (+) EmptyBag
    BY <2>3, <2>5, <2>6, EqualBags
  <2> QED
    BY <2>3, <2>7
<1>5. ASSUME unindexed = <<>>
      PROVE  DOMAIN rails = DOMAIN chainRail \ OldRails
  <2>1. \A r : ~RailInserted(r, Len(unindexed))
    BY <1>5 DEF RailInserted, InsertedIn
  <2> QED
    BY <2>1, <1>2
<1>6. ASSUME unindexed = <<>>, NEW r \in DOMAIN rails, NEW c \in ColumnNames,
             r \notin mixed \/ c \in OneShot
      PROVE  rails[r][c] = chainRail[r][c]
  <2>1. r \in DOMAIN chainRail \ OldRails
    BY <1>2
  <2>2. PICK val : val[0] = RailCell(r, c) /\ val[Len(unindexed)] = chainRail[r][c]
    BY <2>1, <1>1, <1>6 DEF RailColumnInv, Leads
  <2>3. Len(unindexed) = 0
    BY <1>6
  <2> QED
    BY <2>2, <2>3 DEF RailCell
<1>7. ASSUME unindexed = <<>>, NEW r \in DOMAIN rails \ mixed
      PROVE  rails[r] = chainRail[r]
  <2>1. rails[r] \in RailColumns /\ chainRail[r] \in RailColumns
    BY <1>2
  <2>2. \A c \in ColumnNames : rails[r][c] = chainRail[r][c]
    BY <1>6, <1>7
  <2> QED
    BY <2>1, <2>2, EqualRows
<1>8. ASSUME unindexed = <<>>, NEW r \in DOMAIN rails
      PROVE  /\ rails[r].finalized = chainRail[r].finalized
             /\ rails[r].endEpoch = chainRail[r].endEpoch
             /\ rails[r].createdAtBlock = chainRail[r].createdAtBlock
  <2>1. {"finalized", "endEpoch", "createdAtBlock"} \subseteq ColumnNames \cap OneShot
    BY DEF ColumnNames, OneShot
  <2>2. \A c \in {"finalized", "endEpoch", "createdAtBlock"} : rails[r][c] = chainRail[r][c]
    BY <2>1, <1>6, <1>8
  <2> QED
    BY <2>2
<1> QED
  BY <1>3, <1>4, <1>5, <1>7, <1>8
     DEF PayTablesMirrorChain, PaymentsMirrorChain, RailsMirrorChain, OneShotColumnsMirrorChain, PayCaughtUp

-----------------------------------------------------------------------------
(* The theorems of the payment contract's mirror. *)

\* Every step keeps the invariant.
LEMMA PayNextInv ==
  ASSUME PayInv, [PayNext]_payVars
  PROVE  PayInv'
<1>1. UnindexedShape /\ RailRowsInv
  BY DEF PayInv
<1>2. epoch \in Nat
  BY <1>1 DEF UnindexedShape
<1>3. CASE NextEpoch
  <2>1. /\ UNCHANGED <<chainRail, chainPayments, unindexed, rails, payments, mixed>>
        /\ epoch' = epoch + 1
    BY <1>3 DEF NextEpoch, payTables
  <2>2. epoch' \in Nat /\ epoch <= epoch'
    BY <2>1, <1>2
  <2> QED
    BY <2>1, <2>2, SteadyPayInv
<1>4. ASSUME NEW r \in Rails, RailCreated(r) PROVE PayInv'
  BY <1>4, RailCreatedKeepsPayInv
<1>5. ASSUME NEW r \in Rails, NEW n \in Amounts, RailLockupModified(r, n) PROVE PayInv'
  BY <1>1, <1>5, RailLockupModifiedTells, ToldKeepsPayInv
<1>6. ASSUME NEW r \in Rails, NEW n \in Amounts, RailRateModified(r, n) PROVE PayInv'
  BY <1>1, <1>6, RailRateModifiedTells, ToldKeepsPayInv
<1>7. ASSUME NEW r \in Rails, NEW n \in Amounts, NEW f \in Fees, RailOneTimePaymentProcessed(r, n, f)
      PROVE  PayInv'
  BY <1>1, <1>7, RailOneTimePaymentTells, ToldKeepsPayInv
<1>8. ASSUME NEW r \in Rails, RailSettled(r) PROVE PayInv'
  BY <1>1, <1>8, RailSettledTells, ToldKeepsPayInv
<1>9. ASSUME NEW r \in Rails, RailTerminated(r) PROVE PayInv'
  BY <1>1, <1>9, RailTerminatedTells, ToldKeepsPayInv
<1>10. ASSUME NEW r \in Rails, RailFinalized(r) PROVE PayInv'
  BY <1>1, <1>10, RailFinalizedTells, ToldKeepsPayInv
<1>11. ASSUME NEW b \in 1..MaxEpoch, IndexRails(b) PROVE PayInv'
  BY <1>11, IndexRailsKeepsPayInv
<1>12. CASE UNCHANGED payVars
  <2>1. /\ UNCHANGED <<chainRail, chainPayments, unindexed, rails, payments, mixed>>
        /\ epoch' = epoch
    BY <1>12 DEF payVars, payTables
  <2>2. epoch' \in Nat /\ epoch <= epoch'
    BY <2>1, <1>2
  <2> QED
    BY <2>1, <2>2, SteadyPayInv
<1> QED
  BY <1>3, <1>4, <1>5, <1>6, <1>7, <1>8, <1>9, <1>10, <1>11, <1>12 DEF PayNext

\* The inductive invariant of the rails and payments tables: the logs not indexed yet lead
\* every column of every rail, and the bag of payments, from the table to the contract.
THEOREM PayInvariance == PaySpec => []PayInv
<1>1. PayInit => PayInv
  BY PayInitInv
<1>2. PayInv /\ [PayNext]_payVars => PayInv'
  BY PayNextInv
<1> QED
  BY <1>1, <1>2, PTL DEF PaySpec

\* In every batching the tables of rails and payments mirror the contract once the runner
\* has caught up: every payment once, every rail since the origin, and its columns, unless
\* two logs of one batch wrote one of them.
THEOREM PayTablesMirrorChainCorrect == PaySpec => []PayTablesMirrorChain
<1>1. PayInv => PayTablesMirrorChain
  BY PayInvMirrors
<1> QED
  BY <1>1, PayInvariance, PTL
=============================================================================
