------------------------- MODULE AllocatorReportsProofs -------------------------
(***************************************************************************)
(* Proofs about AllocatorReports, for every registry, client checks,       *)
(* weights, calls and events.                                              *)
(*                                                                         *)
(* What a call holds is related to the tables by predicates of the call's  *)
(* record k, the reports rs, the client reports cr and the history inv, so *)
(* that they can be stated of the state before and after a step.           *)
(***************************************************************************)
EXTENDS AllocatorReports, SequenceTheorems, FiniteSetTheorems, TLAPS

\* The stages of a call that stores into the report it has created.
AtReport == {"multiple", "copies", "active", "inactive", "storing", "schedule", "scoring", "reading"}

\* The kinds of call that may be at each stage.
KindFits(k) ==
  /\ k.stage \in {"listing", "next"} => k.kind = "job"
  /\ k.stage \in {"generating"} \cup AtReport => k.kind \in {"job", "post"}
  /\ k.stage = "invalidating" => k.kind = "post"
  /\ k.stage \in {"querying", "caching"} => k.kind = "get"

\* What a call has not begun to hold, or holds no more.
Holds(k) ==
  /\ k.stage = "idle" => k = NoCall
  /\ k.stage \in {"listing", "next", "generating", "multiple", "copies"} =>
        k.counted = Empty /\ k.failed = Empty
  /\ k.stage \in {"listing", "next", "generating", "querying"} => k.report = None
  /\ k.stage # "storing" => k.inFlight = {}
  /\ k.stage \in {"active", "inactive"} => k.toRead \subseteq ClientsOf[k.allocator]
  /\ k.stage = "active" /\ k.toRead = {} => ClientsOf[k.allocator] = {}
  /\ k.quiet => k.stage \in {"active", "inactive", "storing"}

\* The job does every allocator once.
Lists(k) == k.kind = "job" =>
  /\ \A i, j \in DOMAIN k.todo : k.todo[i] = k.todo[j] => i = j
  /\ k.stage = "generating" => \A i \in DOMAIN k.todo : k.todo[i] # k.allocator

Has(report, check) == check \in report.checks

\* How far a call is with the report it generates.
Progress(k, rs) ==
  LET report == rs[k.report]
  IN /\ k.stage \in AtReport \cup {"invalidating"} =>
          k.report \in 1..Len(rs) /\ report.allocator = k.allocator
     /\ k.stage \in AtReport => report.generation = "running"
     /\ k.stage = "invalidating" => report.generation = "done"
     /\ k.stage \in (AtReport \cup {"invalidating"}) \ {"multiple"} =>
          Has(report, "CLIENT_MULTIPLE_ALLOCATORS")
     /\ k.stage \in (AtReport \cup {"invalidating"}) \ {"multiple", "copies"} /\ CopiesConfigured =>
          Has(report, "CLIENT_NOT_ENOUGH_COPIES")
     /\ k.stage \in {"storing", "schedule", "scoring", "reading", "invalidating"} =>
          ClientChecks \subseteq report.checks \cup k.inFlight
     /\ k.stage \in {"scoring", "reading", "invalidating"} /\ k.allocator \in Scheduled =>
          Has(report, "MANUAL_ALLOCATION_SCHEDULE")
     /\ k.stage \in AtReport \ {"scoring", "reading"} => report.scored = 0
     /\ k.stage = "scoring" => DataType[k.allocator] # "none" /\ report.scored < MaxScores
     /\ k.stage \in {"reading", "invalidating"} /\ DataType[k.allocator] # "none" => AllScored(report)

\* A response to be cached is not older than a report whose POST has deleted the entries
\* before the query.
Fresh(k, inv) ==
  /\ k.stage \in {"querying", "caching"} => k.allocator \in Known
  /\ k.stage = "caching" => k.report >= inv[k.allocator] \/ k.overtaken

Consistent(k, rs, inv) ==
  KindFits(k) /\ Holds(k) /\ Lists(k) /\ Progress(k, rs) /\ Fresh(k, inv)

CallsConsistent == \A c \in Calls : Consistent(call[c], reports, invalidated)

\* What a check's description says of a client, by its newest report.
ReportsOf(cr, client) == {i \in DOMAIN cr : cr[i].client = client}
Result(cr, client, x) ==
  LET newest == Newest(ReportsOf(cr, client))
  IN IF newest = None \/ (x # Inactivity /\ ~cr[newest].recent) THEN "none" ELSE cr[newest].results[x]

\* The clients whose result for a check has been counted.
SeenFor(k, x) ==
  LET read == ClientsOf[k.allocator] \ k.toRead
  IN CASE k.stage = "active" -> IF x = Inactivity THEN {} ELSE read
       [] k.stage = "inactive" -> IF x = Inactivity THEN read ELSE ClientsOf[k.allocator]
       [] OTHER -> ClientsOf[k.allocator]

\* While no client report changes, what is counted is what the newest reports say.
Tallies(k, cr) == k.quiet => \A x \in ClientChecks :
  /\ k.counted[x] = {client \in SeenFor(k, x) : Result(cr, client, x) # "none"}
  /\ k.failed[x] = {client \in SeenFor(k, x) : Result(cr, client, x) = "fail"}

CallsTally == \A c \in Calls : Tallies(call[c], clientReports)

\* A client report is recent as long as its client spends, and so are all later ones.
RecentSpending == \A i \in DOMAIN clientReports :
  clientReports[i].recent => clientReports[i].client \in spending
NewerRecent == \A i, j \in DOMAIN clientReports :
  i < j /\ clientReports[i].client = clientReports[j].client /\ clientReports[i].recent
    => clientReports[j].recent

\* No two calls store into the same report.
OwnersDiffer == \A c, d \in Calls :
  /\ call[c].stage \in AtReport /\ call[d].stage \in AtReport
  /\ call[c].report = call[d].report
  => c = d

\* May a call with the record k still create a report of the allocator a?
MayCreate(k, a) ==
  \/ k.kind = "post" /\ k.stage = "generating" /\ a = k.allocator
  \/ k.kind = "job" /\ k.stage = "listing"
  \/ k.kind = "job" /\ k.stage = "generating" /\ a = k.allocator
  \/ k.kind = "job" /\ k.stage \in {"next", "generating"} \cup AtReport
     /\ \E i \in DOMAIN k.todo : k.todo[i] = a

\* The reports that calls may still create.
Owed == {o \in Calls \X Known : MayCreate(call[o[1]], o[2])}

\* Reports, created or still to come, are no more than events account for.
ReportsCounted ==
  /\ IsFiniteSet(Owed)
  /\ Len(reports) + Cardinality(Owed) <= events * (1 + Cardinality(Known))

Scored(report) == report.generation = "done" /\ DataType[report.allocator] # "none" => AllScored(report)

\* A report whose generation has ended well has all its scores.
DoneScored == \A i \in DOMAIN reports : Scored(reports[i])

\* A POST has deleted the responses of its own allocator.
InvalidatedExists ==
  \A a \in Known : invalidated[a] # None =>
     invalidated[a] \in 1..Len(reports) /\ reports[invalidated[a]].allocator = a

\* The inductive invariant.
IInv == /\ TypeOK /\ CallsConsistent /\ CallsTally /\ RecentSpending /\ NewerRecent
        /\ OwnersDiffer /\ ReportsCounted /\ DoneScored /\ InvalidatedExists
        /\ StaleResponsesExplained

-----------------------------------------------------------------------------

(* Facts about numbers and about the operators of the model *)

\* A set of natural numbers has a least element: what induction is for.
LEMMA Smallest ==
  ASSUME NEW T \in SUBSET Nat, T # {}
  PROVE  \E x \in T : \A y \in T : x <= y
<1> DEFINE R == {ss \in Nat \X Nat : ss[1] < ss[2]}
<1>1. IsWellFoundedOn(R, Nat)
  BY NatLessThanWellFounded DEF OpToRel
<1>2. \A x, y \in Nat : y < x => <<y, x>> \in R
  OBVIOUS
<1> HIDE DEF R
<1>3. PICK x \in T : \A y \in T : ~(<<y, x>> \in R)
  BY <1>1, WFMin
<1>4. \A y \in T : ~(y < x)
  BY <1>2, <1>3
<1> QED
  BY <1>4

\* A set of numbers up to n has a largest element.
LEMMA Largest ==
  ASSUME NEW n \in Nat, NEW S \in SUBSET (1..n), S # {}
  PROVE  \E x \in S : \A y \in S : y <= x
<1> DEFINE T == {n - x : x \in S}
<1>1. T \in SUBSET Nat
  <2>1. \A x \in S : n - x \in Nat
    OBVIOUS
  <2> QED
    BY <2>1
<1>2. T # {}
  OBVIOUS
<1>3. PICK t \in T : \A u \in T : t <= u
  BY <1>1, <1>2, Smallest
<1>4. PICK x \in S : t = n - x
  BY <1>3
<1>5. \A y \in S : n - x <= n - y
  BY <1>3, <1>4
<1> QED
  BY <1>5

\* Products are monotonic, and distribute over one more.
LEMMA Products ==
  ASSUME NEW a \in Nat, NEW i \in Nat, NEW j \in Nat, i <= j
  PROVE  i * a \in Nat /\ i * a <= j * a /\ (i + 1) * a = i * a + a
OBVIOUS

\* The newest of some reports is one of them, and no other is newer.
LEMMA NewestIs ==
  ASSUME NEW n \in Nat, NEW ids \in SUBSET (1..n)
  PROVE  /\ Newest(ids) \in 0..n
         /\ ids = {} => Newest(ids) = None
         /\ ids # {} => Newest(ids) \in ids
         /\ \A j \in ids : j <= Newest(ids)
<1>1. CASE ids = {}
  BY <1>1 DEF Newest, None
<1>2. CASE ids # {}
  <2>1. \E i \in ids : \A j \in ids : j <= i
    BY <1>2, Largest
  <2>2. Newest(ids) \in ids /\ \A j \in ids : j <= Newest(ids)
    BY <1>2, <2>1 DEF Newest
  <2>3. ids \subseteq 0..n
    OBVIOUS
  <2> QED
    BY <1>2, <2>2, <2>3
<1> QED
  BY <1>1, <1>2

\* The bounds are numbers.
LEMMA BoundsTyped ==
  /\ MaxEvents \in Nat \ {0} /\ Cardinality(Known) \in Nat /\ MaxReports \in Nat
  /\ MaxReports = MaxEvents * (1 + Cardinality(Known))
<1>1. Cardinality(Known) \in Nat /\ MaxEvents \in Nat \ {0}
  BY ConstantsAssumption, FS_CardinalityType
<1> QED
  BY <1>1 DEF MaxReports

\* There is an allocator, and the registry lists allocators.
LEMMA RegistryTyped ==
  /\ Registry \in Seq(Allocators) /\ DOMAIN Registry = 1..Len(Registry)
  /\ Registry[1] \in Allocators
  /\ \A a \in Allocators : \E i \in DOMAIN Registry : Registry[i] = a
<1>1. Registry \in Seq(Allocators) /\ Len(Registry) \in Nat /\ Len(Registry) # 0
      /\ DOMAIN Registry = 1..Len(Registry)
  BY ConstantsAssumption, LenProperties, EmptySeq
<1>2. 1 \in 1..Len(Registry)
  BY <1>1
<1> QED
  BY <1>1, <1>2 DEF Allocators

\* Both types of data have the same number of scores, and one that has a weight.
LEMMA WeightsTyped ==
  /\ MaxScores \in Nat \ {0}
  /\ \A a \in Allocators : DataType[a] # "none" =>
       /\ Weights[DataType[a]] \in Seq(Nat)
       /\ Len(Weights[DataType[a]]) = MaxScores
       /\ DOMAIN Weights[DataType[a]] = 1..MaxScores
       /\ \E n \in 1..MaxScores : Weights[DataType[a]][n] # 0
<1>1. \A type \in {"openData", "enterprise"} :
        /\ Weights[type] \in Seq(Nat) /\ Len(Weights[type]) = MaxScores
        /\ DOMAIN Weights[type] = 1..MaxScores
        /\ \E n \in 1..MaxScores : Weights[type][n] # 0
  <2>1. \A type \in {"openData", "enterprise"} :
           /\ Weights[type] \in Seq(Nat) /\ Len(Weights[type]) = MaxScores
           /\ \E n \in DOMAIN Weights[type] : Weights[type][n] # 0
    BY ConstantsAssumption DEF MaxScores
  <2>2. \A type \in {"openData", "enterprise"} : DOMAIN Weights[type] = 1..MaxScores
    BY <2>1, LenProperties
  <2> QED
    BY <2>1, <2>2
<1>2. MaxScores \in Nat \ {0}
  <2>1. MaxScores \in Nat
    BY <1>1, LenProperties
  <2>2. \E n \in 1..MaxScores : TRUE
    BY <1>1
  <2> QED
    BY <2>1, <2>2
<1>3. \A a \in Allocators : DataType[a] # "none" => DataType[a] \in {"openData", "enterprise"}
  BY ConstantsAssumption
<1> QED
  BY <1>1, <1>2, <1>3

\* An empty tally, and a slot without a call, have their types.
LEMMA NoCallTyped == Empty \in Tally /\ NoCall \in Call
<1>1. Empty \in Tally
  BY DEF Empty, Tally
<1>2. None \in 0..MaxReports
  BY BoundsTyped DEF None
<1>3. Registry[1] \in Allocators /\ <<>> \in Seq(Allocators)
  BY RegistryTyped, EmptySeq
<1> HIDE DEF Empty
<1> QED
  BY <1>1, <1>2, <1>3 DEF NoCall, Call, Stages, Routes

\* A slot without a call is consistent with anything, and owes no report.
LEMMA NoCallFits ==
  ASSUME NEW rs, NEW inv, NEW cr
  PROVE  Consistent(NoCall, rs, inv) /\ Tallies(NoCall, cr) /\ \A a \in Known : ~MayCreate(NoCall, a)
<1>1. /\ NoCall.stage = "idle" /\ NoCall.kind = "get" /\ NoCall.inFlight = {} /\ NoCall.quiet = FALSE
  BY DEF NoCall
<1> QED
  BY <1>1 DEF Consistent, KindFits, Holds, Lists, Progress, Fresh, Tallies, MayCreate, AtReport

\* The parts of the invariant that most steps use.
LEMMA Parts ==
  ASSUME IInv
  PROVE  /\ clientReports \in Seq(ClientReport) /\ spending \subseteq Clients
         /\ Len(clientReports) \in Nat /\ DOMAIN clientReports = 1..Len(clientReports)
         /\ reports \in Seq(Report) /\ Len(reports) \in Nat /\ Len(reports) <= MaxReports
         /\ DOMAIN reports = 1..Len(reports)
         /\ cache \in [Urls -> Response \cup {NotCached}]
         /\ call \in [Calls -> Call]
         /\ events \in 0..MaxEvents /\ events \in Nat
         /\ invalidated \in [Known -> 0..MaxReports]
         /\ \A c \in Calls : /\ call[c] \in Call /\ Consistent(call[c], reports, invalidated)
                             /\ Tallies(call[c], clientReports)
<1>1. clientReports \in Seq(ClientReport) /\ reports \in Seq(Report) /\ events \in 0..MaxEvents
  BY DEF IInv, TypeOK
<1>2. /\ Len(clientReports) \in Nat /\ DOMAIN clientReports = 1..Len(clientReports)
      /\ Len(reports) \in Nat /\ DOMAIN reports = 1..Len(reports)
  BY <1>1, LenProperties
<1>3. events \in Nat
  BY <1>1, BoundsTyped
<1> QED
  BY <1>1, <1>2, <1>3 DEF IInv, TypeOK, CallsConsistent, CallsTally

\* What the first state satisfies.
LEMMA InitIInv == Init => IInv
<1> SUFFICES ASSUME Init PROVE IInv
  OBVIOUS
<1>1. /\ clientReports \in {<<>>} \cup InitialClientReports /\ spending \in SUBSET Clients
      /\ \A i \in DOMAIN clientReports :
            clientReports[i].recent => clientReports[i].client \in spending
      /\ reports = <<>> /\ events = IF clientReports = <<>> THEN 0 ELSE 1
      /\ cache = [u \in Urls |-> NotCached]
      /\ call = [c \in Calls |-> NoCall]
      /\ invalidated = [a \in Known |-> None]
  BY DEF Init
<1>2. reports \in Seq(Report) /\ Len(reports) = 0 /\ DOMAIN reports = {}
  BY <1>1, EmptySeq
<1>3. events \in 0..MaxEvents /\ events \in Nat
  BY <1>1, BoundsTyped
<1>4. clientReports \in Seq(ClientReport) /\ NewerRecent
  <2>1. CASE clientReports = <<>>
    <3>1. DOMAIN clientReports = {}
      BY <2>1
    <3> QED
      BY <2>1, <3>1, EmptySeq DEF NewerRecent
  <2>2. CASE clientReports \in InitialClientReports
    BY <2>2, ClientReportsAssumption DEF NewerRecent
  <2> QED
    BY <1>1, <2>1, <2>2
<1>5. TypeOK
  <2>1. 0 <= MaxReports /\ None \in 0..MaxReports
    BY BoundsTyped DEF None
  <2> QED
    BY <1>1, <1>2, <1>3, <1>4, <2>1, NoCallTyped DEF TypeOK
<1>6. CallsConsistent /\ CallsTally
  BY <1>1, NoCallFits DEF CallsConsistent, CallsTally
<1>7. OwnersDiffer
  <2>1. NoCall.stage \notin AtReport
    BY DEF NoCall, AtReport
  <2> QED
    BY <1>1, <2>1 DEF OwnersDiffer
<1>8. ReportsCounted
  <2>1. Owed = {}
    BY <1>1, NoCallFits DEF Owed
  <2>2. events * (1 + Cardinality(Known)) \in Nat
    BY <1>3, BoundsTyped
  <2> QED
    BY <1>2, <2>1, <2>2, FS_EmptySet DEF ReportsCounted
<1>9. RecentSpending
  BY <1>1 DEF RecentSpending
<1>10. DoneScored
  BY <1>2 DEF DoneScored
<1>11. InvalidatedExists /\ StaleResponsesExplained
  BY <1>1 DEF InvalidatedExists, StaleResponsesExplained
<1> QED
  BY <1>4, <1>5, <1>6, <1>7, <1>8, <1>9, <1>10, <1>11 DEF IInv

-----------------------------------------------------------------------------
(* Steps in general *)

\* A call that a step leaves alone stays consistent as reports are added and others change.
LEMMA ConsistentKept ==
  ASSUME NEW k \in Call, NEW rs, NEW rs2, NEW inv, Consistent(k, rs, inv),
         Len(rs) \in Nat, Len(rs2) \in Nat, Len(rs) <= Len(rs2),
         k.stage \in AtReport \cup {"invalidating"} => rs2[k.report] = rs[k.report]
  PROVE  Consistent(k, rs2, inv)
<1>1. k.stage \notin AtReport \cup {"invalidating"} => Progress(k, rs2)
  BY DEF Progress, AtReport
<1>2. ASSUME k.stage \in AtReport \cup {"invalidating"} PROVE Progress(k, rs2)
  <2> DEFINE row == rs[k.report]
             row2 == rs2[k.report]
  <2>1. row2 = row /\ k.report \in 1..Len(rs) /\ Progress(k, rs)
    BY <1>2 DEF Consistent, Progress
  <2>2. k.report \in 1..Len(rs2)
    BY <2>1
  <2> QED
    BY <2>1, <2>2 DEF Progress
<1> QED
  BY <1>1, <1>2 DEF Consistent

\* A step of one call keeps the invariant if its new record is consistent and it changes
\* no report but its own.
LEMMA CallStep ==
  ASSUME IInv, NEW c \in Calls, NEW k2 \in Call, call' = [call EXCEPT ![c] = k2],
         UNCHANGED <<clientReports, spending, invalidated>>,
         cache' \in [Urls -> Response \cup {NotCached}], StaleResponsesExplained',
         events' \in 0..MaxEvents,
         reports' \in Seq(Report), Len(reports') <= MaxReports, Len(reports) <= Len(reports'),
         \A i \in 1..Len(reports) :
            /\ reports'[i].allocator = reports[i].allocator
            /\ ~(call[c].stage \in AtReport /\ i = call[c].report) => reports'[i] = reports[i],
         k2.stage \in AtReport => \/ call[c].stage \in AtReport /\ k2.report = call[c].report
                                  \/ k2.report \notin 1..Len(reports),
         Consistent(k2, reports', invalidated), Tallies(k2, clientReports),
         ReportsCounted', DoneScored'
  PROVE  IInv'
<1>1. /\ call \in [Calls -> Call] /\ Len(reports) \in Nat
      /\ invalidated \in [Known -> 0..MaxReports]
      /\ \A d \in Calls : /\ call[d] \in Call /\ Consistent(call[d], reports, invalidated)
                          /\ Tallies(call[d], clientReports)
  BY Parts
<1>2. call'[c] = k2 /\ \A d \in Calls : d # c => call'[d] = call[d]
  BY <1>1
<1>3. Len(reports') \in Nat
  BY LenProperties
<1>4. TypeOK'
  BY <1>1 DEF IInv, TypeOK
<1>5. ASSUME NEW d \in Calls, d # c PROVE Consistent(call[d], reports', invalidated)
  <2> DEFINE k == call[d]
  <2>1. k.stage \in AtReport \cup {"invalidating"} => k.report \in 1..Len(reports)
    BY <1>1 DEF Consistent, Progress
  <2>2. k.stage \in AtReport => ~(call[c].stage \in AtReport /\ k.report = call[c].report)
    BY <1>5 DEF IInv, OwnersDiffer
  <2>3. k.stage = "invalidating" => ~(call[c].stage \in AtReport /\ k.report = call[c].report)
    BY <1>1 DEF Consistent, Progress
  <2>4. k.stage \in AtReport \cup {"invalidating"} => reports'[k.report] = reports[k.report]
    BY <2>1, <2>2, <2>3
  <2>5. k \in Call /\ Consistent(k, reports, invalidated)
    BY <1>1
  <2> HIDE DEF k
  <2>6. Consistent(k, reports', invalidated)
    BY <1>1, <1>3, <2>4, <2>5, ConsistentKept
  <2> QED
    BY <2>6 DEF k
<1>6. CallsConsistent' /\ CallsTally'
  BY <1>1, <1>2, <1>5 DEF CallsConsistent, CallsTally
<1>7. OwnersDiffer'
  <2>1. \A d \in Calls : call[d].stage \in AtReport => call[d].report \in 1..Len(reports)
    BY <1>1 DEF Consistent, Progress
  <2> QED
    BY <1>2, <2>1 DEF IInv, OwnersDiffer
<1>8. RecentSpending' /\ NewerRecent'
  BY DEF IInv, RecentSpending, NewerRecent
<1>9. InvalidatedExists'
  <2>1. \A i \in 1..Len(reports) : i \in 1..Len(reports') /\ reports'[i].allocator = reports[i].allocator
    BY <1>1, <1>3
  <2> QED
    BY <2>1 DEF IInv, InvalidatedExists
<1> QED
  BY <1>4, <1>6, <1>7, <1>8, <1>9 DEF IInv

\* The count of reports is kept when the calls may create no more than before.
LEMMA OwedShrinks ==
  ASSUME IInv, Owed' \subseteq Owed, Len(reports') = Len(reports),
         events' \in Nat, events <= events'
  PROVE  ReportsCounted'
<1> DEFINE n == Len(reports)
           owed == Cardinality(Owed)
           owed2 == Cardinality(Owed')
           a == 1 + Cardinality(Known)
           limit == events * a
           limit2 == events' * a
<1>1. IsFiniteSet(Owed) /\ n + owed <= limit /\ n \in Nat /\ events \in Nat /\ a \in Nat
  BY Parts, BoundsTyped DEF IInv, ReportsCounted
<1>2. IsFiniteSet(Owed') /\ owed2 <= owed
  BY <1>1, FS_Subset
<1>3. owed \in Nat /\ owed2 \in Nat
  BY <1>1, <1>2, FS_CardinalityType
<1>4. limit \in Nat /\ limit2 \in Nat /\ limit <= limit2
  <2> HIDE DEF a
  <2>1. limit \in Nat /\ limit <= limit2
    BY <1>1, Products
  <2>2. events' <= events'
    OBVIOUS
  <2>3. limit2 \in Nat
    BY <1>1, <2>2, Products
  <2> QED
    BY <2>1, <2>3
<1> HIDE DEF limit, limit2, owed, owed2, n, a
<1>5. n + owed2 <= limit2
  BY <1>1, <1>2, <1>3, <1>4
<1> QED
  BY <1>2, <1>5 DEF ReportsCounted, n, owed2, limit2, a

\* A step of one call that changes nothing but what that call holds.
LEMMA OwnStep ==
  ASSUME IInv, NEW c \in Calls, NEW k2 \in Call, call' = [call EXCEPT ![c] = k2],
         UNCHANGED <<clientReports, spending, reports, cache, invalidated>>,
         events' \in events..MaxEvents,
         k2.stage \in AtReport => call[c].stage \in AtReport /\ k2.report = call[c].report,
         Consistent(k2, reports, invalidated), Tallies(k2, clientReports),
         \A a \in Known : MayCreate(k2, a) => MayCreate(call[c], a)
  PROVE  IInv'
<1>1. events' \in Nat /\ events <= events' /\ events' \in 0..MaxEvents
  BY Parts, BoundsTyped
<1>2. Owed' \subseteq Owed
  BY Parts DEF Owed
<1>3. ReportsCounted'
  BY <1>1, <1>2, OwedShrinks
<1>4. DoneScored' /\ StaleResponsesExplained'
  BY DEF IInv, DoneScored, StaleResponsesExplained
<1>5. Len(reports) <= Len(reports')
  BY Parts
<1> QED
  BY <1>1, <1>3, <1>4, <1>5, CallStep, Parts

\* A step of one call that changes the report it generates.
LEMMA RowStep ==
  ASSUME IInv, NEW c \in Calls, NEW k2 \in Call, call' = [call EXCEPT ![c] = k2],
         call[c].stage \in AtReport, NEW row \in Report,
         reports' = [reports EXCEPT ![call[c].report] = row],
         row.allocator = call[c].allocator, Scored(row),
         UNCHANGED <<clientReports, spending, cache, invalidated>>,
         events' \in events..MaxEvents,
         k2.stage \in AtReport => k2.report = call[c].report,
         Consistent(k2, reports', invalidated), Tallies(k2, clientReports),
         \A a \in Known : MayCreate(k2, a) => MayCreate(call[c], a)
  PROVE  IInv'
<1> DEFINE r == call[c].report
<1>1. r \in 1..Len(reports) /\ reports[r].allocator = call[c].allocator
  BY Parts DEF Consistent, Progress
<1>2. /\ reports' \in Seq(Report) /\ Len(reports') = Len(reports)
      /\ reports'[r] = row /\ \A i \in 1..Len(reports) : i # r => reports'[i] = reports[i]
  BY <1>1, Parts, ExceptSeq
<1>3. events' \in Nat /\ events <= events' /\ events' \in 0..MaxEvents
  BY Parts, BoundsTyped
<1>4. Owed' \subseteq Owed
  BY Parts DEF Owed
<1>5. ReportsCounted'
  BY <1>2, <1>3, <1>4, OwedShrinks
<1>6. DoneScored'
  <2>1. DOMAIN reports' = 1..Len(reports) /\ DOMAIN reports = 1..Len(reports)
    BY <1>2, Parts, LenProperties
  <2>2. \A i \in DOMAIN reports' : Scored(reports'[i])
    BY <1>2, <2>1 DEF IInv, DoneScored
  <2> QED
    BY <2>2 DEF DoneScored, Scored
<1>7. StaleResponsesExplained'
  BY DEF IInv, StaleResponsesExplained
<1>8. Len(reports') <= MaxReports /\ Len(reports) <= Len(reports')
  BY <1>2, Parts
<1>9. \A i \in 1..Len(reports) :
         /\ reports'[i].allocator = reports[i].allocator
         /\ ~(call[c].stage \in AtReport /\ i = call[c].report) => reports'[i] = reports[i]
  BY <1>1, <1>2
<1> QED
  BY <1>2, <1>3, <1>5, <1>6, <1>7, <1>8, <1>9, CallStep, Parts

\* A call that goes idle is consistent with anything.
LEMMA LeaveIInv ==
  ASSUME IInv, NEW c \in Calls, Leave(c),
         UNCHANGED <<clientReports, spending, reports, cache, invalidated>>,
         events' \in events..MaxEvents
  PROVE  IInv'
<1>1. call' = [call EXCEPT ![c] = NoCall] /\ NoCall.stage \notin AtReport
  BY DEF Leave, NoCall, AtReport
<1> QED
  BY <1>1, NoCallTyped, NoCallFits, OwnStep

\* A call that abandons its allocator holds nothing but the allocators it has yet to do.
LEMMA AbandonFits ==
  ASSUME IInv, NEW c \in Calls, Abandon(c), NEW rs, NEW inv, NEW cr,
         call[c].kind = "job" => call[c].stage \in {"generating"} \cup AtReport
  PROVE  \E k2 \in Call :
           /\ call' = [call EXCEPT ![c] = k2]
           /\ k2.stage \in {"idle", "next"}
           /\ Consistent(k2, rs, inv) /\ Tallies(k2, cr)
           /\ \A a \in Known : MayCreate(k2, a) => MayCreate(call[c], a)
<1> DEFINE k == call[c]
<1>1. k \in Call /\ Consistent(k, reports, invalidated)
  BY Parts
<1>2. CASE k.kind # "job"
  <2>1. call' = [call EXCEPT ![c] = NoCall] /\ NoCall.stage = "idle"
    BY <1>2 DEF Abandon, NoCall
  <2> QED
    BY <2>1, NoCallTyped, NoCallFits
<1>3. CASE k.kind = "job"
  <2> DEFINE k2 == [NoCall EXCEPT !.stage = "next", !.kind = "job", !.todo = k.todo]
  <2>1. call' = [call EXCEPT ![c] = k2]
    BY <1>3 DEF Abandon
  <2>2. k.todo \in Seq(Allocators) /\ Lists(k)
    BY <1>1 DEF Call, Consistent
  <2>3. /\ k2.stage = "next" /\ k2.kind = "job" /\ k2.todo = k.todo /\ k2.report = None
        /\ k2.counted = Empty /\ k2.failed = Empty /\ k2.inFlight = {} /\ k2.quiet = FALSE
    BY DEF NoCall
  <2>4. k2 \in Call
    <3> HIDE DEF k
    <3>1. "next" \in Stages
      BY DEF Stages
    <3> QED
      BY <2>2, <3>1, NoCallTyped DEF Call
  <2> HIDE DEF k2
  <2>5. Consistent(k2, rs, inv) /\ Tallies(k2, cr)
    <3>1. Lists(k2)
      BY <1>3, <2>2, <2>3 DEF Lists
    <3> QED
      BY <2>3, <3>1 DEF Consistent, KindFits, Holds, Progress, Fresh, AtReport, Tallies
  <2>6. \A a \in Known : MayCreate(k2, a) => MayCreate(k, a)
    BY <1>3, <2>3 DEF MayCreate
  <2> QED
    BY <2>1, <2>3, <2>4, <2>5, <2>6
<1> QED
  BY <1>2, <1>3

\* Abandoning an allocator without a report, or after one that stays as it is.
LEMMA AbandonIInv ==
  ASSUME IInv, NEW c \in Calls, Abandon(c),
         call[c].kind = "job" => call[c].stage \in {"generating"} \cup AtReport,
         UNCHANGED <<clientReports, spending, reports, cache, invalidated>>,
         events' \in events..MaxEvents
  PROVE  IInv'
<1>1. PICK k2 \in Call :
           /\ call' = [call EXCEPT ![c] = k2]
           /\ k2.stage \in {"idle", "next"}
           /\ Consistent(k2, reports, invalidated) /\ Tallies(k2, clientReports)
           /\ \A a \in Known : MayCreate(k2, a) => MayCreate(call[c], a)
  BY AbandonFits
<1>2. k2.stage \notin AtReport
  BY <1>1 DEF AtReport
<1> QED
  BY <1>1, <1>2, OwnStep

\* No step but an event changes their number.
LEMMA NoEvent == ASSUME IInv, UNCHANGED events PROVE events' \in events..MaxEvents
BY Parts, BoundsTyped

\* An event is one more.
LEMMA OneEvent == ASSUME IInv, Event PROVE events' \in events..MaxEvents /\ events' = events + 1
BY Parts, BoundsTyped DEF Event

-----------------------------------------------------------------------------
(* The creation of a report *)

\* As long as a report is owed there is room for it.
LEMMA RoomForOwed ==
  ASSUME IInv, NEW o \in Owed
  PROVE  Len(reports) + 1 <= MaxReports
<1> DEFINE a == 1 + Cardinality(Known)
           n == Len(reports)
           owed == Cardinality(Owed)
           limit == events * a
           limit2 == MaxEvents * a
<1>1. /\ IsFiniteSet(Owed) /\ n + owed <= limit /\ events \in Nat /\ events <= MaxEvents
      /\ n \in Nat /\ a \in Nat /\ MaxEvents \in Nat /\ MaxReports = limit2
  BY Parts, BoundsTyped DEF IInv, ReportsCounted
<1>2. owed \in Nat /\ owed # 0
  BY <1>1, FS_CardinalityType, FS_EmptySet
<1>3. limit \in Nat /\ limit <= limit2 /\ limit2 \in Nat
  <2> HIDE DEF a
  <2>1. limit \in Nat /\ limit <= limit2
    BY <1>1, Products
  <2>2. MaxEvents <= MaxEvents
    BY <1>1
  <2> QED
    BY <1>1, <2>1, <2>2, Products
<1> HIDE DEF a, n, owed, limit, limit2
<1>4. n + 1 <= limit2
  BY <1>1, <1>2, <1>3
<1> QED
  BY <1>1, <1>4 DEF n

\* A report is created: it was owed, and it is the only one its call stores into.
LEMMA CreateReportIInv ==
  ASSUME IInv, NEW c \in Calls, CreateReport(c)
  PROVE  IInv'
<1> DEFINE k == call[c]
           n == Len(reports)
           row == [allocator |-> k.allocator, checks |-> {}, scored |-> 0, generation |-> "running"]
           k2 == [k EXCEPT !.stage = "multiple", !.report = n + 1]
           o == <<c, k.allocator>>
<1>1. /\ k \in Call /\ Consistent(k, reports, invalidated) /\ call \in [Calls -> Call]
      /\ reports \in Seq(Report) /\ n \in Nat
  BY Parts
<1>2. /\ k.stage = "generating" /\ k.allocator \in Known
      /\ reports' = Append(reports, row)
      /\ UNCHANGED <<clientReports, spending, cache, events, invalidated>>
  BY DEF CreateReport
<1>3. call' = [call EXCEPT ![c] = k2]
  BY <1>1 DEF CreateReport
<1>4. /\ k2.stage = "multiple" /\ k2.kind = k.kind /\ k2.allocator = k.allocator /\ k2.todo = k.todo
      /\ k2.report = n + 1 /\ k2.counted = k.counted /\ k2.failed = k.failed
      /\ k2.inFlight = k.inFlight /\ k2.quiet = k.quiet
  BY <1>1 DEF Call
<1>5. /\ k.kind \in {"job", "post"} /\ k.counted = Empty /\ k.failed = Empty
      /\ k.inFlight = {} /\ ~k.quiet /\ Lists(k)
  BY <1>1, <1>2 DEF Consistent, KindFits, Holds
<1>6. o \in Owed
  BY <1>2, <1>5 DEF Owed, MayCreate
<1>7. n + 1 <= MaxReports /\ n + 1 \in 0..MaxReports
  <2>1. n + 1 <= MaxReports
    BY <1>6, RoomForOwed
  <2> QED
    BY <1>1, <2>1, BoundsTyped
<1>8. k2 \in Call
  <2>1. "multiple" \in Stages
    BY DEF Stages
  <2> HIDE DEF k, n
  <2> QED
    BY <1>1, <1>7, <2>1 DEF Call
<1>9. row \in Report /\ row.allocator = k.allocator /\ row.generation = "running" /\ row.scored = 0
  BY <1>2, WeightsTyped DEF Report
<1> HIDE DEF row, k2
<1>10. /\ reports' \in Seq(Report) /\ Len(reports') = n + 1
       /\ \A i \in 1..n : reports'[i] = reports[i]
       /\ reports'[n + 1] = row
  BY <1>1, <1>2, <1>9, AppendProperties
<1>11. n + 1 \in 1..Len(reports') /\ n + 1 \notin 1..n /\ n <= Len(reports')
       /\ DOMAIN reports' = 1..(n + 1)
  BY <1>1, <1>10, LenProperties
<1>12. Consistent(k2, reports', invalidated) /\ Tallies(k2, clientReports)
  <2>1. KindFits(k2) /\ Holds(k2) /\ Fresh(k2, invalidated) /\ Tallies(k2, clientReports)
    BY <1>4, <1>5 DEF KindFits, Holds, Fresh, Tallies, AtReport
  <2>2. Lists(k2)
    BY <1>4, <1>5 DEF Lists
  <2>3. reports'[k2.report] = row /\ k2.report \in 1..Len(reports')
    BY <1>4, <1>10, <1>11
  <2>4. Progress(k2, reports')
    <3> HIDE DEF k
    <3> QED
      BY <1>4, <1>9, <2>3 DEF Progress, AtReport
  <2> QED
    BY <2>1, <2>2, <2>4 DEF Consistent
<1>13. ReportsCounted'
  <2>1. Owed' \subseteq Owed \ {o}
    <3>1. \A a \in Known : MayCreate(k2, a) => MayCreate(k, a) /\ a # k.allocator
      BY <1>2, <1>4, <1>5 DEF MayCreate, Lists, AtReport
    <3>2. call'[c] = k2 /\ \A d \in Calls : d # c => call'[d] = call[d]
      BY <1>1, <1>3
    <3> QED
      BY <3>1, <3>2 DEF Owed
  <2> DEFINE limit == events * (1 + Cardinality(Known))
             owed == Cardinality(Owed)
             owed2 == Cardinality(Owed')
  <2>2. IsFiniteSet(Owed) /\ n + owed <= limit
    BY DEF IInv, ReportsCounted
  <2>3. IsFiniteSet(Owed \ {o}) /\ Cardinality(Owed \ {o}) = owed - 1
    BY <1>6, <2>2, FS_RemoveElement
  <2>4. IsFiniteSet(Owed') /\ owed2 <= owed - 1
    BY <2>1, <2>3, FS_Subset
  <2>5. owed \in Nat /\ owed2 \in Nat
    BY <2>2, <2>4, FS_CardinalityType
  <2>6. limit \in Nat
    BY Parts, BoundsTyped
  <2> HIDE DEF limit, owed, owed2, n
  <2>7. Len(reports') + owed2 <= limit
    BY <1>1, <1>10, <2>2, <2>4, <2>5, <2>6
  <2> QED
    BY <1>2, <2>4, <2>7 DEF ReportsCounted, limit, owed2
<1>14. DoneScored'
  <2>1. \A i \in 1..n : Scored(reports[i])
    BY Parts DEF IInv, DoneScored
  <2>2. Scored(row)
    BY <1>9 DEF Scored
  <2>3. \A i \in 1..(n + 1) : i \in 1..n \/ i = n + 1
    BY <1>1
  <2>4. \A i \in 1..(n + 1) : Scored(reports'[i])
    BY <1>10, <2>1, <2>2, <2>3
  <2> QED
    BY <1>11, <2>4 DEF DoneScored, Scored
<1>15. StaleResponsesExplained'
  BY <1>2 DEF IInv, StaleResponsesExplained
<1>16. events' \in 0..MaxEvents /\ cache' \in [Urls -> Response \cup {NotCached}]
  BY <1>2, Parts
<1>17. \A i \in 1..n : reports'[i].allocator = reports[i].allocator
  BY <1>10
<1>18. Len(reports') <= MaxReports /\ Len(reports) <= Len(reports')
  BY <1>7, <1>10, <1>11
<1> QED
  BY <1>2, <1>3, <1>4, <1>8, <1>10, <1>11, <1>12, <1>13, <1>14, <1>15, <1>16, <1>17, <1>18, CallStep

-----------------------------------------------------------------------------
(* The checks and the scores *)

\* One more check of the report that the call generates is stored.
LEMMA StoredRow ==
  ASSUME IInv, NEW c \in Calls, call[c].stage \in AtReport,
         NEW x \in OwnChecks \cup ClientChecks, Stored(c, x)
  PROVE  LET r == call[c].report
             row == reports'[r]
         IN /\ row \in Report /\ reports' = [reports EXCEPT ![r] = row]
            /\ r \in 1..Len(reports) /\ Len(reports') = Len(reports)
            /\ row.allocator = call[c].allocator /\ row.checks = reports[r].checks \cup {x}
            /\ row.scored = reports[r].scored /\ row.generation = "running" /\ Scored(row)
<1> DEFINE r == call[c].report
           old == reports[r]
           row == [old EXCEPT !.checks = @ \cup {x}]
<1>1. r \in 1..Len(reports) /\ old.allocator = call[c].allocator /\ old.generation = "running"
      /\ reports \in Seq(Report)
  BY Parts DEF Consistent, Progress
<1>2. old \in Report
  BY <1>1, ElementOfSeq
<1>3. reports' = [reports EXCEPT ![r] = row]
  BY DEF Stored
<1> HIDE DEF r, old
<1>4. /\ row \in Report /\ row.allocator = old.allocator /\ row.checks = old.checks \cup {x}
      /\ row.scored = old.scored /\ row.generation = old.generation
  BY <1>2 DEF Report
<1> HIDE DEF row
<1>5. Len(reports') = Len(reports) /\ reports'[r] = row
  BY <1>1, <1>3, <1>4, ExceptSeq
<1>6. Scored(row)
  BY <1>1, <1>4 DEF Scored
<1> QED
  BY <1>1, <1>3, <1>4, <1>5, <1>6 DEF r, old

\* The client reports are about to be read.
LEMMA BeginReadingFits ==
  ASSUME IInv, NEW c \in Calls, BeginReading(c), NEW rs,
         call[c].stage \in {"multiple", "copies"},
         LET row == rs[call[c].report]
         IN /\ call[c].report \in 1..Len(rs) /\ row.allocator = call[c].allocator
            /\ row.generation = "running" /\ row.scored = 0
            /\ Has(row, "CLIENT_MULTIPLE_ALLOCATORS")
            /\ CopiesConfigured => Has(row, "CLIENT_NOT_ENOUGH_COPIES")
  PROVE  \E k2 \in Call :
           /\ call' = [call EXCEPT ![c] = k2] /\ k2.report = call[c].report
           /\ Consistent(k2, rs, invalidated) /\ Tallies(k2, clientReports)
           /\ \A a \in Known : MayCreate(k2, a) => MayCreate(call[c], a)
<1> DEFINE k == call[c]
           k2 == [k EXCEPT !.stage = "active", !.toRead = ClientsOf[k.allocator], !.quiet = TRUE]
<1>1. k \in Call /\ Consistent(k, reports, invalidated) /\ call \in [Calls -> Call]
  BY Parts
<1>2. call' = [call EXCEPT ![c] = k2]
  BY <1>1 DEF BeginReading
<1>3. /\ k2.stage = "active" /\ k2.kind = k.kind /\ k2.allocator = k.allocator /\ k2.todo = k.todo
      /\ k2.report = k.report /\ k2.counted = k.counted /\ k2.failed = k.failed
      /\ k2.inFlight = k.inFlight /\ k2.toRead = ClientsOf[k.allocator]
  BY <1>1 DEF Call
<1>4. k2 \in Call
  <2>1. ClientsOf[k.allocator] \in SUBSET Clients
    BY <1>1 DEF Call, Clients
  <2>2. "active" \in Stages
    BY DEF Stages
  <2> HIDE DEF k
  <2> QED
    BY <1>1, <2>1, <2>2 DEF Call
<1> HIDE DEF k2
<1>5. /\ k.kind \in {"job", "post"} /\ k.counted = Empty /\ k.failed = Empty
      /\ k.inFlight = {} /\ Lists(k)
  BY <1>1 DEF Consistent, KindFits, Holds, AtReport
<1>6. Tallies(k2, clientReports)
  <2>1. \A x \in ClientChecks : SeenFor(k2, x) = {}
    BY <1>3 DEF SeenFor
  <2>2. \A x \in ClientChecks : k2.counted[x] = {} /\ k2.failed[x] = {}
    BY <1>3, <1>5 DEF Empty
  <2> QED
    BY <2>1, <2>2 DEF Tallies
<1>7. Consistent(k2, rs, invalidated)
  <2>1. KindFits(k2) /\ Holds(k2) /\ Lists(k2) /\ Fresh(k2, invalidated)
    BY <1>3, <1>5 DEF KindFits, Holds, Lists, Fresh, AtReport
  <2>2. Progress(k2, rs)
    BY <1>3 DEF Progress, AtReport
  <2> QED
    BY <2>1, <2>2 DEF Consistent
<1>8. \A a \in Known : MayCreate(k2, a) => MayCreate(k, a)
  BY <1>3 DEF MayCreate, AtReport
<1> QED
  BY <1>2, <1>3, <1>4, <1>6, <1>7, <1>8

\* The first of the report's own checks.
LEMMA StoreClientMultipleAllocatorsIInv ==
  ASSUME IInv, NEW c \in Calls, StoreClientMultipleAllocators(c)
  PROVE  IInv'
<1> DEFINE k == call[c]
           row == reports'[k.report]
<1>1. k \in Call /\ Consistent(k, reports, invalidated) /\ call \in [Calls -> Call]
  BY Parts
<1>2. /\ k.stage = "multiple" /\ Stored(c, "CLIENT_MULTIPLE_ALLOCATORS")
      /\ UNCHANGED <<clientReports, spending, cache, events, invalidated>>
  BY DEF StoreClientMultipleAllocators
<1>3. k.stage \in AtReport /\ "CLIENT_MULTIPLE_ALLOCATORS" \in OwnChecks \cup ClientChecks
  BY <1>2 DEF AtReport, OwnChecks
<1>4. /\ row \in Report /\ reports' = [reports EXCEPT ![k.report] = row]
      /\ k.report \in 1..Len(reports) /\ Len(reports') = Len(reports)
      /\ row.allocator = k.allocator /\ row.checks = reports[k.report].checks \cup {"CLIENT_MULTIPLE_ALLOCATORS"}
      /\ row.scored = reports[k.report].scored /\ row.generation = "running" /\ Scored(row)
  BY <1>2, <1>3, StoredRow
<1>5. row.scored = 0 /\ Has(row, "CLIENT_MULTIPLE_ALLOCATORS")
  BY <1>1, <1>2, <1>3, <1>4 DEF Consistent, Progress, Has
<1>6. events' \in events..MaxEvents
  BY <1>2, NoEvent
<1>7. CASE CopiesConfigured /\ Goto(c, "copies")
  <2> DEFINE k2 == [k EXCEPT !.stage = "copies"]
  <2>1. call' = [call EXCEPT ![c] = k2]
    BY <1>1, <1>7 DEF Goto
  <2>2. /\ k2.stage = "copies" /\ k2.kind = k.kind /\ k2.allocator = k.allocator /\ k2.todo = k.todo
        /\ k2.report = k.report /\ k2.counted = k.counted /\ k2.failed = k.failed
        /\ k2.inFlight = k.inFlight /\ k2.quiet = k.quiet
    BY <1>1 DEF Call
  <2>3. k2 \in Call
    BY <1>1 DEF Call, Stages
  <2> HIDE DEF k2
  <2>4. KindFits(k2) /\ Holds(k2) /\ Lists(k2) /\ Fresh(k2, invalidated) /\ Tallies(k2, clientReports)
    BY <1>1, <1>2, <2>2 DEF Consistent, KindFits, Holds, Lists, Fresh, Tallies, AtReport
  <2>5. Progress(k2, reports')
    BY <1>4, <1>5, <2>2 DEF Progress, AtReport
  <2>6. \A a \in Known : MayCreate(k2, a) => MayCreate(k, a)
    BY <1>2, <2>2 DEF MayCreate, AtReport
  <2> HIDE DEF row
  <2> QED
    BY <1>2, <1>3, <1>4, <1>6, <2>1, <2>2, <2>3, <2>4, <2>5, <2>6, RowStep DEF Consistent
<1>8. CASE ~CopiesConfigured /\ BeginReading(c)
  <2>1. PICK k2 \in Call :
           /\ call' = [call EXCEPT ![c] = k2] /\ k2.report = k.report
           /\ Consistent(k2, reports', invalidated) /\ Tallies(k2, clientReports)
           /\ \A a \in Known : MayCreate(k2, a) => MayCreate(call[c], a)
    BY <1>2, <1>4, <1>5, <1>8, BeginReadingFits
  <2> HIDE DEF row
  <2> QED
    BY <1>2, <1>3, <1>4, <1>6, <2>1, RowStep
<1> QED
  BY <1>7, <1>8 DEF StoreClientMultipleAllocators

\* The second one, if it is configured.
LEMMA StoreClientNotEnoughCopiesIInv ==
  ASSUME IInv, NEW c \in Calls, StoreClientNotEnoughCopies(c)
  PROVE  IInv'
<1> DEFINE k == call[c]
           row == reports'[k.report]
<1>1. k \in Call /\ Consistent(k, reports, invalidated)
  BY Parts
<1>2. /\ k.stage = "copies" /\ Stored(c, "CLIENT_NOT_ENOUGH_COPIES") /\ BeginReading(c)
      /\ UNCHANGED <<clientReports, spending, cache, events, invalidated>>
  BY DEF StoreClientNotEnoughCopies
<1>3. k.stage \in AtReport /\ "CLIENT_NOT_ENOUGH_COPIES" \in OwnChecks \cup ClientChecks
  BY <1>2 DEF AtReport, OwnChecks
<1>4. /\ row \in Report /\ reports' = [reports EXCEPT ![k.report] = row]
      /\ k.report \in 1..Len(reports) /\ Len(reports') = Len(reports)
      /\ row.allocator = k.allocator /\ row.checks = reports[k.report].checks \cup {"CLIENT_NOT_ENOUGH_COPIES"}
      /\ row.scored = reports[k.report].scored /\ row.generation = "running" /\ Scored(row)
  BY <1>2, <1>3, StoredRow
<1>5. row.scored = 0 /\ Has(row, "CLIENT_MULTIPLE_ALLOCATORS") /\ Has(row, "CLIENT_NOT_ENOUGH_COPIES")
  BY <1>1, <1>2, <1>3, <1>4 DEF Consistent, Progress, Has
<1>6. events' \in events..MaxEvents
  BY <1>2, NoEvent
<1>7. PICK k2 \in Call :
           /\ call' = [call EXCEPT ![c] = k2] /\ k2.report = k.report
           /\ Consistent(k2, reports', invalidated) /\ Tallies(k2, clientReports)
           /\ \A a \in Known : MayCreate(k2, a) => MayCreate(call[c], a)
  BY <1>2, <1>4, <1>5, BeginReadingFits
<1> HIDE DEF row
<1> QED
  BY <1>2, <1>3, <1>4, <1>6, <1>7, RowStep

-----------------------------------------------------------------------------
(* The client checks *)

\* The newest recent report of a client, which the query for its active clients finds, is
\* its newest report, unless that one is not recent: then there is none.
LEMMA ActiveResult ==
  ASSUME IInv, NEW client, NEW x \in ClientChecks, x # Inactivity
  PROVE  LET id == NewestClientReport(client, TRUE)
         IN /\ id \in 0..Len(clientReports)
            /\ id # None => clientReports[id].client = client
            /\ (IF id = None THEN "none" ELSE clientReports[id].results[x])
                  = Result(clientReports, client, x)
<1> DEFINE n == Len(clientReports)
           mine == ReportsOf(clientReports, client)
           recent == {i \in DOMAIN clientReports : clientReports[i].client = client /\ (TRUE => clientReports[i].recent)}
           m == Newest(mine)
           id == Newest(recent)
<1>1. n \in Nat /\ DOMAIN clientReports = 1..n
  BY Parts
<1>2. mine \in SUBSET (1..n) /\ recent \in SUBSET (1..n) /\ recent \subseteq mine
  BY <1>1 DEF ReportsOf
<1>3. \A i \in mine : clientReports[i].client = client
  BY DEF ReportsOf
<1>4. \A i \in mine : clientReports[i].recent => i \in recent
  BY DEF ReportsOf
<1>5. \A i \in recent : clientReports[i].recent
  OBVIOUS
<1>6. id = NewestClientReport(client, TRUE)
  BY DEF NewestClientReport
<1>7. \A i, j \in mine : i < j /\ clientReports[i].recent => clientReports[j].recent
  BY <1>1, <1>2, <1>3 DEF IInv, NewerRecent
<1> HIDE DEF mine, recent
<1>8. /\ m \in 0..n /\ (mine = {} => m = None) /\ (mine # {} => m \in mine) /\ \A j \in mine : j <= m
      /\ id \in 0..n /\ (recent = {} => id = None) /\ (recent # {} => id \in recent)
      /\ \A j \in recent : j <= id
  BY <1>1, <1>2, NewestIs
<1>9. \A i \in mine : i # None
  BY <1>1, <1>2 DEF None
<1> HIDE DEF m, id
<1>10. CASE mine = {} \/ ~clientReports[m].recent
  <2>1. recent = {}
    <3>1. SUFFICES ASSUME mine # {}, ~clientReports[m].recent, NEW i \in recent PROVE FALSE
      BY <1>2, <1>10
    <3>2. i \in mine /\ i <= m /\ m \in mine /\ clientReports[i].recent
      BY <1>2, <1>5, <1>8, <3>1
    <3>3. i \in Nat /\ m \in Nat
      BY <1>1, <1>2, <3>2
    <3> QED
      BY <1>7, <3>1, <3>2, <3>3
  <2> QED
    BY <1>6, <1>8, <1>10, <2>1 DEF Result, m, mine
<1>11. CASE mine # {} /\ clientReports[m].recent
  <2>1. m \in recent /\ m \in mine
    BY <1>4, <1>8, <1>11
  <2>2. id \in recent /\ id \in mine /\ m <= id /\ id <= m
    BY <1>2, <1>8, <2>1
  <2>3. id = m /\ id # None
    BY <1>1, <1>2, <1>9, <2>1, <2>2
  <2> QED
    BY <1>3, <1>6, <1>8, <1>11, <2>2, <2>3 DEF Result, m, mine
<1> QED
  BY <1>10, <1>11

\* The newest report of a client, for its inactivity.
LEMMA InactiveResult ==
  ASSUME IInv, NEW client
  PROVE  LET id == NewestClientReport(client, FALSE)
         IN /\ id \in 0..Len(clientReports)
            /\ id # None => clientReports[id].client = client
            /\ (IF id = None THEN "none" ELSE clientReports[id].results[Inactivity])
                  = Result(clientReports, client, Inactivity)
<1> DEFINE n == Len(clientReports)
           mine == ReportsOf(clientReports, client)
           m == Newest(mine)
<1>1. n \in Nat /\ DOMAIN clientReports = 1..n
  BY Parts
<1>2. mine \in SUBSET (1..n) /\ \A i \in mine : clientReports[i].client = client
  BY <1>1 DEF ReportsOf
<1>3. mine = {i \in DOMAIN clientReports : clientReports[i].client = client /\ (FALSE => clientReports[i].recent)}
  BY DEF ReportsOf
<1>4. m = NewestClientReport(client, FALSE)
  BY <1>3 DEF NewestClientReport
<1> HIDE DEF mine
<1>5. m \in 0..n /\ (mine = {} => m = None) /\ (mine # {} => m \in mine)
  BY <1>1, <1>2, NewestIs
<1> HIDE DEF m
<1> QED
  BY <1>2, <1>4, <1>5 DEF Result, m, mine

\* The record read is k with the results of a client's report, of some kinds, counted.
CountedFrom(k, read, id, client, kinds) ==
  LET res(x) == IF id = None THEN "none" ELSE clientReports[id].results[x]
  IN /\ read \in Call
     /\ read.stage = k.stage /\ read.kind = k.kind /\ read.allocator = k.allocator
     /\ read.report = k.report /\ read.toRead = k.toRead /\ read.inFlight = k.inFlight
     /\ read.todo = k.todo /\ read.quiet = k.quiet /\ read.overtaken = k.overtaken
     /\ \A x \in kinds :
          /\ read.counted[x] = IF res(x) = "none" THEN k.counted[x] ELSE k.counted[x] \cup {client}
          /\ read.failed[x] = IF res(x) = "fail" THEN k.failed[x] \cup {client} ELSE k.failed[x]
     /\ \A x \in ClientChecks \ kinds :
          read.counted[x] = k.counted[x] /\ read.failed[x] = k.failed[x]

\* A client's results are counted once each, by their kind.
LEMMA CountFits ==
  ASSUME IInv, NEW c \in Calls, NEW client \in Clients, NEW id \in 0..Len(clientReports),
         id # None => clientReports[id].client = client, NEW kinds \in SUBSET ClientChecks
  PROVE  CountedFrom(call[c], Count(c, id, kinds), id, client, kinds)
<1> DEFINE k == call[c]
           res(x) == IF id = None THEN "none" ELSE clientReports[id].results[x]
           result(x) == IF id = None \/ x \notin kinds THEN "none" ELSE clientReports[id].results[x]
           counted == [x \in ClientChecks |-> IF result(x) = "none" THEN k.counted[x]
                                              ELSE k.counted[x] \cup {clientReports[id].client}]
           failed == [x \in ClientChecks |-> IF result(x) = "fail" THEN k.failed[x] \cup {clientReports[id].client}
                                             ELSE k.failed[x]]
           read == [k EXCEPT !.counted = counted, !.failed = failed]
<1>1. k \in Call /\ k.counted \in Tally /\ k.failed \in Tally
  BY Parts DEF Call
<1>2. Count(c, id, kinds) = read
  BY <1>1 DEF Count, Call
<1>3. \A x \in kinds : result(x) = res(x)
  OBVIOUS
<1>4. \A x \in ClientChecks : result(x) # "none" => x \in kinds /\ clientReports[id].client = client
  OBVIOUS
<1>5. \A x \in ClientChecks \ kinds : result(x) = "none"
  OBVIOUS
<1>6. counted \in Tally /\ failed \in Tally
  <2> HIDE DEF result, k
  <2>1. \A x \in ClientChecks : counted[x] \in SUBSET Clients
    BY <1>1, <1>4 DEF Tally
  <2>2. \A x \in ClientChecks : failed[x] \in SUBSET Clients
    <3>1. \A x \in ClientChecks : result(x) = "fail" => clientReports[id].client = client
      BY <1>4
    <3> QED
      BY <1>1, <3>1 DEF Tally
  <2> QED
    BY <2>1, <2>2 DEF Tally
<1>7. \A x \in ClientChecks :
        /\ counted[x] = IF result(x) = "none" THEN k.counted[x] ELSE k.counted[x] \cup {client}
        /\ failed[x] = IF result(x) = "fail" THEN k.failed[x] \cup {client} ELSE k.failed[x]
  <2> HIDE DEF result, k
  <2> QED
    BY <1>4
<1> HIDE DEF counted, failed
<1>8. /\ read \in Call /\ read.counted = counted /\ read.failed = failed
      /\ read.stage = k.stage /\ read.kind = k.kind /\ read.allocator = k.allocator
      /\ read.report = k.report /\ read.toRead = k.toRead /\ read.inFlight = k.inFlight
      /\ read.todo = k.todo /\ read.quiet = k.quiet /\ read.overtaken = k.overtaken
  <2> HIDE DEF k
  <2> QED
    BY <1>1, <1>6 DEF Call
<1>9. /\ \A x \in kinds :
           /\ counted[x] = IF res(x) = "none" THEN k.counted[x] ELSE k.counted[x] \cup {client}
           /\ failed[x] = IF res(x) = "fail" THEN k.failed[x] \cup {client} ELSE k.failed[x]
      /\ \A x \in ClientChecks \ kinds : counted[x] = k.counted[x] /\ failed[x] = k.failed[x]
  <2> HIDE DEF result, res, k
  <2>1. \A x \in kinds : x \in ClientChecks
    OBVIOUS
  <2> QED
    BY <1>3, <1>5, <1>7, <2>1
<1> HIDE DEF read, k
<1>10. CountedFrom(k, read, id, client, kinds)
  BY <1>8, <1>9 DEF CountedFrom
<1> QED
  BY <1>2, <1>10 DEF k

\* The kinds of check whose results a stage counts.
KindsAt(stage) == IF stage = "active" THEN ClientChecks \ {Inactivity} ELSE {Inactivity}

\* After the answer for one more client, what is counted is still what the newest reports say.
LEMMA ReadIInv ==
  ASSUME IInv, NEW c \in Calls, NEW client, NEW k2 \in Call,
         call' = [call EXCEPT ![c] = k2],
         UNCHANGED <<clientReports, spending, reports, cache, events, invalidated>>,
         LET k == call[c]
             left == k.toRead \ {client}
         IN /\ k.stage \in {"active", "inactive"} /\ client \in k.toRead
            /\ k2.kind = k.kind /\ k2.allocator = k.allocator /\ k2.report = k.report
            /\ k2.todo = k.todo /\ k2.quiet = k.quiet
            /\ left # {} => k2.stage = k.stage /\ k2.toRead = left /\ k2.inFlight = {}
            /\ left = {} /\ k.stage = "active" =>
                 k2.stage = "inactive" /\ k2.toRead = ClientsOf[k.allocator] /\ k2.inFlight = {}
            /\ left = {} /\ k.stage = "inactive" => k2.stage = "storing" /\ k2.inFlight = ClientChecks
            /\ \A x \in KindsAt(k.stage) :
                 /\ k2.counted[x] = IF Result(clientReports, client, x) = "none" THEN k.counted[x]
                                    ELSE k.counted[x] \cup {client}
                 /\ k2.failed[x] = IF Result(clientReports, client, x) = "fail"
                                   THEN k.failed[x] \cup {client} ELSE k.failed[x]
            /\ \A x \in ClientChecks \ KindsAt(k.stage) :
                 k2.counted[x] = k.counted[x] /\ k2.failed[x] = k.failed[x]
  PROVE  IInv'
<1> DEFINE k == call[c]
           left == k.toRead \ {client}
           all == ClientsOf[k.allocator]
<1>1. k \in Call /\ Consistent(k, reports, invalidated) /\ Tallies(k, clientReports)
  BY Parts
<1>2. /\ k.stage \in {"active", "inactive"} /\ k.toRead \subseteq all /\ client \in k.toRead
      /\ k.kind \in {"job", "post"} /\ Lists(k) /\ Progress(k, reports)
  BY <1>1 DEF Consistent, KindFits, Holds, AtReport
<1>3. k2.stage \in {"active", "inactive", "storing"} /\ k.stage \in AtReport /\ k2.stage \in AtReport
  BY <1>2 DEF AtReport
<1>4. \A x \in ClientChecks :
        SeenFor(k2, x) = IF x \in KindsAt(k.stage) THEN SeenFor(k, x) \cup {client} ELSE SeenFor(k, x)
  <2>1. SUFFICES ASSUME NEW x \in ClientChecks
                 PROVE  SeenFor(k2, x) = IF x \in KindsAt(k.stage) THEN SeenFor(k, x) \cup {client}
                                         ELSE SeenFor(k, x)
    OBVIOUS
  <2>2. all \ left = (all \ k.toRead) \cup {client}
    BY <1>2
  <2>3. left = {} => all = (all \ k.toRead) \cup {client}
    BY <1>2
  <2>4. k2.allocator = k.allocator
    OBVIOUS
  <2>5. CASE k.stage = "active"
    <3>1. SeenFor(k, x) = (IF x = Inactivity THEN {} ELSE all \ k.toRead)
          /\ (x \in KindsAt(k.stage) <=> x # Inactivity)
      BY <2>5 DEF SeenFor, KindsAt
    <3>2. CASE left # {}
      <4>1. SeenFor(k2, x) = IF x = Inactivity THEN {} ELSE all \ left
        BY <2>4, <2>5, <3>2 DEF SeenFor
      <4> QED
        BY <2>2, <3>1, <4>1
    <3>3. CASE left = {}
      <4>1. SeenFor(k2, x) = IF x = Inactivity THEN all \ all ELSE all
        BY <2>4, <2>5, <3>3 DEF SeenFor
      <4> QED
        BY <2>3, <3>1, <3>3, <4>1
    <3> QED
      BY <3>2, <3>3
  <2>6. CASE k.stage = "inactive"
    <3>1. SeenFor(k, x) = (IF x = Inactivity THEN all \ k.toRead ELSE all)
          /\ (x \in KindsAt(k.stage) <=> x = Inactivity)
      BY <2>6 DEF SeenFor, KindsAt
    <3>2. CASE left # {}
      <4>1. SeenFor(k2, x) = IF x = Inactivity THEN all \ left ELSE all
        BY <2>4, <2>6, <3>2 DEF SeenFor
      <4> QED
        BY <2>2, <3>1, <4>1
    <3>3. CASE left = {}
      <4>1. SeenFor(k2, x) = all
        BY <2>4, <2>6, <3>3 DEF SeenFor
      <4> QED
        BY <2>3, <3>1, <3>3, <4>1
    <3> QED
      BY <3>2, <3>3
  <2> QED
    BY <1>2, <2>5, <2>6
<1>5. Tallies(k2, clientReports)
  <2> SUFFICES ASSUME k.quiet, NEW x \in ClientChecks
               PROVE  /\ k2.counted[x] = {d \in SeenFor(k2, x) : Result(clientReports, d, x) # "none"}
                      /\ k2.failed[x] = {d \in SeenFor(k2, x) : Result(clientReports, d, x) = "fail"}
    BY DEF Tallies
  <2> DEFINE S == SeenFor(k, x)
             v == Result(clientReports, client, x)
  <2>1. /\ k.counted[x] = {d \in S : Result(clientReports, d, x) # "none"}
        /\ k.failed[x] = {d \in S : Result(clientReports, d, x) = "fail"}
    BY <1>1 DEF Tallies
  <2> HIDE DEF k, S
  <2>2. CASE x \in KindsAt(k.stage)
    <3>1. SeenFor(k2, x) = S \cup {client}
      BY <1>4, <2>2 DEF S, k
    <3>2. /\ k2.counted[x] = IF v = "none" THEN k.counted[x] ELSE k.counted[x] \cup {client}
          /\ k2.failed[x] = IF v = "fail" THEN k.failed[x] \cup {client} ELSE k.failed[x]
      BY <2>2 DEF k
    <3>3. {d \in S \cup {client} : Result(clientReports, d, x) # "none"}
            = k.counted[x] \cup (IF v = "none" THEN {} ELSE {client})
      BY <2>1
    <3>4. {d \in S \cup {client} : Result(clientReports, d, x) = "fail"}
            = k.failed[x] \cup (IF v = "fail" THEN {client} ELSE {})
      BY <2>1
    <3> HIDE DEF v
    <3> QED
      BY <3>1, <3>2, <3>3, <3>4
  <2>3. CASE x \notin KindsAt(k.stage)
    <3>1. SeenFor(k2, x) = S /\ k2.counted[x] = k.counted[x] /\ k2.failed[x] = k.failed[x]
      BY <1>4, <2>3 DEF S, k
    <3> QED
      BY <2>1, <3>1
  <2> QED
    BY <2>2, <2>3
<1>6. Consistent(k2, reports, invalidated)
  <2>1. KindFits(k2) /\ Lists(k2) /\ Fresh(k2, invalidated)
    BY <1>2, <1>3 DEF KindFits, Lists, Fresh, AtReport
  <2>2. Holds(k2)
    <3>1. left \subseteq all /\ k2.allocator = k.allocator
      BY <1>2
    <3>2. k2.stage \in {"active", "inactive"} => k2.toRead \subseteq all
      BY <1>2, <3>1
    <3>3. /\ k2.stage # "storing" => k2.inFlight = {}
          /\ k2.stage = "active" => k2.toRead # {}
      BY <1>2
    <3> HIDE DEF k, left
    <3> QED
      BY <1>3, <3>1, <3>2, <3>3 DEF Holds, k
  <2>3. Progress(k2, reports)
    <3>1. k2.report = k.report /\ k2.allocator = k.allocator
          /\ (k2.stage = "storing" => k2.inFlight = ClientChecks)
      BY <1>2
    <3> DEFINE row == reports[k.report]
    <3>2. /\ k.report \in 1..Len(reports) /\ row.allocator = k.allocator /\ row.generation = "running"
          /\ row.scored = 0 /\ Has(row, "CLIENT_MULTIPLE_ALLOCATORS")
          /\ CopiesConfigured => Has(row, "CLIENT_NOT_ENOUGH_COPIES")
      BY <1>2 DEF Progress, AtReport
    <3> HIDE DEF k, row
    <3> QED
      BY <1>3, <3>1, <3>2 DEF Progress, row, AtReport
  <2> QED
    BY <2>1, <2>2, <2>3 DEF Consistent
<1>7. \A a \in Known : MayCreate(k2, a) => MayCreate(k, a)
  BY <1>2, <1>3 DEF MayCreate, AtReport
<1> QED
  BY <1>3, <1>5, <1>6, <1>7, NoEvent, OwnStep

\* The answer for a client that spent lately.
LEMMA ReadActiveClientIInv ==
  ASSUME IInv, NEW c \in Calls, ReadActiveClient(c)
  PROVE  IInv'
<1> DEFINE k == call[c]
           kinds == ClientChecks \ {Inactivity}
<1>1. /\ k \in Call /\ k.toRead \in SUBSET Clients /\ k.toRead \subseteq ClientsOf[k.allocator]
      /\ k.inFlight = {} /\ k.stage = "active"
  BY Parts DEF ReadActiveClient, Call, Consistent, Holds
<1>2. UNCHANGED <<clientReports, spending, reports, cache, events, invalidated>>
  BY DEF ReadActiveClient
<1>3. PICK client \in k.toRead :
        LET left == k.toRead \ {client}
            read == Count(c, NewestClientReport(client, TRUE), kinds)
        IN call' = [call EXCEPT ![c] =
             [read EXCEPT !.stage = IF left = {} THEN "inactive" ELSE @,
                          !.toRead = IF left = {} THEN ClientsOf[k.allocator] ELSE left]]
  BY DEF ReadActiveClient
<1> DEFINE id == NewestClientReport(client, TRUE)
           left == k.toRead \ {client}
           read == Count(c, id, kinds)
           k2 == [read EXCEPT !.stage = IF left = {} THEN "inactive" ELSE @,
                              !.toRead = IF left = {} THEN ClientsOf[k.allocator] ELSE left]
           res(x) == IF id = None THEN "none" ELSE clientReports[id].results[x]
<1>4. call' = [call EXCEPT ![c] = k2]
  BY <1>3
<1>5. /\ id \in 0..Len(clientReports) /\ (id # None => clientReports[id].client = client)
      /\ \A x \in kinds : res(x) = Result(clientReports, client, x)
  <2>1. \A x \in kinds : /\ id \in 0..Len(clientReports) /\ (id # None => clientReports[id].client = client)
                         /\ res(x) = Result(clientReports, client, x)
    BY ActiveResult
  <2>2. CASE kinds # {}
    BY <2>1, <2>2
  <2>3. CASE kinds = {}
    <3> DEFINE found == {i \in DOMAIN clientReports : clientReports[i].client = client /\ (TRUE => clientReports[i].recent)}
    <3>1. found \in SUBSET (1..Len(clientReports)) /\ Len(clientReports) \in Nat
      BY Parts
    <3>2. id = Newest(found) /\ \A i \in found : clientReports[i].client = client
      BY DEF NewestClientReport
    <3> HIDE DEF found, id
    <3>3. id \in 0..Len(clientReports) /\ (found = {} => id = None) /\ (found # {} => id \in found)
      BY <3>1, <3>2, NewestIs
    <3> QED
      BY <2>3, <3>2, <3>3
  <2> QED
    BY <2>2, <2>3
<1> HIDE DEF id
<1>6. kinds \in SUBSET ClientChecks /\ client \in Clients
  BY <1>1
<1>7. /\ read \in Call
      /\ read.stage = k.stage /\ read.kind = k.kind /\ read.allocator = k.allocator
      /\ read.report = k.report /\ read.toRead = k.toRead /\ read.inFlight = k.inFlight
      /\ read.todo = k.todo /\ read.quiet = k.quiet /\ read.overtaken = k.overtaken
      /\ \A x \in kinds :
           /\ read.counted[x] = IF res(x) = "none" THEN k.counted[x] ELSE k.counted[x] \cup {client}
           /\ read.failed[x] = IF res(x) = "fail" THEN k.failed[x] \cup {client} ELSE k.failed[x]
      /\ \A x \in ClientChecks \ kinds :
           read.counted[x] = k.counted[x] /\ read.failed[x] = k.failed[x]
  <2>1. id \in 0..Len(clientReports) /\ (id # None => clientReports[id].client = client)
    BY <1>5
  <2> HIDE DEF kinds
  <2>2. CountedFrom(k, read, id, client, kinds)
    BY <1>6, <2>1, CountFits
  <2> HIDE DEF k, read
  <2> QED
    BY <2>2 DEF CountedFrom
<1> HIDE DEF read
<1>8. /\ k2.stage = (IF left = {} THEN "inactive" ELSE "active")
      /\ k2.toRead = (IF left = {} THEN ClientsOf[k.allocator] ELSE left)
      /\ k2.kind = k.kind /\ k2.allocator = k.allocator /\ k2.report = k.report
      /\ k2.inFlight = {} /\ k2.todo = k.todo /\ k2.quiet = k.quiet
      /\ k2.counted = read.counted /\ k2.failed = read.failed
  BY <1>1, <1>7 DEF Call
<1>9. k2 \in Call
  <2>1. /\ (IF left = {} THEN "inactive" ELSE read.stage) \in Stages
        /\ (IF left = {} THEN ClientsOf[k.allocator] ELSE left) \in SUBSET Clients
    <3>1. read.stage \in Stages /\ "inactive" \in Stages
      BY <1>7 DEF Call, Stages
    <3>2. ClientsOf[k.allocator] \in SUBSET Clients /\ left \in SUBSET Clients
      BY <1>1 DEF Call, Clients
    <3> QED
      BY <3>1, <3>2
  <2> HIDE DEF k, left
  <2> QED
    BY <1>7, <2>1 DEF Call
<1>10. KindsAt(k.stage) = kinds
  BY <1>1 DEF KindsAt
<1>11. /\ \A x \in KindsAt(k.stage) :
            /\ k2.counted[x] = IF Result(clientReports, client, x) = "none" THEN k.counted[x]
                               ELSE k.counted[x] \cup {client}
            /\ k2.failed[x] = IF Result(clientReports, client, x) = "fail"
                              THEN k.failed[x] \cup {client} ELSE k.failed[x]
       /\ \A x \in ClientChecks \ KindsAt(k.stage) :
            k2.counted[x] = k.counted[x] /\ k2.failed[x] = k.failed[x]
  <2>1. k2.counted = read.counted /\ k2.failed = read.failed
    BY <1>8
  <2> HIDE DEF k2, k, res, kinds
  <2>2. \A x \in kinds :
            /\ read.counted[x] = IF Result(clientReports, client, x) = "none" THEN k.counted[x]
                                 ELSE k.counted[x] \cup {client}
            /\ read.failed[x] = IF Result(clientReports, client, x) = "fail"
                                THEN k.failed[x] \cup {client} ELSE k.failed[x]
    BY <1>5, <1>7
  <2> QED
    BY <1>7, <1>10, <2>1, <2>2
<1> HIDE DEF k2
<1>12. /\ left # {} => k2.stage = k.stage /\ k2.toRead = left /\ k2.inFlight = {}
       /\ left = {} /\ k.stage = "active" =>
            k2.stage = "inactive" /\ k2.toRead = ClientsOf[k.allocator] /\ k2.inFlight = {}
       /\ left = {} /\ k.stage = "inactive" => k2.stage = "storing" /\ k2.inFlight = ClientChecks
       /\ k.stage \in {"active", "inactive"} /\ client \in k.toRead
       /\ k2.kind = k.kind /\ k2.allocator = k.allocator /\ k2.report = k.report
       /\ k2.todo = k.todo /\ k2.quiet = k.quiet
  BY <1>1, <1>3, <1>8
<1> QED
  BY <1>2, <1>4, <1>9, <1>11, <1>12, ReadIInv

\* The answer for any client.
LEMMA ReadClientIInv ==
  ASSUME IInv, NEW c \in Calls, ReadClient(c)
  PROVE  IInv'
<1> DEFINE k == call[c]
           kinds == {Inactivity}
<1>1. /\ k \in Call /\ k.toRead \in SUBSET Clients /\ k.toRead \subseteq ClientsOf[k.allocator]
      /\ k.inFlight = {} /\ k.stage = "inactive"
  BY Parts DEF ReadClient, Call, Consistent, Holds
<1>2. UNCHANGED <<clientReports, spending, reports, cache, events, invalidated>>
  BY DEF ReadClient
<1>3. PICK client \in k.toRead :
        LET left == k.toRead \ {client}
            read == Count(c, NewestClientReport(client, FALSE), kinds)
        IN call' = [call EXCEPT ![c] =
             [read EXCEPT !.stage = IF left = {} THEN "storing" ELSE @,
                          !.toRead = left,
                          !.inFlight = IF left = {} THEN ClientChecks ELSE {}]]
  BY DEF ReadClient
<1> DEFINE id == NewestClientReport(client, FALSE)
           left == k.toRead \ {client}
           read == Count(c, id, kinds)
           k2 == [read EXCEPT !.stage = IF left = {} THEN "storing" ELSE @,
                              !.toRead = left,
                              !.inFlight = IF left = {} THEN ClientChecks ELSE {}]
           res(x) == IF id = None THEN "none" ELSE clientReports[id].results[x]
<1>4. call' = [call EXCEPT ![c] = k2]
  BY <1>3
<1>5. /\ id \in 0..Len(clientReports) /\ (id # None => clientReports[id].client = client)
      /\ \A x \in kinds : res(x) = Result(clientReports, client, x)
  BY InactiveResult
<1> HIDE DEF id
<1>6. kinds \in SUBSET ClientChecks /\ client \in Clients
  BY <1>1, ConstantsAssumption
<1>7. /\ read \in Call
      /\ read.stage = k.stage /\ read.kind = k.kind /\ read.allocator = k.allocator
      /\ read.report = k.report /\ read.toRead = k.toRead /\ read.inFlight = k.inFlight
      /\ read.todo = k.todo /\ read.quiet = k.quiet /\ read.overtaken = k.overtaken
      /\ \A x \in kinds :
           /\ read.counted[x] = IF res(x) = "none" THEN k.counted[x] ELSE k.counted[x] \cup {client}
           /\ read.failed[x] = IF res(x) = "fail" THEN k.failed[x] \cup {client} ELSE k.failed[x]
      /\ \A x \in ClientChecks \ kinds :
           read.counted[x] = k.counted[x] /\ read.failed[x] = k.failed[x]
  <2>1. id \in 0..Len(clientReports) /\ (id # None => clientReports[id].client = client)
    BY <1>5
  <2> HIDE DEF kinds
  <2>2. CountedFrom(k, read, id, client, kinds)
    BY <1>6, <2>1, CountFits
  <2> HIDE DEF k, read
  <2> QED
    BY <2>2 DEF CountedFrom
<1> HIDE DEF read
<1>8. /\ k2.stage = (IF left = {} THEN "storing" ELSE "inactive") /\ k2.toRead = left
      /\ k2.inFlight = (IF left = {} THEN ClientChecks ELSE {})
      /\ k2.kind = k.kind /\ k2.allocator = k.allocator /\ k2.report = k.report
      /\ k2.todo = k.todo /\ k2.quiet = k.quiet
      /\ k2.counted = read.counted /\ k2.failed = read.failed
  BY <1>1, <1>7 DEF Call
<1>9. k2 \in Call
  <2>1. /\ (IF left = {} THEN "storing" ELSE read.stage) \in Stages
        /\ left \in SUBSET Clients
        /\ (IF left = {} THEN ClientChecks ELSE {}) \in SUBSET ClientChecks
    <3>1. read.stage \in Stages /\ "storing" \in Stages
      BY <1>7 DEF Call, Stages
    <3>2. left \in SUBSET Clients
      BY <1>1
    <3> QED
      BY <3>1, <3>2
  <2> HIDE DEF k, left
  <2> QED
    BY <1>7, <2>1 DEF Call
<1>10. KindsAt(k.stage) = kinds
  BY <1>1 DEF KindsAt
<1>11. /\ \A x \in KindsAt(k.stage) :
            /\ k2.counted[x] = IF Result(clientReports, client, x) = "none" THEN k.counted[x]
                               ELSE k.counted[x] \cup {client}
            /\ k2.failed[x] = IF Result(clientReports, client, x) = "fail"
                              THEN k.failed[x] \cup {client} ELSE k.failed[x]
       /\ \A x \in ClientChecks \ KindsAt(k.stage) :
            k2.counted[x] = k.counted[x] /\ k2.failed[x] = k.failed[x]
  <2>1. k2.counted = read.counted /\ k2.failed = read.failed
    BY <1>8
  <2> HIDE DEF k2, k, res, kinds
  <2>2. \A x \in kinds :
            /\ read.counted[x] = IF Result(clientReports, client, x) = "none" THEN k.counted[x]
                                 ELSE k.counted[x] \cup {client}
            /\ read.failed[x] = IF Result(clientReports, client, x) = "fail"
                                THEN k.failed[x] \cup {client} ELSE k.failed[x]
    BY <1>5, <1>7
  <2> QED
    BY <1>7, <1>10, <2>1, <2>2
<1> HIDE DEF k2
<1>12. /\ left # {} => k2.stage = k.stage /\ k2.toRead = left /\ k2.inFlight = {}
       /\ left = {} /\ k.stage = "active" =>
            k2.stage = "inactive" /\ k2.toRead = ClientsOf[k.allocator] /\ k2.inFlight = {}
       /\ left = {} /\ k.stage = "inactive" => k2.stage = "storing" /\ k2.inFlight = ClientChecks
       /\ k.stage \in {"active", "inactive"} /\ client \in k.toRead
       /\ k2.kind = k.kind /\ k2.allocator = k.allocator /\ k2.report = k.report
       /\ k2.todo = k.todo /\ k2.quiet = k.quiet
  BY <1>1, <1>3, <1>8
<1> QED
  BY <1>2, <1>4, <1>9, <1>11, <1>12, ReadIInv

\* Without clients there is nothing to count.
LEMMA ReadNoClientIInv ==
  ASSUME IInv, NEW c \in Calls, ReadNoClient(c)
  PROVE  IInv'
<1> DEFINE k == call[c]
           k2 == [k EXCEPT !.stage = "storing", !.inFlight = ClientChecks]
<1>1. k \in Call /\ Consistent(k, reports, invalidated) /\ Tallies(k, clientReports)
  BY Parts
<1>2. /\ k.stage = "active" /\ k.toRead = {}
      /\ UNCHANGED <<clientReports, spending, reports, cache, events, invalidated>>
      /\ call' = [call EXCEPT ![c] = k2]
  BY Parts DEF ReadNoClient
<1>3. /\ k2.stage = "storing" /\ k2.kind = k.kind /\ k2.allocator = k.allocator /\ k2.todo = k.todo
      /\ k2.report = k.report /\ k2.counted = k.counted /\ k2.failed = k.failed
      /\ k2.inFlight = ClientChecks /\ k2.quiet = k.quiet
  BY <1>1 DEF Call
<1>4. k2 \in Call
  BY <1>1 DEF Call, Stages
<1> HIDE DEF k2
<1>5. KindFits(k2) /\ Holds(k2) /\ Lists(k2) /\ Fresh(k2, invalidated)
  BY <1>1, <1>2, <1>3 DEF Consistent, KindFits, Holds, Lists, Fresh, AtReport
<1>6. Progress(k2, reports)
  <2> DEFINE row == reports[k.report]
  <2>1. /\ k.report \in 1..Len(reports) /\ row.allocator = k.allocator /\ row.generation = "running"
        /\ row.scored = 0 /\ Has(row, "CLIENT_MULTIPLE_ALLOCATORS")
        /\ CopiesConfigured => Has(row, "CLIENT_NOT_ENOUGH_COPIES")
    BY <1>1, <1>2 DEF Consistent, Progress, AtReport
  <2> HIDE DEF k
  <2> QED
    BY <1>3, <2>1 DEF Progress, AtReport
<1>7. Tallies(k2, clientReports)
  <2> SUFFICES ASSUME k.quiet, NEW x \in ClientChecks
               PROVE  /\ k2.counted[x] = {d \in SeenFor(k2, x) : Result(clientReports, d, x) # "none"}
                      /\ k2.failed[x] = {d \in SeenFor(k2, x) : Result(clientReports, d, x) = "fail"}
    BY <1>3 DEF Tallies
  <2>1. SeenFor(k2, x) = ClientsOf[k.allocator]
    BY <1>3 DEF SeenFor
  <2>2. SeenFor(k, x) = IF x = Inactivity THEN {} ELSE ClientsOf[k.allocator]
    BY <1>2 DEF SeenFor
  <2>3. ClientsOf[k.allocator] = {}
    BY <1>1, <1>2 DEF Consistent, Holds
  <2> QED
    BY <1>1, <1>3, <2>1, <2>2, <2>3 DEF Tallies
<1>8. \A a \in Known : MayCreate(k2, a) => MayCreate(k, a)
  BY <1>2, <1>3 DEF MayCreate, AtReport
<1>9. k2.stage \in AtReport /\ k.stage \in AtReport
  BY <1>2, <1>3 DEF AtReport
<1> QED
  BY <1>2, <1>3, <1>4, <1>5, <1>6, <1>7, <1>8, <1>9, NoEvent, OwnStep DEF Consistent

\* One of the writes completes.
LEMMA StoreClientCheckIInv ==
  ASSUME IInv, NEW c \in Calls, StoreClientCheck(c)
  PROVE  IInv'
<1> DEFINE k == call[c]
           row == reports'[k.report]
<1>1. k \in Call /\ Consistent(k, reports, invalidated) /\ Tallies(k, clientReports)
      /\ call \in [Calls -> Call]
  BY Parts
<1>2. /\ k.stage = "storing"
      /\ UNCHANGED <<clientReports, spending, cache, events, invalidated>>
  BY DEF StoreClientCheck
<1>3. PICK x \in k.inFlight :
        /\ Stored(c, x)
        /\ call' = [call EXCEPT ![c] =
             IF k.inFlight # {x} THEN [k EXCEPT !.inFlight = @ \ {x}]
             ELSE [k EXCEPT !.inFlight = {}, !.stage = "schedule",
                            !.counted = Empty, !.failed = Empty, !.quiet = FALSE]]
  BY DEF StoreClientCheck
<1>4. k.stage \in AtReport /\ x \in OwnChecks \cup ClientChecks /\ k.inFlight \in SUBSET ClientChecks
  BY <1>1, <1>2 DEF AtReport, Call
<1>5. /\ row \in Report /\ reports' = [reports EXCEPT ![k.report] = row]
      /\ k.report \in 1..Len(reports) /\ Len(reports') = Len(reports)
      /\ row.allocator = k.allocator /\ row.checks = reports[k.report].checks \cup {x}
      /\ row.scored = reports[k.report].scored /\ row.generation = "running" /\ Scored(row)
  BY <1>3, <1>4, StoredRow
<1>6. /\ row.scored = 0 /\ Has(row, "CLIENT_MULTIPLE_ALLOCATORS")
      /\ CopiesConfigured => Has(row, "CLIENT_NOT_ENOUGH_COPIES")
      /\ ClientChecks \subseteq row.checks \cup (k.inFlight \ {x})
  <2>1. /\ reports[k.report].scored = 0 /\ Has(reports[k.report], "CLIENT_MULTIPLE_ALLOCATORS")
        /\ CopiesConfigured => Has(reports[k.report], "CLIENT_NOT_ENOUGH_COPIES")
        /\ ClientChecks \subseteq reports[k.report].checks \cup k.inFlight
    BY <1>1, <1>2 DEF Consistent, Progress, AtReport
  <2> HIDE DEF k, row
  <2> QED
    BY <1>5, <2>1 DEF Has
<1>7. k.kind \in {"job", "post"} /\ Lists(k)
  BY <1>1, <1>2 DEF Consistent, KindFits, AtReport
<1>8. events' \in events..MaxEvents
  BY <1>2, NoEvent
<1>9. CASE k.inFlight # {x}
  <2> DEFINE k2 == [k EXCEPT !.inFlight = @ \ {x}]
  <2>1. call' = [call EXCEPT ![c] = k2]
    BY <1>1, <1>3, <1>9
  <2>2. /\ k2.stage = "storing" /\ k2.kind = k.kind /\ k2.allocator = k.allocator /\ k2.todo = k.todo
        /\ k2.report = k.report /\ k2.counted = k.counted /\ k2.failed = k.failed
        /\ k2.inFlight = k.inFlight \ {x} /\ k2.quiet = k.quiet /\ k2.toRead = k.toRead
    BY <1>1, <1>2 DEF Call
  <2>3. k2 \in Call
    BY <1>1, <1>4 DEF Call
  <2> HIDE DEF k2, row
  <2>4. KindFits(k2) /\ Holds(k2) /\ Lists(k2) /\ Fresh(k2, invalidated)
    BY <1>7, <2>2 DEF KindFits, Holds, Lists, Fresh, AtReport
  <2>5. Progress(k2, reports')
    BY <1>5, <1>6, <2>2 DEF Progress, AtReport, row
  <2>6. Tallies(k2, clientReports)
    <3>1. \A y \in ClientChecks : SeenFor(k2, y) = SeenFor(k, y)
      BY <1>2, <2>2 DEF SeenFor
    <3> QED
      BY <1>1, <2>2, <3>1 DEF Tallies
  <2>7. \A a \in Known : MayCreate(k2, a) => MayCreate(k, a)
    BY <1>2, <2>2 DEF MayCreate, AtReport
  <2> QED
    BY <1>2, <1>4, <1>5, <1>8, <2>1, <2>2, <2>3, <2>4, <2>5, <2>6, <2>7, RowStep DEF Consistent
<1>10. CASE k.inFlight = {x}
  <2> DEFINE k2 == [k EXCEPT !.inFlight = {}, !.stage = "schedule",
                             !.counted = Empty, !.failed = Empty, !.quiet = FALSE]
  <2>1. call' = [call EXCEPT ![c] = k2]
    BY <1>3, <1>10
  <2>2. /\ k2.stage = "schedule" /\ k2.kind = k.kind /\ k2.allocator = k.allocator /\ k2.todo = k.todo
        /\ k2.report = k.report /\ k2.inFlight = {} /\ k2.quiet = FALSE
    BY <1>1, <1>2 DEF Call
  <2>3. k2 \in Call
    <3>1. "schedule" \in Stages
      BY DEF Stages
    <3> HIDE DEF k
    <3> QED
      BY <1>1, <3>1, NoCallTyped DEF Call
  <2> HIDE DEF k2, row
  <2>4. KindFits(k2) /\ Holds(k2) /\ Lists(k2) /\ Fresh(k2, invalidated) /\ Tallies(k2, clientReports)
    BY <1>7, <2>2 DEF KindFits, Holds, Lists, Fresh, Tallies, AtReport
  <2>5. Progress(k2, reports')
    <3>1. ClientChecks \subseteq row.checks \cup {}
      BY <1>6, <1>10
    <3> QED
      BY <1>5, <1>6, <2>2, <3>1 DEF Progress, AtReport, row
  <2>6. \A a \in Known : MayCreate(k2, a) => MayCreate(k, a)
    BY <1>2, <2>2 DEF MayCreate, AtReport
  <2> QED
    BY <1>2, <1>4, <1>5, <1>8, <2>1, <2>2, <2>3, <2>4, <2>5, <2>6, RowStep DEF Consistent
<1> QED
  BY <1>9, <1>10

-----------------------------------------------------------------------------
(* The schedule check and the scores *)

\* What a call at the schedule check or at the scores goes on with.
LEMMA ScoringStep ==
  ASSUME IInv, NEW c \in Calls, NEW stage \in {"scoring", "reading"}, Goto(c, stage),
         call[c].stage \in {"schedule", "scoring"},
         NEW row \in Report,
         reports' = [reports EXCEPT ![call[c].report] = row],
         row.allocator = call[c].allocator, row.generation = "running",
         reports[call[c].report].checks \subseteq row.checks,
         call[c].allocator \in Scheduled => Has(row, "MANUAL_ALLOCATION_SCHEDULE"),
         stage = "scoring" => DataType[call[c].allocator] # "none" /\ row.scored < MaxScores,
         stage = "reading" /\ DataType[call[c].allocator] # "none" => AllScored(row),
         UNCHANGED <<clientReports, spending, cache, events, invalidated>>
  PROVE  IInv'
<1> DEFINE k == call[c]
           k2 == [k EXCEPT !.stage = stage]
           old == reports[k.report]
<1>1. k \in Call /\ Consistent(k, reports, invalidated) /\ call \in [Calls -> Call]
      /\ reports \in Seq(Report)
  BY Parts
<1>2. /\ k.stage \in AtReport /\ k.report \in 1..Len(reports) /\ Has(old, "CLIENT_MULTIPLE_ALLOCATORS")
      /\ CopiesConfigured => Has(old, "CLIENT_NOT_ENOUGH_COPIES")
      /\ ClientChecks \subseteq old.checks /\ k.kind \in {"job", "post"} /\ Lists(k)
      /\ k.inFlight = {} /\ k.quiet = FALSE
  BY <1>1 DEF Consistent, Progress, AtReport, KindFits, Holds, Call
<1>3. call' = [call EXCEPT ![c] = k2]
  BY <1>1 DEF Goto
<1>4. /\ k2.stage = stage /\ k2.kind = k.kind /\ k2.allocator = k.allocator /\ k2.todo = k.todo
      /\ k2.report = k.report /\ k2.inFlight = {} /\ k2.quiet = FALSE
  BY <1>1, <1>2 DEF Call
<1>5. k2 \in Call
  BY <1>1 DEF Call, Stages
<1> HIDE DEF k2
<1>6. Len(reports') = Len(reports) /\ reports'[k.report] = row
  BY <1>1, <1>2, ExceptSeq
<1>7. KindFits(k2) /\ Holds(k2) /\ Lists(k2) /\ Fresh(k2, invalidated) /\ Tallies(k2, clientReports)
  BY <1>2, <1>4 DEF KindFits, Holds, Lists, Fresh, Tallies, AtReport
<1>8. Progress(k2, reports')
  <2>1. /\ Has(row, "CLIENT_MULTIPLE_ALLOCATORS")
        /\ CopiesConfigured => Has(row, "CLIENT_NOT_ENOUGH_COPIES")
        /\ ClientChecks \subseteq row.checks
    BY <1>2 DEF Has
  <2>2. reports'[k2.report] = row /\ k2.report \in 1..Len(reports')
    BY <1>2, <1>4, <1>6
  <2> QED
    BY <1>4, <2>1, <2>2 DEF Progress, AtReport
<1>9. \A a \in Known : MayCreate(k2, a) => MayCreate(k, a)
  BY <1>2, <1>4 DEF MayCreate, AtReport
<1>10. Scored(row)
  BY DEF Scored
<1> QED
  BY <1>2, <1>3, <1>4, <1>5, <1>7, <1>8, <1>9, <1>10, NoEvent, RowStep DEF Consistent

\* The check of the tranche schedule; then come the scores, if the data has a type.
LEMMA StoreTrancheScheduleCheckIInv ==
  ASSUME IInv, NEW c \in Calls, StoreTrancheScheduleCheck(c)
  PROVE  IInv'
<1> DEFINE k == call[c]
           stage == IF DataType[k.allocator] = "none" THEN "reading" ELSE "scoring"
           x == "MANUAL_ALLOCATION_SCHEDULE"
           old == reports[k.report]
<1>1. k \in Call /\ Consistent(k, reports, invalidated) /\ reports \in Seq(Report)
  BY Parts
<1>2. /\ k.stage = "schedule" /\ Goto(c, stage)
      /\ IF k.allocator \in Scheduled THEN Stored(c, x) ELSE UNCHANGED reports
      /\ UNCHANGED <<clientReports, spending, cache, events, invalidated>>
  BY DEF StoreTrancheScheduleCheck
<1>3. /\ k.report \in 1..Len(reports) /\ old.scored = 0 /\ old.allocator = k.allocator
      /\ old.generation = "running"
  BY <1>1, <1>2 DEF Consistent, Progress, AtReport
<1>4. 0 < MaxScores /\ stage \in {"scoring", "reading"}
  BY WeightsTyped
<1>5. CASE k.allocator \in Scheduled
  <2> DEFINE row == reports'[k.report]
  <2>1. k.stage \in AtReport /\ x \in OwnChecks \cup ClientChecks
    BY <1>2 DEF AtReport, OwnChecks
  <2>2. /\ row \in Report /\ reports' = [reports EXCEPT ![k.report] = row]
        /\ row.allocator = k.allocator /\ row.checks = old.checks \cup {x}
        /\ row.scored = old.scored /\ row.generation = "running"
    BY <1>2, <1>5, <2>1, StoredRow
  <2>3. Has(row, x) /\ old.checks \subseteq row.checks /\ row.scored < MaxScores
    BY <1>3, <1>4, <2>2 DEF Has
  <2> HIDE DEF row
  <2> QED
    BY <1>2, <1>4, <2>2, <2>3, ScoringStep
<1>6. CASE k.allocator \notin Scheduled
  <2>1. old \in Report
    BY <1>1, <1>3, ElementOfSeq
  <2>2. reports' = [reports EXCEPT ![k.report] = old]
    BY <1>1, <1>2, <1>3, <1>6
  <2>3. old.scored < MaxScores
    BY <1>3, <1>4
  <2> HIDE DEF old
  <2>4. old.allocator = k.allocator /\ old.generation = "running" /\ reports[k.report].checks \subseteq old.checks
    BY <1>3 DEF old
  <2> QED
    BY <1>2, <1>4, <1>6, <2>1, <2>2, <2>3, <2>4, ScoringStep
<1> QED
  BY <1>5, <1>6

\* The next score; after the last one the report is read back.
LEMMA StoreScoreIInv ==
  ASSUME IInv, NEW c \in Calls, StoreScore(c)
  PROVE  IInv'
<1> DEFINE k == call[c]
           old == reports[k.report]
           row == [old EXCEPT !.scored = @ + 1]
           stage == IF AllScored(row) THEN "reading" ELSE "scoring"
<1>1. k \in Call /\ Consistent(k, reports, invalidated) /\ reports \in Seq(Report)
  BY Parts
<1>2. /\ k.stage = "scoring" /\ Goto(c, stage)
      /\ reports' = [reports EXCEPT ![k.report] = row]
      /\ UNCHANGED <<clientReports, spending, cache, events, invalidated>>
  BY DEF StoreScore
<1>3. /\ k.report \in 1..Len(reports) /\ old.allocator = k.allocator /\ old.generation = "running"
      /\ DataType[k.allocator] # "none" /\ old.scored < MaxScores
      /\ k.allocator \in Scheduled => Has(old, "MANUAL_ALLOCATION_SCHEDULE")
  BY <1>1, <1>2 DEF Consistent, Progress, AtReport
<1>4. old \in Report
  BY <1>1, <1>3, ElementOfSeq
<1> HIDE DEF old
<1>5. old.scored + 1 \in 0..MaxScores
  BY <1>3, <1>4, WeightsTyped DEF Report
<1>6. /\ row \in Report /\ row.allocator = old.allocator /\ row.checks = old.checks
      /\ row.scored = old.scored + 1 /\ row.generation = old.generation
  BY <1>4, <1>5 DEF Report
<1>7. k.allocator \in Allocators /\ Len(Weights[DataType[k.allocator]]) = MaxScores
  BY <1>1, <1>3, WeightsTyped DEF Call
<1>8. ~AllScored(row) => row.scored < MaxScores
  <2>1. row.scored \in Nat /\ MaxScores \in Nat
    BY <1>5, <1>6, WeightsTyped
  <2> HIDE DEF row
  <2> QED
    BY <1>3, <1>6, <1>7, <2>1 DEF AllScored
<1> HIDE DEF row
<1>9. Has(old, "MANUAL_ALLOCATION_SCHEDULE") => Has(row, "MANUAL_ALLOCATION_SCHEDULE")
  BY <1>6 DEF Has
<1>10. stage \in {"scoring", "reading"} /\ (stage = "scoring" => row.scored < MaxScores)
       /\ (stage = "reading" => AllScored(row))
  BY <1>8
<1> HIDE DEF stage
<1> QED
  BY <1>2, <1>3, <1>6, <1>9, <1>10, ScoringStep DEF old

\* A report is found by its allocator and its id.
LEMMA ReportById ==
  ASSUME reports \in Seq(Report), NEW id \in 1..Len(reports)
  PROVE  GetReport(reports[id].allocator, id) = id
<1> DEFINE a == reports[id].allocator
           found == {i \in DOMAIN reports : reports[i].allocator = a /\ id \in {None, i}}
<1>1. DOMAIN reports = 1..Len(reports) /\ id # None
  BY LenProperties DEF None
<1>2. found = {id}
  BY <1>1
<1>3. id <= id
  BY LenProperties
<1>4. GetReport(a, id) = IF found = {} THEN None ELSE CHOOSE i \in found : \A j \in found : j <= i
  BY DEF GetReport, Newest
<1> HIDE DEF found
<1> QED
  BY <1>2, <1>3, <1>4

\* The newest report of an allocator is not older than any other of it.
LEMMA NewestOfAllocator ==
  ASSUME reports \in Seq(Report), NEW a
  PROVE  /\ GetReport(a, None) \in 0..Len(reports)
         /\ \A j \in 1..Len(reports) : reports[j].allocator = a => j <= GetReport(a, None)
<1> DEFINE found == {i \in DOMAIN reports : reports[i].allocator = a /\ None \in {None, i}}
           n == Len(reports)
<1>1. n \in Nat /\ DOMAIN reports = 1..n
  BY LenProperties
<1>2. found \in SUBSET (1..n) /\ \A j \in 1..n : reports[j].allocator = a => j \in found
  BY <1>1
<1>3. GetReport(a, None) = Newest(found)
  BY DEF GetReport
<1> HIDE DEF found, n
<1>4. Newest(found) \in 0..n /\ \A j \in found : j <= Newest(found)
  BY <1>1, <1>2, NewestIs
<1> QED
  BY <1>2, <1>3, <1>4 DEF n

\* The generation has ended well: what is read back is the report that was generated.
LEMMA ReadBackIInv ==
  ASSUME IInv, NEW c \in Calls, ReadBack(c)
  PROVE  IInv'
<1> DEFINE k == call[c]
           r == k.report
           old == reports[r]
           row == [old EXCEPT !.generation = "done"]
<1>1. /\ k \in Call /\ Consistent(k, reports, invalidated) /\ call \in [Calls -> Call]
      /\ reports \in Seq(Report)
  BY Parts
<1>2. /\ k.stage = "reading" /\ k.stage \in AtReport
      /\ reports' = [reports EXCEPT ![r] = row]
      /\ UNCHANGED <<clientReports, spending, cache, events, invalidated>>
  BY DEF ReadBack, AtReport
<1>3. /\ r \in 1..Len(reports) /\ old.allocator = k.allocator /\ old.generation = "running"
      /\ Has(old, "CLIENT_MULTIPLE_ALLOCATORS")
      /\ CopiesConfigured => Has(old, "CLIENT_NOT_ENOUGH_COPIES")
      /\ ClientChecks \subseteq old.checks
      /\ k.allocator \in Scheduled => Has(old, "MANUAL_ALLOCATION_SCHEDULE")
      /\ DataType[k.allocator] # "none" => AllScored(old)
      /\ k.kind \in {"job", "post"} /\ k.inFlight = {} /\ k.quiet = FALSE
  BY <1>1, <1>2 DEF Consistent, KindFits, Holds, Progress, AtReport, Call
<1>4. old \in Report
  BY <1>1, <1>3, ElementOfSeq
<1>5. GetReport(k.allocator, r) = r
  BY <1>1, <1>3, ReportById
<1> HIDE DEF old
<1>6. /\ row \in Report /\ row.allocator = old.allocator /\ row.checks = old.checks
      /\ row.scored = old.scored /\ row.generation = "done"
  BY <1>4 DEF Report
<1> HIDE DEF row
<1>7. AllScored(old) => AllScored(row)
  BY <1>6 DEF AllScored
<1>8. Scored(row)
  BY <1>3, <1>6, <1>7 DEF Scored
<1>9. /\ Has(row, "CLIENT_MULTIPLE_ALLOCATORS")
      /\ CopiesConfigured => Has(row, "CLIENT_NOT_ENOUGH_COPIES")
      /\ k.allocator \in Scheduled => Has(row, "MANUAL_ALLOCATION_SCHEDULE")
      /\ ClientChecks \subseteq row.checks /\ row.allocator = k.allocator
  BY <1>3, <1>6 DEF Has
<1>10. events' \in events..MaxEvents
  BY <1>2, NoEvent
<1>11. CASE k.kind = "job" /\ Abandon(c)
  <2>1. PICK k2 \in Call :
           /\ call' = [call EXCEPT ![c] = k2]
           /\ k2.stage \in {"idle", "next"}
           /\ Consistent(k2, reports', invalidated) /\ Tallies(k2, clientReports)
           /\ \A a \in Known : MayCreate(k2, a) => MayCreate(k, a)
    BY <1>2, <1>11, AbandonFits
  <2>2. k2.stage \notin AtReport
    BY <2>1 DEF AtReport
  <2> QED
    BY <1>2, <1>6, <1>8, <1>9, <1>10, <2>1, <2>2, RowStep
<1>12. CASE k.kind # "job" /\ call' = [call EXCEPT ![c].stage = "invalidating",
                                                    ![c].report = GetReport(k.allocator, r)]
  <2> DEFINE k2 == [k EXCEPT !.stage = "invalidating", !.report = r]
  <2>1. call' = [call EXCEPT ![c] = k2]
    BY <1>1, <1>5, <1>12
  <2>2. /\ k2.stage = "invalidating" /\ k2.kind = "post" /\ k2.allocator = k.allocator
        /\ k2.report = r /\ k2.inFlight = {} /\ k2.quiet = FALSE
    BY <1>1, <1>3, <1>12 DEF Call
  <2>3. k2 \in Call
    BY <1>1 DEF Call, Stages
  <2> HIDE DEF k2
  <2>4. Len(reports') = Len(reports) /\ reports'[r] = row
    BY <1>1, <1>2, <1>3, <1>6, ExceptSeq
  <2>5. KindFits(k2) /\ Holds(k2) /\ Lists(k2) /\ Fresh(k2, invalidated) /\ Tallies(k2, clientReports)
    BY <2>2 DEF KindFits, Holds, Lists, Fresh, Tallies, AtReport
  <2>6. Progress(k2, reports')
    <3>1. reports'[k2.report] = row /\ k2.report \in 1..Len(reports')
      BY <1>3, <2>2, <2>4
    <3> QED
      BY <1>3, <1>6, <1>7, <1>9, <2>2, <3>1 DEF Progress, AtReport
  <2>7. \A a \in Known : MayCreate(k2, a) => MayCreate(k, a)
    BY <2>2 DEF MayCreate
  <2>8. k2.stage \notin AtReport
    BY <2>2 DEF AtReport
  <2> QED
    BY <1>2, <1>6, <1>8, <1>9, <1>10, <2>1, <2>3, <2>5, <2>6, <2>7, <2>8, RowStep DEF Consistent
<1> QED
  BY <1>11, <1>12 DEF ReadBack

-----------------------------------------------------------------------------
(* The daily job *)

\* The registry has answered: every allocator is to be done, each once.
LEMMA FetchAllocatorsRegistryIInv ==
  ASSUME IInv, NEW c \in Calls, FetchAllocatorsRegistry(c)
  PROVE  IInv'
<1> DEFINE k == call[c]
           k2 == [k EXCEPT !.stage = "next", !.todo = Registry]
<1>1. k \in Call /\ Consistent(k, reports, invalidated) /\ call \in [Calls -> Call]
  BY Parts
<1>2. /\ k.stage = "listing"
      /\ UNCHANGED <<clientReports, spending, reports, cache, events, invalidated>>
  BY DEF FetchAllocatorsRegistry
<1>3. call' = [call EXCEPT ![c] = k2]
  BY <1>1 DEF FetchAllocatorsRegistry
<1>4. /\ k.kind = "job" /\ k.counted = Empty /\ k.failed = Empty /\ k.report = None
      /\ k.inFlight = {} /\ k.quiet = FALSE
  BY <1>1, <1>2 DEF Consistent, KindFits, Holds, Call
<1>5. /\ k2.stage = "next" /\ k2.kind = "job" /\ k2.todo = Registry /\ k2.counted = Empty
      /\ k2.failed = Empty /\ k2.report = None /\ k2.inFlight = {} /\ k2.quiet = FALSE
  BY <1>1, <1>4 DEF Call
<1>6. k2 \in Call
  <2>1. Registry \in Seq(Allocators) /\ "next" \in Stages
    BY RegistryTyped DEF Stages
  <2> HIDE DEF k
  <2> QED
    BY <1>1, <2>1 DEF Call
<1> HIDE DEF k2
<1>7. Lists(k2)
  BY <1>5, ConstantsAssumption DEF Lists
<1>8. Consistent(k2, reports, invalidated) /\ Tallies(k2, clientReports)
  BY <1>5, <1>7 DEF Consistent, KindFits, Holds, Progress, Fresh, Tallies, AtReport
<1>9. \A a \in Known : MayCreate(k2, a) => MayCreate(k, a)
  BY <1>2, <1>4 DEF MayCreate
<1>10. k2.stage \notin AtReport
  BY <1>5 DEF AtReport
<1> QED
  BY <1>2, <1>3, <1>6, <1>8, <1>9, <1>10, NoEvent, OwnStep

\* The job turns to the next allocator, which it will not do again.
LEMMA GenerateAllocatorReportIInv ==
  ASSUME IInv, NEW c \in Calls, GenerateAllocatorReport(c)
  PROVE  IInv'
<1> DEFINE k == call[c]
           todo == k.todo
           k2 == [k EXCEPT !.stage = "generating", !.allocator = Head(todo), !.todo = Tail(todo)]
<1>1. k \in Call /\ Consistent(k, reports, invalidated) /\ call \in [Calls -> Call]
  BY Parts
<1>2. /\ k.stage = "next" /\ todo # <<>>
      /\ UNCHANGED <<clientReports, spending, reports, cache, events, invalidated>>
  BY DEF GenerateAllocatorReport
<1>3. call' = [call EXCEPT ![c] = k2]
  BY <1>1 DEF GenerateAllocatorReport
<1>4. /\ k.kind = "job" /\ k.counted = Empty /\ k.failed = Empty /\ k.report = None
      /\ k.inFlight = {} /\ k.quiet = FALSE /\ Lists(k)
  BY <1>1, <1>2 DEF Consistent, KindFits, Holds, Call
<1>5. todo \in Seq(Allocators)
  BY <1>1 DEF Call
<1>6. /\ Head(todo) \in Allocators /\ Tail(todo) \in Seq(Allocators)
      /\ Head(todo) = todo[1] /\ DOMAIN todo = 1..Len(todo) /\ 1 \in DOMAIN todo
      /\ DOMAIN Tail(todo) = 1..(Len(todo) - 1) /\ Len(todo) \in Nat
      /\ \A i \in DOMAIN Tail(todo) : Tail(todo)[i] = todo[i + 1] /\ i + 1 \in DOMAIN todo
  <2>1. Len(todo) \in Nat /\ Len(todo) # 0 /\ DOMAIN todo = 1..Len(todo)
    BY <1>2, <1>5, LenProperties, EmptySeq
  <2>2. Head(todo) \in Allocators /\ Tail(todo) \in Seq(Allocators)
    BY <1>2, <1>5, HeadTailProperties
  <2>3. Len(Tail(todo)) = Len(todo) - 1 /\ \A i \in 1..Len(Tail(todo)) : Tail(todo)[i] = todo[i + 1]
    BY <1>2, <1>5, HeadTailProperties
  <2>4. Head(todo) = todo[1]
    BY <1>2, <1>5
  <2>5. DOMAIN Tail(todo) = 1..Len(Tail(todo))
    BY <2>2, LenProperties
  <2> HIDE DEF k, todo
  <2> QED
    BY <2>1, <2>2, <2>3, <2>4, <2>5
<1>7. /\ k2.stage = "generating" /\ k2.kind = "job" /\ k2.todo = Tail(todo)
      /\ k2.allocator = todo[1] /\ k2.counted = Empty
      /\ k2.failed = Empty /\ k2.report = None /\ k2.inFlight = {} /\ k2.quiet = FALSE
  BY <1>1, <1>4, <1>6 DEF Call
<1>8. k2 \in Call
  <2>1. "generating" \in Stages
    BY DEF Stages
  <2> HIDE DEF k, todo
  <2> QED
    BY <1>1, <1>6, <2>1 DEF Call
<1>9. \A i, j \in DOMAIN todo : todo[i] = todo[j] => i = j
  BY <1>4 DEF Lists
<1> HIDE DEF k2
<1>10. Lists(k2)
  <2> HIDE DEF k, todo
  <2>1. \A i \in DOMAIN Tail(todo) : i + 1 # 1
    BY <1>6
  <2>2. \A i, j \in DOMAIN Tail(todo) : i + 1 = j + 1 => i = j
    BY <1>6
  <2>3. \A i, j \in DOMAIN Tail(todo) : Tail(todo)[i] = Tail(todo)[j] => i = j
    BY <1>6, <1>9, <2>2
  <2>4. \A i \in DOMAIN Tail(todo) : Tail(todo)[i] # todo[1]
    BY <1>6, <1>9, <2>1
  <2> QED
    BY <1>7, <2>3, <2>4 DEF Lists
<1>11. Consistent(k2, reports, invalidated) /\ Tallies(k2, clientReports)
  BY <1>7, <1>10 DEF Consistent, KindFits, Holds, Progress, Fresh, Tallies, AtReport
<1>12. \A a \in Known : MayCreate(k2, a) => MayCreate(k, a)
  <2>1. \A a \in Known : MayCreate(k2, a) => \E i \in DOMAIN todo : todo[i] = a
    BY <1>6, <1>7 DEF MayCreate
  <2> QED
    BY <1>2, <1>4, <2>1 DEF MayCreate
<1>13. k2.stage \notin AtReport
  BY <1>7 DEF AtReport
<1> QED
  BY <1>2, <1>3, <1>8, <1>11, <1>12, <1>13, NoEvent, OwnStep

-----------------------------------------------------------------------------
(* The beginning of a call *)

\* A call begins: its event accounts for a report of every allocator it may create.
LEMMA BeginStep ==
  ASSUME IInv, NEW c \in Calls, call[c].stage = "idle", Event,
         NEW k2 \in Call, call' = [call EXCEPT ![c] = k2], k2.stage \notin AtReport,
         Consistent(k2, reports, invalidated), Tallies(k2, clientReports),
         UNCHANGED <<clientReports, spending, reports, cache, invalidated>>
  PROVE  IInv'
<1> DEFINE K == Cardinality(Known)
           a == 1 + K
           n == Len(reports)
           limit == events * a
           limit2 == events' * a
           T == {c} \X Known
<1>1. /\ call \in [Calls -> Call] /\ IsFiniteSet(Known)
      /\ events \in Nat /\ n \in Nat /\ K \in Nat /\ a \in Nat
      /\ IsFiniteSet(Owed) /\ n + Cardinality(Owed) <= limit
  <2>1. call \in [Calls -> Call] /\ events \in Nat /\ n \in Nat
    BY Parts
  <2>2. IsFiniteSet(Known) /\ K \in Nat /\ a \in Nat
    BY BoundsTyped, ConstantsAssumption
  <2>3. IsFiniteSet(Owed) /\ n + Cardinality(Owed) <= limit
    BY BoundsTyped DEF IInv, ReportsCounted
  <2> QED
    BY <2>1, <2>2, <2>3
<1>2. events' = events + 1 /\ events' \in events..MaxEvents
  BY OneEvent
<1>3. IsFiniteSet(T) /\ Cardinality(T) = K
  <2>1. IsFiniteSet({c}) /\ Cardinality({c}) = 1
    BY FS_Singleton
  <2>2. IsFiniteSet(T) /\ Cardinality(T) = Cardinality({c}) * K
    BY <1>1, <2>1, FS_Product
  <2> HIDE DEF T
  <2> QED
    BY <1>1, <2>1, <2>2
<1>4. Owed' \subseteq Owed \cup T
  BY <1>1 DEF Owed
<1> HIDE DEF T
<1>5. /\ IsFiniteSet(Owed \cup T)
      /\ Cardinality(Owed \cup T) = Cardinality(Owed) + Cardinality(T) - Cardinality(Owed \cap T)
  BY <1>1, <1>3, FS_Union
<1>6. IsFiniteSet(Owed') /\ Cardinality(Owed') <= Cardinality(Owed \cup T)
  BY <1>4, <1>5, FS_Subset
<1>7. IsFiniteSet(Owed \cap T)
  BY <1>1, FS_Intersection
<1>8. /\ Cardinality(Owed) \in Nat /\ Cardinality(Owed \cap T) \in Nat
      /\ Cardinality(Owed') \in Nat /\ Cardinality(Owed \cup T) \in Nat
  BY <1>1, <1>5, <1>6, <1>7, FS_CardinalityType
<1>9. limit \in Nat /\ limit2 = limit + a
  <2> HIDE DEF a
  <2>1. events <= events
    BY <1>1
  <2> QED
    BY <1>1, <1>2, <2>1, Products
<1>10. ReportsCounted'
  <2> HIDE DEF limit, limit2, K, n
  <2>1. n + Cardinality(Owed') <= limit2
    BY <1>1, <1>3, <1>5, <1>6, <1>8, <1>9
  <2> QED
    BY <1>6, <2>1 DEF ReportsCounted, n, limit2, K
<1>11. DoneScored' /\ StaleResponsesExplained'
  BY DEF IInv, DoneScored, StaleResponsesExplained
<1>12. Len(reports) <= Len(reports') /\ events' \in 0..MaxEvents
  BY <1>1, <1>2
<1> QED
  BY <1>10, <1>11, <1>12, CallStep, Parts

\* A run of the job or a request begins.
LEMMA BeginIInv ==
  ASSUME IInv, NEW c \in Calls, Begin(c)
  PROVE  IInv'
<1> DEFINE k == call[c]
<1>1. k \in Call /\ Consistent(k, reports, invalidated) /\ call \in [Calls -> Call]
  BY Parts
<1>2. k.stage = "idle" /\ Event
      /\ UNCHANGED <<clientReports, spending, reports, cache, invalidated>>
  BY DEF Begin, RunAllocatorReportGenerationJob, PostAllocatorReport, GetAllocatorReport, Free
<1>3. /\ k.kind = "get" /\ k.report = None /\ k.counted = Empty /\ k.failed = Empty
      /\ k.inFlight = {} /\ k.quiet = FALSE
  <2>1. k = NoCall
    BY <1>1, <1>2 DEF Consistent, Holds
  <2> QED
    BY <2>1 DEF NoCall
<1>4. ASSUME NEW k2 \in Call, call' = [call EXCEPT ![c] = k2],
             k2.stage \in {"listing", "generating", "querying"}, KindFits(k2), Lists(k2),
             k2.report = None, k2.counted = Empty, k2.failed = Empty, k2.inFlight = {},
             k2.quiet = FALSE, k2.stage = "querying" => k2.allocator \in Known
      PROVE  IInv'
  <2>1. Consistent(k2, reports, invalidated) /\ Tallies(k2, clientReports) /\ k2.stage \notin AtReport
    BY <1>4 DEF Consistent, Holds, Progress, Fresh, Tallies, AtReport
  <2> QED
    BY <1>2, <1>4, <2>1, BeginStep
<1>5. CASE RunAllocatorReportGenerationJob(c)
  <2> DEFINE k2 == [k EXCEPT !.stage = "listing", !.kind = "job"]
  <2>1. call' = [call EXCEPT ![c] = k2]
    BY <1>1, <1>5 DEF RunAllocatorReportGenerationJob
  <2>2. /\ k2.stage = "listing" /\ k2.kind = "job" /\ k2.report = None /\ k2.counted = Empty
        /\ k2.failed = Empty /\ k2.inFlight = {} /\ k2.quiet = FALSE /\ k2.todo = k.todo
    BY <1>1, <1>3 DEF Call
  <2>3. k2 \in Call
    BY <1>1 DEF Call, Stages
  <2>4. k.todo = <<>>
    BY <1>1, <1>2 DEF Consistent, Holds, NoCall
  <2> HIDE DEF k2
  <2>5. KindFits(k2)
    BY <2>2 DEF KindFits, AtReport
  <2>6. Lists(k2)
    <3>1. DOMAIN k2.todo = {}
      BY <2>2, <2>4
    <3> QED
      BY <3>1 DEF Lists
  <2> QED
    BY <1>4, <2>1, <2>2, <2>3, <2>5, <2>6
<1>6. CASE PostAllocatorReport(c)
  <2>1. PICK a \in Allocators :
           call' = [call EXCEPT ![c].stage = "generating", ![c].kind = "post", ![c].allocator = a]
    BY <1>6 DEF PostAllocatorReport
  <2> DEFINE k2 == [k EXCEPT !.stage = "generating", !.kind = "post", !.allocator = a]
  <2>2. call' = [call EXCEPT ![c] = k2]
    BY <1>1, <2>1
  <2>3. /\ k2.stage = "generating" /\ k2.kind = "post" /\ k2.report = None /\ k2.counted = Empty
        /\ k2.failed = Empty /\ k2.inFlight = {} /\ k2.quiet = FALSE
    BY <1>1, <1>3 DEF Call
  <2>4. k2 \in Call
    BY <1>1 DEF Call, Stages
  <2> HIDE DEF k2
  <2>5. KindFits(k2) /\ Lists(k2)
    BY <2>3 DEF KindFits, Lists, AtReport
  <2> QED
    BY <1>4, <2>2, <2>3, <2>4, <2>5
<1>7. CASE GetAllocatorReport(c)
  <2>1. PICK url \in Urls :
           call' = [call EXCEPT ![c].stage = "querying", ![c].allocator = url[1], ![c].route = url[2]]
    BY <1>7 DEF GetAllocatorReport
  <2> DEFINE k2 == [k EXCEPT !.stage = "querying", !.allocator = url[1], !.route = url[2]]
  <2>2. call' = [call EXCEPT ![c] = k2]
    BY <1>1, <2>1
  <2>3. /\ k2.stage = "querying" /\ k2.kind = "get" /\ k2.report = None /\ k2.counted = Empty
        /\ k2.failed = Empty /\ k2.inFlight = {} /\ k2.quiet = FALSE /\ k2.allocator = url[1]
    BY <1>1, <1>3 DEF Call
  <2>4. url[1] \in Known /\ url[1] \in Allocators /\ url[2] \in Routes
    BY ConstantsAssumption DEF Urls
  <2>5. k2 \in Call
    BY <1>1, <2>4 DEF Call, Stages
  <2> HIDE DEF k2
  <2>6. KindFits(k2) /\ Lists(k2)
    BY <2>3 DEF KindFits, Lists, AtReport
  <2> QED
    BY <1>4, <2>2, <2>3, <2>4, <2>5, <2>6
<1> QED
  BY <1>5, <1>6, <1>7 DEF Begin

-----------------------------------------------------------------------------
(* The API *)

\* What a query finds is not older than any report of the allocator.
LEMMA QueryReportsIInv ==
  ASSUME IInv, NEW c \in Calls, QueryReports(c)
  PROVE  IInv'
<1> DEFINE k == call[c]
           newest == GetReport(k.allocator, None)
<1>1. k \in Call /\ Consistent(k, reports, invalidated) /\ call \in [Calls -> Call]
  BY Parts
<1>2. /\ k.stage = "querying"
      /\ UNCHANGED <<clientReports, spending, reports, cache, events, invalidated>>
  BY DEF QueryReports
<1>3. /\ k.kind = "get" /\ k.allocator \in Known /\ k.inFlight = {} /\ k.quiet = FALSE
  BY <1>1, <1>2 DEF Consistent, KindFits, Holds, Fresh, Call
<1>4. /\ newest \in 0..Len(reports)
      /\ \A j \in 1..Len(reports) : reports[j].allocator = k.allocator => j <= newest
  BY Parts, NewestOfAllocator
<1>5. CASE Leave(c)
  BY <1>2, <1>5, LeaveIInv, NoEvent
<1>6. CASE call' = [call EXCEPT ![c].stage = "caching", ![c].report = newest]
  <2> DEFINE k2 == [k EXCEPT !.stage = "caching", !.report = newest]
  <2>1. call' = [call EXCEPT ![c] = k2]
    BY <1>1, <1>6
  <2>2. /\ k2.stage = "caching" /\ k2.kind = "get" /\ k2.report = newest
        /\ k2.allocator = k.allocator /\ k2.inFlight = {} /\ k2.quiet = FALSE
    BY <1>1, <1>3 DEF Call
  <2>3. newest \in 0..MaxReports
    BY <1>4, Parts, BoundsTyped
  <2>4. k2 \in Call
    <3>1. "caching" \in Stages
      BY DEF Stages
    <3> HIDE DEF k, newest
    <3> QED
      BY <1>1, <2>3, <3>1 DEF Call
  <2> HIDE DEF k2
  <2>5. k2.report >= invalidated[k2.allocator]
    <3>1. CASE invalidated[k.allocator] = None
      BY <1>4, <2>2, <3>1 DEF None
    <3>2. CASE invalidated[k.allocator] # None
      BY <1>3, <1>4, <2>2, <3>2, Parts DEF IInv, InvalidatedExists
    <3> QED
      BY <2>2, <3>1, <3>2
  <2>6. Consistent(k2, reports, invalidated) /\ Tallies(k2, clientReports)
    BY <1>3, <2>2, <2>5 DEF Consistent, KindFits, Holds, Lists, Progress, Fresh, Tallies, AtReport
  <2>7. \A a \in Known : MayCreate(k2, a) => MayCreate(k, a)
    BY <2>2 DEF MayCreate
  <2>8. k2.stage \notin AtReport
    BY <2>2 DEF AtReport
  <2> QED
    BY <1>2, <2>1, <2>4, <2>6, <2>7, <2>8, NoEvent, OwnStep
<1> QED
  BY <1>5, <1>6 DEF QueryReports

\* What is cached was fresh when it was queried, or marked as overtaken since.
LEMMA StoreResponseIInv ==
  ASSUME IInv, NEW c \in Calls, StoreResponse(c)
  PROVE  IInv'
<1> DEFINE k == call[c]
           u == <<k.allocator, k.route>>
           r == [newest |-> k.report, overtaken |-> k.overtaken]
<1>1. k \in Call /\ Consistent(k, reports, invalidated)
  BY Parts
<1>2. /\ k.stage = "caching" /\ Leave(c)
      /\ cache' = [cache EXCEPT ![u] = r]
      /\ UNCHANGED <<clientReports, spending, reports, events, invalidated>>
  BY DEF StoreResponse
<1>3. u \in Urls /\ u[1] = k.allocator /\ (k.report >= invalidated[k.allocator] \/ k.overtaken)
  BY <1>1, <1>2 DEF Consistent, Fresh, Urls, Call
<1>4. r \in Response
  BY <1>1 DEF Response, Call
<1>5. cache' \in [Urls -> Response \cup {NotCached}]
  BY <1>2, <1>3, <1>4, Parts
<1>6. StaleResponsesExplained'
  <2>1. ASSUME NEW url \in Urls, cache'[url] # NotCached
        PROVE  \/ cache'[url].newest >= invalidated[url[1]]
               \/ cache'[url].overtaken
               \/ url[2] = "page"
    <3>1. CASE url = u
      BY <1>2, <1>3, <3>1, Parts
    <3>2. CASE url # u
      BY <1>2, <2>1, <3>2, Parts DEF IInv, StaleResponsesExplained
    <3> QED
      BY <3>1, <3>2
  <2> QED
    BY <1>2, <2>1 DEF StaleResponsesExplained
<1>7. ReportsCounted'
  <2>1. Owed' \subseteq Owed
    BY <1>2, NoCallFits, Parts DEF Owed, Leave
  <2> QED
    BY <1>2, <2>1, Parts, OwedShrinks
<1>8. DoneScored' /\ Len(reports) <= Len(reports')
  BY <1>2, Parts DEF IInv, DoneScored
<1>9. NoCall.stage \notin AtReport
  BY DEF NoCall, AtReport
<1> QED
  BY <1>2, <1>5, <1>6, <1>7, <1>8, <1>9, NoCallTyped, NoCallFits, CallStep, Parts DEF Leave

\* A POST deletes the cached responses: who is about to cache an older one of the same
\* allocator is marked.
LEMMA InvalidateIInv ==
  ASSUME IInv, NEW c \in Calls, Invalidate(c)
  PROVE  IInv'
<1> DEFINE k == call[c]
           a == k.allocator
           over(d) == [call[d] EXCEPT !.overtaken = @ \/ (call[d].stage = "caching" /\ call[d].allocator = a)]
<1>1. /\ k \in Call /\ Consistent(k, reports, invalidated) /\ reports \in Seq(Report)
      /\ call \in [Calls -> Call] /\ \A d \in Calls : call[d] \in Call
  BY Parts
<1>2. /\ k.stage = "invalidating"
      /\ cache' = [u \in Urls |-> IF u[1] = a /\ u[2] \in Deleted THEN NotCached ELSE cache[u]]
      /\ invalidated' = [invalidated EXCEPT ![a] = IF @ < k.report THEN k.report ELSE @]
      /\ UNCHANGED <<clientReports, spending, reports, events>>
  BY DEF Invalidate
<1>3. call' = [d \in Calls |-> IF d = c THEN NoCall ELSE over(d)]
  BY DEF Invalidate
<1>4. k.report \in 1..Len(reports) /\ reports[k.report].allocator = a /\ k.report \in 0..MaxReports
  BY <1>1, <1>2 DEF Consistent, Progress, Call
<1>5. a \in Known
  <2>1. reports[k.report] \in Report
    BY <1>1, <1>4, ElementOfSeq
  <2> QED
    BY <1>4, <2>1 DEF Report
<1>6. invalidated \in [Known -> 0..MaxReports] /\ invalidated[a] \in 0..MaxReports
  BY <1>5, Parts
<1>7. /\ invalidated' \in [Known -> 0..MaxReports]
      /\ invalidated'[a] \in {invalidated[a], k.report}
      /\ \A b \in Known : b # a => invalidated'[b] = invalidated[b]
  <2> HIDE DEF k, a
  <2> QED
    BY <1>2, <1>4, <1>5, <1>6
<1>8. cache' \in [Urls -> Response \cup {NotCached}]
  BY <1>2, Parts
<1>9. StaleResponsesExplained'
  <2> SUFFICES ASSUME NEW url \in Urls, cache'[url] # NotCached
               PROVE  \/ cache'[url].newest >= invalidated'[url[1]]
                      \/ cache'[url].overtaken
                      \/ url[2] = "page"
    BY DEF StaleResponsesExplained
  <2>1. cache'[url] = cache[url] /\ ~(url[1] = a /\ url[2] \in Deleted)
    BY <1>2
  <2>2. url[1] \in Known /\ url[2] \in Routes
    BY DEF Urls
  <2>3. \/ cache[url].newest >= invalidated[url[1]] \/ cache[url].overtaken \/ url[2] = "page"
    BY <2>1 DEF IInv, StaleResponsesExplained
  <2>4. CASE url[1] = a
    BY <2>1, <2>2, <2>4 DEF Deleted, Routes
  <2>5. CASE url[1] # a
    BY <1>7, <2>1, <2>2, <2>3, <2>5
  <2> QED
    BY <2>4, <2>5
<1>10. InvalidatedExists'
  BY <1>2, <1>4, <1>7 DEF IInv, InvalidatedExists
<1>11. ASSUME NEW d \in Calls, d # c
       PROVE  /\ call'[d] \in Call /\ call'[d].stage = call[d].stage /\ call'[d].report = call[d].report
              /\ Consistent(call'[d], reports, invalidated') /\ Tallies(call'[d], clientReports)
              /\ \A b \in Known : MayCreate(call'[d], b) => MayCreate(call[d], b)
  <2> DEFINE l == call[d]
             l2 == over(d)
  <2>1. call'[d] = l2
    BY <1>3, <1>11
  <2>2. l \in Call /\ Consistent(l, reports, invalidated) /\ Tallies(l, clientReports)
    BY Parts
  <2>3. /\ l2.stage = l.stage /\ l2.kind = l.kind /\ l2.allocator = l.allocator /\ l2.todo = l.todo
        /\ l2.report = l.report /\ l2.counted = l.counted /\ l2.failed = l.failed
        /\ l2.inFlight = l.inFlight /\ l2.quiet = l.quiet /\ l2.toRead = l.toRead
        /\ l2.overtaken = (l.overtaken \/ (l.stage = "caching" /\ l.allocator = a))
    BY <2>2 DEF Call
  <2>4. l2 \in Call
    BY <2>2 DEF Call
  <2>5. l.stage # "caching" => l2 = l
    BY <2>2 DEF Call
  <2> HIDE DEF l2, a, k
  <2>6. Fresh(l2, invalidated')
    <3>1. l.stage \in {"querying", "caching"} => l.allocator \in Known
      BY <2>2 DEF Consistent, Fresh
    <3>2. ASSUME l.stage = "caching"
          PROVE  l2.report >= invalidated'[l2.allocator] \/ l2.overtaken
      <4>1. l.allocator \in Known /\ (l.report >= invalidated[l.allocator] \/ l.overtaken)
        BY <2>2, <3>2 DEF Consistent, Fresh
      <4>2. CASE l.allocator = a
        BY <2>3, <3>2, <4>2
      <4>3. CASE l.allocator # a
        <5>1. invalidated'[l2.allocator] = invalidated[l.allocator] /\ l2.report = l.report
          BY <1>7, <2>3, <4>1, <4>3
        <5> QED
          BY <2>3, <4>1, <5>1
      <4> QED
        BY <4>2, <4>3
    <3> QED
      BY <2>3, <3>1, <3>2 DEF Fresh
  <2>7. Consistent(l2, reports, invalidated') /\ Tallies(l2, clientReports)
    <3>1. CASE l.stage # "caching"
      BY <2>2, <2>5, <2>6, <3>1 DEF Consistent
    <3>2. CASE l.stage = "caching"
      <4>1. l.kind = "get" /\ l.inFlight = {} /\ ~l.quiet
        BY <2>2, <3>2 DEF Consistent, KindFits, Holds
      <4> QED
        BY <2>3, <2>6, <3>2, <4>1 DEF Consistent, KindFits, Holds, Lists, Progress, Tallies, AtReport
    <3> QED
      BY <3>1, <3>2
  <2> QED
    BY <2>1, <2>3, <2>4, <2>7 DEF MayCreate
<1>12. /\ call'[c] = NoCall /\ NoCall.stage \notin AtReport /\ NoCall \in Call
       /\ Consistent(NoCall, reports, invalidated') /\ Tallies(NoCall, clientReports)
       /\ \A b \in Known : ~MayCreate(NoCall, b)
  BY <1>3, NoCallTyped, NoCallFits DEF NoCall, AtReport
<1> HIDE DEF k, a, over
<1>13. TypeOK'
  <2>1. call' \in [Calls -> Call]
    BY <1>3, <1>11, <1>12
  <2> QED
    BY <1>2, <1>7, <1>8, <2>1, Parts DEF TypeOK
<1>14. CallsConsistent' /\ CallsTally'
  BY <1>2, <1>11, <1>12 DEF CallsConsistent, CallsTally
<1>15. OwnersDiffer'
  BY <1>11, <1>12 DEF IInv, OwnersDiffer
<1>16. ReportsCounted'
  <2>1. Owed' \subseteq Owed
    BY <1>11, <1>12 DEF Owed
  <2> QED
    BY <1>2, <2>1, Parts, OwedShrinks
<1>17. RecentSpending' /\ NewerRecent' /\ DoneScored'
  BY <1>2 DEF IInv, RecentSpending, NewerRecent, DoneScored
<1> QED
  BY <1>9, <1>10, <1>13, <1>14, <1>15, <1>16, <1>17 DEF IInv

-----------------------------------------------------------------------------
(* Failures *)

\* What a failure leaves of a report: some writes may still come, its generation is cut short.
LEMMA CutRow ==
  ASSUME NEW old \in Report, NEW late \in SUBSET ClientChecks
  PROVE  LET row == [old EXCEPT !.checks = @ \cup late, !.generation = CutShort(@)]
         IN /\ row \in Report /\ row.allocator = old.allocator /\ row.scored = old.scored
            /\ row.generation = CutShort(old.generation)
            /\ row.generation = "done" <=> old.generation = "done"
            /\ late = {} /\ old.generation = "done" => row = old
<1> DEFINE row == [old EXCEPT !.checks = @ \cup late, !.generation = CutShort(@)]
<1>1. CutShort(old.generation) \in {"done", "cut"} /\ (CutShort(old.generation) = "done" <=> old.generation = "done")
  BY DEF CutShort, Report
<1>2. /\ row \in Report /\ row.allocator = old.allocator /\ row.scored = old.scored
      /\ row.generation = CutShort(old.generation)
  BY <1>1 DEF Report
<1>3. ASSUME late = {}, old.generation = "done" PROVE row = old
  <2>1. CutShort(old.generation) = old.generation /\ old.checks \cup late = old.checks
    BY <1>3 DEF CutShort
  <2> QED
    BY <2>1 DEF Report
<1> QED
  BY <1>1, <1>2, <1>3

\* A call fails: its report, if it is still generated, stays as far as it is.
LEMMA FailIInv ==
  ASSUME IInv, NEW c \in Calls, Fail(c)
  PROVE  IInv'
<1> DEFINE k == call[c]
           r == k.report
           old == reports[r]
<1>1. k \in Call /\ Consistent(k, reports, invalidated) /\ reports \in Seq(Report)
      /\ DOMAIN reports = 1..Len(reports)
  BY Parts
<1>2. /\ k.stage \notin {"idle", "next", "listing"} /\ Abandon(c)
      /\ UNCHANGED <<clientReports, spending, cache, invalidated>>
      /\ events' \in events..MaxEvents
  BY OneEvent DEF Fail
<1>3. PICK late \in SUBSET k.inFlight :
        reports' = [i \in DOMAIN reports |->
          IF i = r /\ k.kind # "get"
          THEN [reports[i] EXCEPT !.checks = @ \cup late, !.generation = CutShort(@)]
          ELSE reports[i]]
  BY DEF Fail
<1>4. k.kind = "job" => k.stage \in {"generating"} \cup AtReport
  BY <1>1, <1>2 DEF Consistent, KindFits, Call, Stages, AtReport
<1>5. CASE k.stage \in AtReport
  <2> DEFINE row == [old EXCEPT !.checks = @ \cup late, !.generation = CutShort(@)]
  <2>1. /\ r \in 1..Len(reports) /\ old.allocator = k.allocator /\ old.generation = "running"
        /\ k.kind # "get"
    BY <1>1, <1>5 DEF Consistent, Progress, KindFits
  <2>2. old \in Report
    BY <1>1, <2>1, ElementOfSeq
  <2>3. late \in SUBSET ClientChecks
    BY <1>1, <1>3 DEF Call
  <2>4. row \in Report /\ row.allocator = k.allocator /\ row.generation # "done"
    BY <2>1, <2>2, <2>3, CutRow
  <2>5. reports' = [reports EXCEPT ![r] = row]
    BY <1>1, <1>3, <2>1
  <2>6. Scored(row)
    BY <2>4 DEF Scored
  <2> HIDE DEF row
  <2>7. PICK k2 \in Call :
           /\ call' = [call EXCEPT ![c] = k2]
           /\ k2.stage \in {"idle", "next"}
           /\ Consistent(k2, reports', invalidated) /\ Tallies(k2, clientReports)
           /\ \A a \in Known : MayCreate(k2, a) => MayCreate(k, a)
    BY <1>2, <1>4, AbandonFits
  <2>8. k2.stage \notin AtReport
    BY <2>7 DEF AtReport
  <2> QED
    BY <1>2, <1>5, <2>4, <2>5, <2>6, <2>7, <2>8, RowStep
<1>6. CASE k.stage \notin AtReport
  <2>1. late = {}
    BY <1>1, <1>3, <1>6 DEF Consistent, Holds, AtReport
  <2>2. ASSUME r \in DOMAIN reports, k.kind # "get"
        PROVE  [old EXCEPT !.checks = @ \cup late, !.generation = CutShort(@)] = old
    <3>1. k.stage = "invalidating"
      BY <1>1, <1>2, <1>6, <2>2 DEF Consistent, Holds, KindFits, Call, Stages, AtReport, None
    <3>2. old \in Report /\ old.generation = "done"
      BY <1>1, <2>2, <3>1, ElementOfSeq DEF Consistent, Progress
    <3> QED
      BY <2>1, <3>2, CutRow
  <2>4. reports' = [i \in DOMAIN reports |-> reports[i]]
    BY <1>3, <2>2
  <2>5. reports' = reports
    BY <1>1, <2>4
  <2> QED
    BY <1>2, <1>4, <2>5, AbandonIInv
<1> QED
  BY <1>5, <1>6

\* Calls and cache are gone: nothing is owed any more, and what was generated stays.
LEMMA CrashIInv ==
  ASSUME IInv, Crash
  PROVE  IInv'
<1> DEFINE cut(i) == [reports[i] EXCEPT !.generation = CutShort(@)]
<1>1. /\ call' = [c \in Calls |-> NoCall] /\ cache' = [u \in Urls |-> NotCached]
      /\ reports' = [i \in DOMAIN reports |-> cut(i)]
      /\ UNCHANGED <<clientReports, spending, invalidated>>
  BY DEF Crash
<1>2. events' = events + 1 /\ events' \in events..MaxEvents /\ events' \in 0..MaxEvents /\ events \in Nat
  BY OneEvent, Parts, BoundsTyped DEF Crash
<1>3. reports \in Seq(Report) /\ Len(reports) \in Nat /\ DOMAIN reports = 1..Len(reports)
  BY Parts
<1>4. \A i \in 1..Len(reports) :
        /\ cut(i) \in Report /\ cut(i).allocator = reports[i].allocator
        /\ cut(i).scored = reports[i].scored
        /\ cut(i).generation = "done" <=> reports[i].generation = "done"
  <2> SUFFICES ASSUME NEW i \in 1..Len(reports)
               PROVE  /\ cut(i) \in Report /\ cut(i).allocator = reports[i].allocator
                      /\ cut(i).scored = reports[i].scored
                      /\ cut(i).generation = "done" <=> reports[i].generation = "done"
    OBVIOUS
  <2>1. reports[i] \in Report
    BY <1>3, ElementOfSeq
  <2>2. CutShort(reports[i].generation) \in {"done", "cut"}
        /\ (CutShort(reports[i].generation) = "done" <=> reports[i].generation = "done")
    BY <2>1 DEF CutShort, Report
  <2> QED
    BY <2>1, <2>2 DEF Report
<1> HIDE DEF cut
<1>5. reports' \in Seq(Report) /\ Len(reports') = Len(reports) /\ DOMAIN reports' = 1..Len(reports)
  BY <1>1, <1>3, <1>4
<1>6. TypeOK'
  BY <1>1, <1>2, <1>5, NoCallTyped, Parts DEF TypeOK
<1>7. CallsConsistent' /\ CallsTally'
  BY <1>1, NoCallFits DEF CallsConsistent, CallsTally
<1>8. OwnersDiffer'
  BY <1>1 DEF OwnersDiffer, NoCall, AtReport
<1>9. ReportsCounted'
  <2>1. Owed' \subseteq Owed
    BY <1>1, NoCallFits DEF Owed
  <2> QED
    BY <1>2, <1>5, <2>1, OwedShrinks
<1>10. DoneScored'
  <2>1. \A i \in 1..Len(reports) : Scored(reports[i])
    BY <1>3 DEF IInv, DoneScored
  <2>2. \A i \in 1..Len(reports) : Scored(cut(i))
    BY <1>4, <2>1 DEF Scored, AllScored
  <2>3. \A i \in 1..Len(reports) : Scored(reports'[i])
    BY <1>1, <1>3, <2>2
  <2> QED
    BY <1>5, <2>3 DEF DoneScored, Scored, AllScored
<1>11. InvalidatedExists'
  BY <1>1, <1>3, <1>4, <1>5 DEF IInv, InvalidatedExists
<1>12. StaleResponsesExplained'
  BY <1>1 DEF StaleResponsesExplained
<1>13. RecentSpending' /\ NewerRecent'
  BY <1>1 DEF IInv, RecentSpending, NewerRecent
<1> QED
  BY <1>6, <1>7, <1>8, <1>9, <1>10, <1>11, <1>12, <1>13 DEF IInv

-----------------------------------------------------------------------------
(* Client reports *)

\* The client reports change: no call has read at one moment any more.
LEMMA DisturbIInv ==
  ASSUME IInv, Event, Disturb, UNCHANGED <<reports, cache, invalidated>>,
         clientReports' \in Seq(ClientReport), spending' \subseteq Clients,
         RecentSpending', NewerRecent'
  PROVE  IInv'
<1>1. events' = events + 1 /\ events' \in events..MaxEvents /\ events' \in 0..MaxEvents /\ events \in Nat
  BY OneEvent, Parts, BoundsTyped
<1>2. call' = [c \in Calls |-> [call[c] EXCEPT !.quiet = FALSE]] /\ call \in [Calls -> Call]
  BY Parts DEF Disturb
<1>3. ASSUME NEW d \in Calls
      PROVE  /\ call'[d] \in Call /\ call'[d].stage = call[d].stage /\ call'[d].report = call[d].report
             /\ Consistent(call'[d], reports, invalidated) /\ Tallies(call'[d], clientReports')
             /\ \A b \in Known : MayCreate(call'[d], b) => MayCreate(call[d], b)
  <2> DEFINE l == call[d]
             l2 == [l EXCEPT !.quiet = FALSE]
  <2>1. call'[d] = l2
    BY <1>2
  <2>2. l \in Call /\ Consistent(l, reports, invalidated)
    BY Parts
  <2>3. /\ l2.stage = l.stage /\ l2.kind = l.kind /\ l2.allocator = l.allocator /\ l2.todo = l.todo
        /\ l2.report = l.report /\ l2.counted = l.counted /\ l2.failed = l.failed
        /\ l2.inFlight = l.inFlight /\ l2.quiet = FALSE /\ l2.toRead = l.toRead
        /\ l2.overtaken = l.overtaken
    BY <2>2 DEF Call
  <2>4. l2 \in Call
    BY <2>2 DEF Call
  <2>5. l.stage = "idle" => l2 = NoCall
    <3> SUFFICES ASSUME l.stage = "idle" PROVE l2 = NoCall
      OBVIOUS
    <3>1. l = NoCall /\ l.quiet = FALSE
      BY <2>2 DEF Consistent, Holds, NoCall
    <3>2. l2 = l
      BY <2>2, <3>1 DEF Call
    <3> QED
      BY <3>1, <3>2
  <2> HIDE DEF l2
  <2>6. KindFits(l2) /\ Lists(l2) /\ Fresh(l2, invalidated)
    BY <2>2, <2>3 DEF Consistent, KindFits, Lists, Fresh
  <2>7. Holds(l2)
    BY <2>2, <2>3, <2>5 DEF Consistent, Holds
  <2>8. Progress(l2, reports)
    BY <2>2, <2>3 DEF Consistent, Progress
  <2>9. Tallies(l2, clientReports')
    BY <2>3 DEF Tallies
  <2> QED
    BY <2>1, <2>3, <2>4, <2>6, <2>7, <2>8, <2>9 DEF Consistent, MayCreate
<1>4. TypeOK'
  <2>1. call' \in [Calls -> Call]
    BY <1>2, <1>3
  <2> QED
    BY <1>1, <2>1, Parts DEF TypeOK
<1>5. CallsConsistent' /\ CallsTally'
  BY <1>3 DEF CallsConsistent, CallsTally
<1>6. OwnersDiffer'
  BY <1>3 DEF IInv, OwnersDiffer
<1>7. ReportsCounted'
  <2>1. Owed' \subseteq Owed
    BY <1>3 DEF Owed
  <2> QED
    BY <1>1, <2>1, Parts, OwedShrinks
<1>8. DoneScored' /\ InvalidatedExists' /\ StaleResponsesExplained'
  BY DEF IInv, DoneScored, InvalidatedExists, StaleResponsesExplained
<1> QED
  BY <1>4, <1>5, <1>6, <1>7, <1>8 DEF IInv

\* A new client report is recent if its client spends; it is the newest.
LEMMA NewClientReportIInv ==
  ASSUME IInv, NewClientReport
  PROVE  IInv'
<1> DEFINE n == Len(clientReports)
<1>1. PICK client \in Clients :
        clientReports' = Append(clientReports,
          [client |-> client, recent |-> client \in spending,
           results |-> [k \in ClientChecks |-> "none"], open |-> TRUE])
  BY DEF NewClientReport
<1> DEFINE new == [client |-> client, recent |-> client \in spending,
                   results |-> [k \in ClientChecks |-> "none"], open |-> TRUE]
<1>2. Event /\ Disturb /\ UNCHANGED <<spending, reports, cache, invalidated>>
  BY DEF NewClientReport
<1>3. /\ clientReports \in Seq(ClientReport) /\ n \in Nat /\ DOMAIN clientReports = 1..n
      /\ spending \subseteq Clients /\ RecentSpending /\ NewerRecent
  BY Parts DEF IInv
<1>4. new \in ClientReport /\ new.client = client /\ (new.recent <=> client \in spending)
  <2>1. (client \in spending) \in BOOLEAN
    OBVIOUS
  <2> QED
    BY <2>1 DEF ClientReport
<1>5. clientReports' = Append(clientReports, new)
  BY <1>1
<1> HIDE DEF new
<1>6. /\ clientReports' \in Seq(ClientReport) /\ Len(clientReports') = n + 1
      /\ \A i \in 1..n : clientReports'[i] = clientReports[i]
      /\ clientReports'[n + 1] = new
  BY <1>3, <1>4, <1>5, AppendProperties
<1>7. DOMAIN clientReports' = 1..(n + 1)
  BY <1>6, LenProperties
<1>8. \A i \in 1..(n + 1) : i \in 1..n \/ i = n + 1
  BY <1>3
<1>9. RecentSpending'
  BY <1>2, <1>3, <1>4, <1>6, <1>7, <1>8 DEF RecentSpending
<1>10. NewerRecent'
  <2> SUFFICES ASSUME NEW i \in 1..(n + 1), NEW j \in 1..(n + 1), i < j,
                      clientReports'[i].client = clientReports'[j].client, clientReports'[i].recent
               PROVE  clientReports'[j].recent
    BY <1>7 DEF NewerRecent
  <2>1. i \in 1..n
    BY <1>3
  <2>2. CASE j \in 1..n
    BY <1>3, <1>6, <2>1, <2>2 DEF NewerRecent
  <2>3. CASE j = n + 1
    BY <1>3, <1>4, <1>6, <2>1, <2>3 DEF RecentSpending
  <2> QED
    BY <1>8, <2>2, <2>3
<1> QED
  BY <1>2, <1>3, <1>6, <1>9, <1>10, DisturbIInv

\* A client report gets another check, or is finished: it is of the same client and as
\* recent as before.
LEMMA ContinueClientReportIInv ==
  ASSUME IInv, ContinueClientReport
  PROVE  IInv'
<1>1. PICK i \in DOMAIN clientReports :
        \/ \E k \in ClientChecks, result \in {"pass", "fail"} :
             clientReports' = [clientReports EXCEPT ![i].results[k] = result]
        \/ clientReports' = [clientReports EXCEPT ![i].open = FALSE]
  BY DEF ContinueClientReport
<1>2. Event /\ Disturb /\ UNCHANGED <<spending, reports, cache, invalidated>>
  BY DEF ContinueClientReport
<1>3. /\ clientReports \in Seq(ClientReport) /\ DOMAIN clientReports = 1..Len(clientReports)
      /\ Len(clientReports) \in Nat
      /\ spending \subseteq Clients /\ RecentSpending /\ NewerRecent
  BY Parts DEF IInv
<1> DEFINE old == clientReports[i]
<1>4. old \in ClientReport
  BY <1>3, ElementOfSeq
<1>5. \E new \in ClientReport : /\ clientReports' = [clientReports EXCEPT ![i] = new]
                                /\ new.client = old.client /\ new.recent = old.recent
  <2>1. ASSUME NEW k \in ClientChecks, NEW result \in {"pass", "fail"},
               clientReports' = [clientReports EXCEPT ![i].results[k] = result]
        PROVE  \E new \in ClientReport : /\ clientReports' = [clientReports EXCEPT ![i] = new]
                                         /\ new.client = old.client /\ new.recent = old.recent
    <3> DEFINE new == [old EXCEPT !.results = [old.results EXCEPT ![k] = result]]
    <3>1. clientReports' = [clientReports EXCEPT ![i] = new]
      BY <2>1
    <3> HIDE DEF old
    <3>2. new \in ClientReport /\ new.client = old.client /\ new.recent = old.recent
      BY <1>4 DEF ClientReport
    <3> QED
      BY <3>1, <3>2
  <2>2. ASSUME clientReports' = [clientReports EXCEPT ![i].open = FALSE]
        PROVE  \E new \in ClientReport : /\ clientReports' = [clientReports EXCEPT ![i] = new]
                                         /\ new.client = old.client /\ new.recent = old.recent
    <3> DEFINE new == [old EXCEPT !.open = FALSE]
    <3>1. clientReports' = [clientReports EXCEPT ![i] = new]
      BY <2>2
    <3> HIDE DEF old
    <3>2. new \in ClientReport /\ new.client = old.client /\ new.recent = old.recent
      BY <1>4 DEF ClientReport
    <3> QED
      BY <3>1, <3>2
  <2> QED
    BY <1>1, <2>1, <2>2
<1>6. PICK new \in ClientReport : /\ clientReports' = [clientReports EXCEPT ![i] = new]
                                  /\ new.client = old.client /\ new.recent = old.recent
  BY <1>5
<1>7. /\ clientReports' \in Seq(ClientReport) /\ DOMAIN clientReports' = DOMAIN clientReports
      /\ \A j \in DOMAIN clientReports : /\ clientReports'[j].client = clientReports[j].client
                                         /\ clientReports'[j].recent = clientReports[j].recent
  BY <1>3, <1>6, ExceptSeq
<1>8. RecentSpending' /\ NewerRecent'
  BY <1>2, <1>3, <1>7 DEF RecentSpending, NewerRecent
<1> QED
  BY <1>2, <1>3, <1>7, <1>8, DisturbIInv

\* A client spends again, or no longer does: then none of its reports is recent.
LEMMA ChangeSpendingIInv ==
  ASSUME IInv, ChangeSpending
  PROVE  IInv'
<1>1. PICK client \in Clients :
        \/ /\ spending' = spending \ {client}
           /\ clientReports' = [i \in DOMAIN clientReports |->
                 [clientReports[i] EXCEPT !.recent = @ /\ clientReports[i].client # client]]
        \/ /\ spending' = spending \cup {client}
           /\ UNCHANGED clientReports
  BY DEF ChangeSpending
<1>2. Event /\ Disturb /\ UNCHANGED <<reports, cache, invalidated>>
  BY DEF ChangeSpending
<1>3. /\ clientReports \in Seq(ClientReport) /\ DOMAIN clientReports = 1..Len(clientReports)
      /\ Len(clientReports) \in Nat
      /\ spending \subseteq Clients /\ RecentSpending /\ NewerRecent
  BY Parts DEF IInv
<1>4. CASE spending' = spending \cup {client} /\ UNCHANGED clientReports
  <2>1. RecentSpending' /\ NewerRecent' /\ spending' \subseteq Clients /\ clientReports' \in Seq(ClientReport)
    BY <1>3, <1>4 DEF RecentSpending, NewerRecent
  <2> QED
    BY <1>2, <2>1, DisturbIInv
<1>5. CASE /\ spending' = spending \ {client}
           /\ clientReports' = [i \in DOMAIN clientReports |->
                 [clientReports[i] EXCEPT !.recent = @ /\ clientReports[i].client # client]]
  <2> DEFINE new(i) == [clientReports[i] EXCEPT !.recent = @ /\ clientReports[i].client # client]
  <2>1. \A i \in 1..Len(clientReports) :
          /\ new(i) \in ClientReport /\ new(i).client = clientReports[i].client
          /\ new(i).recent <=> clientReports[i].recent /\ clientReports[i].client # client
    <3> SUFFICES ASSUME NEW i \in 1..Len(clientReports)
                 PROVE  /\ new(i) \in ClientReport /\ new(i).client = clientReports[i].client
                        /\ new(i).recent <=> clientReports[i].recent /\ clientReports[i].client # client
      OBVIOUS
    <3>1. clientReports[i] \in ClientReport
      BY <1>3, ElementOfSeq
    <3> QED
      BY <3>1 DEF ClientReport
  <2>2. clientReports' = [i \in 1..Len(clientReports) |-> new(i)]
    BY <1>3, <1>5
  <2> HIDE DEF new
  <2>3. clientReports' \in Seq(ClientReport) /\ DOMAIN clientReports' = 1..Len(clientReports)
    BY <1>3, <2>1, <2>2
  <2>4. \A i \in 1..Len(clientReports) :
          /\ clientReports'[i].client = clientReports[i].client
          /\ clientReports'[i].recent <=> clientReports[i].recent /\ clientReports[i].client # client
    BY <2>1, <2>2
  <2>5. RecentSpending'
    BY <1>3, <1>5, <2>3, <2>4 DEF RecentSpending
  <2>6. NewerRecent'
    BY <1>3, <2>3, <2>4 DEF NewerRecent
  <2>7. spending' \subseteq Clients
    BY <1>3, <1>5
  <2> QED
    BY <1>2, <2>3, <2>5, <2>6, <2>7, DisturbIInv
<1> QED
  BY <1>1, <1>4, <1>5

\* A step that changes nothing keeps the invariant.
LEMMA StutterIInv ==
  ASSUME IInv, UNCHANGED vars
  PROVE  IInv'
BY DEF vars, IInv, TypeOK, CallsConsistent, CallsTally, RecentSpending, NewerRecent, OwnersDiffer,
       ReportsCounted, Owed, DoneScored, InvalidatedExists, StaleResponsesExplained

\* Every step keeps the invariant.
LEMMA NextIInv ==
  ASSUME IInv, Next
  PROVE  IInv'
<1>1. CASE Crash
  BY <1>1, CrashIInv
<1>2. CASE NewClientReport \/ ContinueClientReport \/ ChangeSpending
  BY <1>2, NewClientReportIInv, ContinueClientReportIInv, ChangeSpendingIInv
<1>3. ASSUME NEW c \in Calls, Begin(c) PROVE IInv'
  BY <1>3, BeginIInv
<1>4. ASSUME NEW c \in Calls, Fail(c) PROVE IInv'
  BY <1>4, FailIInv
<1>5. ASSUME NEW c \in Calls, FailToList(c) PROVE IInv'
  <2>1. Event /\ Leave(c) /\ UNCHANGED <<clientReports, spending, reports, cache, invalidated>>
    BY <1>5 DEF FailToList
  <2> QED
    BY <2>1, OneEvent, LeaveIInv
<1>6. ASSUME NEW c \in Calls, AllocatorNotFound(c) \/ EndJob(c) PROVE IInv'
  <2>1. CASE AllocatorNotFound(c)
    BY <2>1, NoEvent, AbandonIInv DEF AllocatorNotFound
  <2>2. CASE EndJob(c)
    BY <2>2, NoEvent, LeaveIInv DEF EndJob
  <2> QED
    BY <1>6, <2>1, <2>2
<1>7. ASSUME NEW c \in Calls, Step(c) PROVE IInv'
  BY <1>6, <1>7, CreateReportIInv, StoreClientMultipleAllocatorsIInv, StoreClientNotEnoughCopiesIInv,
     ReadActiveClientIInv, ReadClientIInv, ReadNoClientIInv, StoreClientCheckIInv,
     StoreTrancheScheduleCheckIInv, StoreScoreIInv, ReadBackIInv, FetchAllocatorsRegistryIInv,
     GenerateAllocatorReportIInv, InvalidateIInv, QueryReportsIInv, StoreResponseIInv DEF Step
<1> QED
  BY <1>1, <1>2, <1>3, <1>4, <1>5, <1>7 DEF Next

-----------------------------------------------------------------------------
\* The inductive invariant: the tables and what every call holds fit together at every
\* step of every interleaving, crash and failure.
THEOREM Invariance == Spec => []IInv
<1>1. Init => IInv
  BY InitIInv
<1>2. IInv /\ [Next]_vars => IInv'
  BY NextIInv, StutterIInv
<1> QED
  BY <1>1, <1>2, PTL DEF Spec

\* A POST hands out the report it has generated with every check and score, however many
\* generations run for the allocator at the same time (storeReportChecks(), getReport()).
THEOREM HandedOutCompleteCorrect == Spec => []HandedOutComplete
<1>1. IInv => HandedOutComplete
  <2> SUFFICES ASSUME IInv, NEW c \in Calls, call[c].stage = "invalidating"
               PROVE  LET a == call[c].allocator  report == reports[call[c].report]
                      IN /\ report.generation = "done"
                         /\ ClientChecks \cup {"CLIENT_MULTIPLE_ALLOCATORS"} \subseteq report.checks
                         /\ CopiesConfigured => "CLIENT_NOT_ENOUGH_COPIES" \in report.checks
                         /\ a \in Scheduled => "MANUAL_ALLOCATION_SCHEDULE" \in report.checks
                         /\ DataType[a] # "none" => AllScored(report)
    BY DEF HandedOutComplete, IInv
  <2> QED
    BY Parts DEF Consistent, Holds, Progress, Has
<1> QED
  BY <1>1, Invariance, PTL

\* As long as no client report changes, what the two reads of the newest client reports
\* have counted is what the descriptions of the checks say (getClientReportCheckResults()
\* in storeAllocatorChecksBasedOnClientReportChecks()).
THEOREM VerdictsOfClientsCorrect == Spec => []VerdictsOfClients
<1>1. IInv => VerdictsOfClients
  <2> SUFFICES ASSUME IInv, NEW c \in Calls, call[c].quiet, call[c].stage = "storing",
                      NEW x \in ClientChecks
               PROVE  Passed(c, x) <=> AtMostHalfFail(call[c].allocator, x)
    BY DEF VerdictsOfClients
  <2> DEFINE k == call[c]
  <2>1. SeenFor(k, x) = ClientsOf[k.allocator]
    BY DEF SeenFor
  <2>2. /\ k.counted[x] = {d \in ClientsOf[k.allocator] : Result(clientReports, d, x) # "none"}
        /\ k.failed[x] = {d \in ClientsOf[k.allocator] : Result(clientReports, d, x) = "fail"}
    BY <2>1, Parts DEF Tallies
  <2> HIDE DEF k
  <2>3. AtMostHalfFail(k.allocator, x) <=>
          2 * Cardinality({d \in ClientsOf[k.allocator] : Result(clientReports, d, x) = "fail"})
            <= Cardinality({d \in ClientsOf[k.allocator] : Result(clientReports, d, x) # "none"})
    BY DEF AtMostHalfFail, Result, Newest, ReportsOf
  <2> QED
    BY <2>2, <2>3 DEF Passed, k
<1> QED
  BY <1>1, Invariance, PTL

\* The latest scores are complete or of a report that was not generated to its end, and no
\* report that was is passed over (getAllocatorLatestScores()).
THEOREM ShownScoresCompleteCorrect == Spec => []ShownScoresComplete
<1>1. IInv => ShownScoresComplete
  <2> SUFFICES ASSUME IInv, NEW a \in Known, DataType[a] # "none"
               PROVE  LET shown == LatestScored(a)
                      IN /\ shown # None /\ reports[shown].generation = "done" =>
                              \A n \in DOMAIN Weights[DataType[a]] :
                                Weights[DataType[a]][n] # 0 => n \in ScoresStored(reports[shown])
                         /\ \A i \in DOMAIN reports :
                              reports[i].allocator = a /\ reports[i].generation = "done" => i <= shown
    BY DEF ShownScoresComplete
  <2> DEFINE W == Weights[DataType[a]]
             m == Len(reports)
             scored == {i \in DOMAIN reports : reports[i].allocator = a /\ ScoresStored(reports[i]) # {}}
             shown == LatestScored(a)
  <2>1. /\ DOMAIN W = 1..MaxScores /\ Len(W) = MaxScores /\ MaxScores \in Nat
        /\ \E n \in 1..MaxScores : W[n] # 0
    BY WeightsTyped, ConstantsAssumption
  <2>2. m \in Nat /\ DOMAIN reports = 1..m /\ reports \in Seq(Report) /\ DoneScored
    BY Parts DEF IInv
  <2>3. shown = Newest(scored)
    BY DEF LatestScored
  <2>4. scored \in SUBSET (1..m)
    BY <2>2
  <2>5. (scored = {} => shown = None) /\ (scored # {} => shown \in scored) /\ \A j \in scored : j <= shown
    <3> HIDE DEF scored, shown, m
    <3> QED
      BY <2>2, <2>3, <2>4, NewestIs
  <2>6. ASSUME NEW i \in DOMAIN reports, reports[i].allocator = a, reports[i].generation = "done"
        PROVE  \A n \in DOMAIN W : W[n] # 0 => n \in ScoresStored(reports[i])
    <3>1. AllScored(reports[i]) /\ reports[i] \in Report
      BY <2>2, <2>6, ElementOfSeq DEF DoneScored, Scored
    <3>2. reports[i].scored \in Nat /\ reports[i].scored >= MaxScores
      BY <2>1, <2>6, <3>1 DEF AllScored, Report
    <3>3. \A n \in 1..MaxScores : n \in 1..reports[i].scored
      BY <2>1, <3>2
    <3> QED
      BY <2>1, <2>6, <3>3 DEF ScoresStored
  <2>7. ASSUME shown # None, reports[shown].generation = "done"
        PROVE  \A n \in DOMAIN W : W[n] # 0 => n \in ScoresStored(reports[shown])
    <3>1. shown \in DOMAIN reports /\ reports[shown].allocator = a
      BY <2>5, <2>7
    <3> QED
      BY <2>6, <2>7, <3>1
  <2>8. ASSUME NEW i \in DOMAIN reports, reports[i].allocator = a, reports[i].generation = "done"
        PROVE  i <= shown
    <3>1. ScoresStored(reports[i]) # {}
      BY <2>1, <2>6, <2>8
    <3>2. i \in scored
      BY <2>8, <3>1
    <3> QED
      BY <2>5, <3>2
  <2> QED
    BY <2>7, <2>8
<1> QED
  BY <1>1, Invariance, PTL

\* A response that lacks a report whose POST has deleted it was queried before that
\* deletion and stored after it, or is a page, which no POST deletes.
THEOREM StaleResponsesExplainedCorrect == Spec => []StaleResponsesExplained
<1>1. IInv => StaleResponsesExplained
  BY DEF IInv
<1> QED
  BY <1>1, Invariance, PTL
================================================================================
