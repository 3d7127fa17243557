-------------------------- MODULE ClientReportsProofs --------------------------
(***************************************************************************)
(* Proofs about ClientReports, for every number of calls, clients, checks, *)
(* runs of the job, requests and failures.                                 *)
(*                                                                         *)
(* What a call holds is related to the tables by predicates of the call's  *)
(* record k, the reports rs, the age ag and the history inv, so that they  *)
(* can be stated of the state before and after a step.                     *)
(***************************************************************************)
EXTENDS ClientReports, SequenceTheorems, FiniteSetTheorems, TLAPS

AtLoop == {"next", "generating", "checking", "reading"}

\* The kinds of call that may be at each stage.
KindFits(k) ==
  /\ k.stage \in {"listing", "next"} => k.kind = "job"
  /\ k.stage \in {"generating", "checking", "reading"} => k.kind \in {"job", "post", "trigger"}
  /\ k.stage \in {"looking", "answering"} => k.kind = "trigger"
  /\ k.stage = "invalidating" => k.kind = "post"
  /\ k.stage \in {"querying", "storing"} => k.kind = "get"

\* A call that is not at the point where it holds a report or a result has none.
Empty(k) ==
  /\ k.stage = "idle" => k = NoCall
  /\ k.stage \in {"listing", "next", "generating", "looking", "querying", "storing"} => k.report = None
  /\ k.stage \notin {"invalidating", "answering", "storing"} => k.result = None

\* The report a call has created is of its client and its kind.
Own(k, rs) == /\ k.report \in 1..Len(rs)
              /\ rs[k.report].client = k.client
              /\ rs[k.report].by = k.kind

\* How far a call is with its report, and what it hands out.
Generates(k, rs) ==
  /\ k.report \in 0..Len(rs)
  /\ k.stage = "checking" => Own(k, rs) /\ rs[k.report].checks < NumChecks
  /\ k.stage = "reading" => Own(k, rs) /\ rs[k.report].checks = NumChecks
  /\ k.stage = "invalidating" => Own(k, rs) /\ k.result = k.report /\ k.checks = NumChecks
  /\ k.stage = "answering" /\ None \notin {k.report, k.result} =>
        k.result = k.report /\ k.checks = NumChecks

\* The applications that a run of the job has dealt with are accounted for.
Accounted(k, rs) ==
  \A client \in Clients \ k.todo :
    \/ client \in k.failed
    \/ \E i \in k.seen + 1 .. Len(rs) :
          /\ rs[i].client = client
          /\ rs[i].by = "job"
          /\ rs[i].checks = NumChecks

\* Where a run of the job is in its loop.
Loops(k, rs) == k.kind = "job" /\ k.stage \in AtLoop =>
  /\ Accounted(k, rs)
  /\ k.seen <= Len(rs)
  /\ k.stage # "next" => k.client \in k.todo
  /\ k.stage \in {"checking", "reading"} => k.report > k.seen

\* The trigger that generates a report has found none that is recent enough: those
\* that are have come since.
Looked(k, rs, ag) == k.kind = "trigger" /\ k.stage = "generating" =>
  /\ k.seen <= Len(rs)
  /\ \A i \in 1..Len(rs) : rs[i].client = k.client /\ i > ag => i > k.seen

UrlOf(k) == [client |-> k.client, name |-> k.name, route |-> k.route]

\* A response to be cached is not older than a report whose POST has deleted the entry
\* before the query.
Fresh(k, inv) == k.stage = "storing" =>
  /\ k.client \in Known
  /\ k.result >= inv[UrlOf(k)] \/ k.overtaken

Consistent(k, rs, ag, inv) ==
  /\ KindFits(k) /\ Empty(k) /\ Generates(k, rs) /\ Loops(k, rs)
  /\ Looked(k, rs, ag) /\ Fresh(k, inv)
  /\ k.stage \in {"querying", "invalidating"} => k.client \in Known

CallsConsistent == \A c \in Calls : Consistent(call[c], reports, aged, invalidated)

\* No two calls store checks of the same report.
OwnersDiffer == \A c, d \in Calls :
  call[c].report # None /\ call[c].report = call[d].report => c = d

\* May a call with the record k still create a report about the client?
MayCreate(k, client) ==
  \/ k.kind \in {"post", "trigger"} /\ k.stage \in {"looking", "generating"} /\ client = k.client
  \/ k.kind = "job" /\ k.stage = "listing"
  \/ k.kind = "job" /\ k.stage \in {"next", "generating"} /\ client \in k.todo
  \/ k.kind = "job" /\ k.stage \in {"checking", "reading"} /\ client \in k.todo \ {k.client}

\* The reports that calls may still create.
Owed == {o \in Calls \X Known : MayCreate(call[o[1]], o[2])}

\* Reports, created or still to come, are no more than requests and jobs account for.
ReportsCounted ==
  /\ IsFiniteSet(Owed)
  /\ Len(reports) + Cardinality(Owed) <= requests + Cardinality(Known) * jobs

\* A POST has deleted the responses of its own client.
InvalidatedExists ==
  \A u \in Urls : invalidated[u] # None =>
     invalidated[u] \in 1..Len(reports) /\ reports[invalidated[u]].client = u.client

\* The inductive invariant.
IInv == /\ TypeOK /\ CallsConsistent /\ OwnersDiffer /\ ReportsCounted
        /\ DuplicatesAreRaces /\ InvalidatedExists /\ StaleResponsesExplained

-----------------------------------------------------------------------------
(* Facts about the operators of the model *)

\* A set of natural numbers has a least element: what induction is for.
LEMMA Smallest ==
  ASSUME NEW T \in SUBSET Nat, T # {}
  PROVE  \E x \in T : \A y \in T : x <= y
<1> DEFINE R == {ss \in Nat \X Nat : ss[1] < ss[2]}
<1>1. IsWellFoundedOn(R, Nat)
  BY NatLessThanWellFounded DEF OpToRel
<1>2. \A x, y \in Nat : y < x => <<y, x>> \in R
  OBVIOUS
<1> HIDE DEF R
<1>3. PICK x \in T : \A y \in T : ~(<<y, x>> \in R)
  BY <1>1, WFMin
<1>4. \A y \in T : ~(y < x)
  BY <1>2, <1>3
<1> QED
  BY <1>4

\* A set of numbers up to n has a largest element.
LEMMA Largest ==
  ASSUME NEW n \in Nat, NEW S \in SUBSET (1..n), S # {}
  PROVE  \E x \in S : \A y \in S : y <= x
<1> DEFINE T == {n - x : x \in S}
<1>1. T \in SUBSET Nat
  <2>1. \A x \in S : n - x \in Nat
    OBVIOUS
  <2> QED
    BY <2>1
<1>2. T # {}
  OBVIOUS
<1>3. PICK t \in T : \A u \in T : t <= u
  BY <1>1, <1>2, Smallest
<1>4. PICK x \in S : t = n - x
  BY <1>3
<1>5. \A y \in S : n - x <= n - y
  BY <1>3, <1>4
<1> QED
  BY <1>5

\* The bound on reports is a number.
LEMMA BoundsTyped ==
  /\ MaxReports \in Nat /\ Cardinality(Known) \in Nat
  /\ MaxJobs \in Nat /\ MaxRequests \in Nat /\ MaxFailures \in Nat
<1>1. Cardinality(Known) \in Nat
  BY ConstantsAssumption, FS_CardinalityType
<1>2. MaxJobs \in Nat /\ MaxRequests \in Nat /\ MaxFailures \in Nat
  BY ConstantsAssumption
<1> QED
  BY <1>1, <1>2 DEF MaxReports

\* A slot without a call is a call's record.
LEMMA NoCallTyped == NoCall \in Call
<1>1. (CHOOSE c \in Clients : TRUE) \in Clients /\ (CHOOSE n \in Names : TRUE) \in Names
  BY ConstantsAssumption
<1>2. 0 \in 0..MaxReports /\ 0 \in 0..NumChecks
  BY BoundsTyped, ConstantsAssumption
<1> QED
  BY <1>1, <1>2 DEF NoCall, Call, None, Stages, Routes

\* getReport() without an id finds the newest report of the client, or there is none.
LEMMA NewestOfClient ==
  ASSUME reports \in Seq(Row), NEW client
  PROVE  /\ GetReport(client, None) \in 0..Len(reports)
         /\ \A j \in 1..Len(reports) : reports[j].client = client => j <= GetReport(client, None)
         /\ GetReport(client, None) # None => reports[GetReport(client, None)].client = client
<1> DEFINE found == {i \in DOMAIN reports : reports[i].client = client /\ None \in {None, i}}
<1>1. Len(reports) \in Nat /\ DOMAIN reports = 1..Len(reports)
  BY LenProperties
<1>2. found \subseteq 1..Len(reports)
  BY <1>1
<1>3. \A j \in 1..Len(reports) : reports[j].client = client => j \in found
  BY <1>1
<1>4. GetReport(client, None) = IF found = {} THEN None ELSE CHOOSE i \in found : \A j \in found : j <= i
  BY DEF GetReport
<1>5. CASE found = {}
  BY <1>1, <1>3, <1>4, <1>5 DEF None
<1>6. CASE found # {}
  <2>1. \E i \in found : \A j \in found : j <= i
    BY <1>1, <1>2, <1>6, Largest
  <2>2. GetReport(client, None) \in found /\ \A j \in found : j <= GetReport(client, None)
    BY <1>4, <1>6, <2>1
  <2>3. GetReport(client, None) \in 1..Len(reports)
    BY <1>2, <2>2
  <2> QED
    BY <1>1, <1>3, <2>2, <2>3
<1> QED
  BY <1>5, <1>6

\* getReport() with the id of a report of the client finds that one.
LEMMA ReportById ==
  ASSUME reports \in Seq(Row), NEW id \in 1..Len(reports)
  PROVE  GetReport(reports[id].client, id) = id
<1> DEFINE client == reports[id].client
           found == {i \in DOMAIN reports : reports[i].client = client /\ id \in {None, i}}
<1>1. DOMAIN reports = 1..Len(reports) /\ id # None
  BY LenProperties DEF None
<1>2. found = {id}
  BY <1>1
<1>3. id <= id
  BY LenProperties
<1>4. GetReport(client, id) = IF found = {} THEN None ELSE CHOOSE i \in found : \A j \in found : j <= i
  BY DEF GetReport
<1> HIDE DEF found
<1> QED
  BY <1>2, <1>3, <1>4

\* The latest recent report is recent and the client's, if there is one.
LEMMA LatestRecentOfClient ==
  ASSUME reports \in Seq(Row), NEW client
  PROVE  /\ LatestRecent(client) \in 0..Len(reports)
         /\ LatestRecent(client) # None => /\ reports[LatestRecent(client)].client = client
                                           /\ LatestRecent(client) > aged
<1> DEFINE found == {i \in DOMAIN reports : reports[i].client = client /\ i > aged}
<1>1. Len(reports) \in Nat /\ DOMAIN reports = 1..Len(reports)
  BY LenProperties
<1>2. found \subseteq 1..Len(reports)
  BY <1>1
<1>3. LatestRecent(client) = IF found = {} THEN None ELSE CHOOSE i \in found : \A j \in found : j <= i
  BY DEF LatestRecent
<1>4. CASE found = {}
  BY <1>1, <1>3, <1>4 DEF None
<1>5. CASE found # {}
  <2>1. \E i \in found : \A j \in found : j <= i
    BY <1>1, <1>2, <1>5, Largest
  <2>2. LatestRecent(client) \in found
    BY <1>3, <1>5, <2>1
  <2> QED
    BY <1>1, <2>2
<1> QED
  BY <1>4, <1>5

-----------------------------------------------------------------------------
\* A call that a step leaves alone stays consistent as reports are added, get checks and
\* turn old, unless another call stores checks of its report.
LEMMA ConsistentKept ==
  ASSUME NEW k \in Call, NEW rs \in Seq(Row), NEW rs2 \in Seq(Row),
         NEW ag \in Nat, NEW ag2 \in Nat, ag <= ag2, NEW inv,
         Consistent(k, rs, ag, inv),
         Len(rs) <= Len(rs2),
         \A i \in 1..Len(rs) : /\ rs2[i].client = rs[i].client
                               /\ rs2[i].by = rs[i].by
                               /\ rs[i].checks = NumChecks => rs2[i].checks = NumChecks,
         k.stage = "checking" => rs2[k.report].checks = rs[k.report].checks
  PROVE  Consistent(k, rs2, ag2, inv)
<1>1. Len(rs) \in Nat /\ Len(rs2) \in Nat
  BY LenProperties
<1>2. k.seen \in Nat
  BY BoundsTyped DEF Call
<1>3. KindFits(k) /\ Empty(k) /\ Fresh(k, inv)
      /\ (k.stage \in {"querying", "invalidating"} => k.client \in Known)
  BY DEF Consistent
<1>4. Generates(k, rs2)
  BY <1>1 DEF Consistent, Generates, Own
<1>5. Loops(k, rs2)
  <2>1. SUFFICES ASSUME k.kind = "job", k.stage \in AtLoop PROVE Loops(k, rs2)
    BY DEF Loops
  <2>2. Accounted(k, rs) /\ k.seen <= Len(rs)
    BY <2>1 DEF Consistent, Loops
  <2>3. Accounted(k, rs2)
    <3>1. \A i \in (k.seen + 1)..Len(rs) : i \in 1..Len(rs) /\ i \in (k.seen + 1)..Len(rs2)
      BY <1>1, <1>2
    <3> QED
      BY <2>2, <3>1 DEF Accounted
  <2> QED
    BY <1>1, <1>2, <2>1, <2>2, <2>3 DEF Consistent, Loops
<1>6. Looked(k, rs2, ag2)
  <2>1. SUFFICES ASSUME k.kind = "trigger", k.stage = "generating" PROVE Looked(k, rs2, ag2)
    BY DEF Looked
  <2>2. k.seen <= Len(rs) /\ \A i \in 1..Len(rs) : rs[i].client = k.client /\ i > ag => i > k.seen
    BY <2>1 DEF Consistent, Looked
  <2>3. k.seen <= Len(rs2)
    BY <1>1, <1>2, <2>2
  <2>4. ASSUME NEW i \in 1..Len(rs2), rs2[i].client = k.client, i > ag2
        PROVE  i > k.seen
    <3>1. CASE i \in 1..Len(rs)
      BY <2>2, <2>4, <3>1
    <3>2. CASE i \notin 1..Len(rs)
      BY <1>1, <1>2, <2>2, <3>2
    <3> QED
      BY <3>1, <3>2
  <2> QED
    BY <2>3, <2>4 DEF Looked
<1> QED
  BY <1>3, <1>4, <1>5, <1>6 DEF Consistent

\* The parts of the invariant that most steps use.
LEMMA Parts ==
  ASSUME IInv
  PROVE  /\ reports \in Seq(Row) /\ Len(reports) \in Nat /\ Len(reports) <= MaxReports
         /\ aged \in 0..Len(reports) /\ aged \in Nat
         /\ cache \in [Urls -> Response \cup {NotCached}]
         /\ call \in [Calls -> Call]
         /\ invalidated \in [Urls -> 0..MaxReports]
         /\ jobs \in 0..MaxJobs /\ requests \in 0..MaxRequests /\ failures \in 0..MaxFailures
         /\ \A c \in Calls : call[c] \in Call /\ Consistent(call[c], reports, aged, invalidated)
<1>1. reports \in Seq(Row) /\ Len(reports) \in Nat
  BY LenProperties DEF IInv, TypeOK
<1> QED
  BY <1>1 DEF IInv, TypeOK, CallsConsistent

\* What a row of the table holds.
LEMMA RowTyped ==
  ASSUME IInv, NEW i \in 1..Len(reports)
  PROVE  /\ reports[i] \in Row
         /\ reports[i].client \in Known /\ reports[i].checks \in 0..NumChecks
         /\ i \in 0..MaxReports
<1>1. reports[i] \in Row
  BY Parts, ElementOfSeq
<1>2. reports[i].client \in Known /\ reports[i].checks \in 0..NumChecks
  BY <1>1 DEF Row
<1>3. i \in 0..MaxReports
  <2>1. Len(reports) \in Nat /\ Len(reports) <= MaxReports /\ MaxReports \in Nat
    BY Parts, BoundsTyped
  <2> QED
    BY <2>1
<1> QED
  BY <1>1, <1>2, <1>3

\* What the first state satisfies.
LEMMA InitIInv == Init => IInv
<1> SUFFICES ASSUME Init PROVE IInv
  OBVIOUS
<1>1. /\ reports = <<>> /\ aged = 0 /\ jobs = 0 /\ requests = 0 /\ failures = 0
      /\ cache = [u \in Urls |-> NotCached]
      /\ call = [c \in Calls |-> NoCall]
      /\ invalidated = [u \in Urls |-> None]
  BY DEF Init
<1>2. TypeOK
  <2>1. reports \in Seq(Row) /\ Len(reports) = 0
    BY <1>1, EmptySeq
  <2>2. call \in [Calls -> Call]
    BY <1>1, NoCallTyped
  <2> QED
    BY <1>1, <2>1, <2>2, BoundsTyped DEF TypeOK, None
<1>3. \A c \in Calls : call[c] = NoCall
  BY <1>1
<1>4. Consistent(NoCall, reports, aged, invalidated)
  BY <1>2 DEF TypeOK, NoCall, Consistent, KindFits, Empty, Generates, Loops, Looked, Fresh, None, AtLoop
<1>5. CallsConsistent
  BY <1>3, <1>4 DEF CallsConsistent
<1>6. OwnersDiffer
  <2>1. NoCall.report = None
    BY DEF NoCall
  <2> QED
    BY <1>3, <2>1 DEF OwnersDiffer
<1>7. ReportsCounted
  <2>1. \A client \in Known : ~MayCreate(NoCall, client)
    BY DEF MayCreate, NoCall
  <2>2. Owed = {}
    BY <1>3, <2>1 DEF Owed
  <2>3. Len(reports) = 0
    BY <1>1
  <2> QED
    BY <1>1, <2>2, <2>3, FS_EmptySet, BoundsTyped DEF ReportsCounted
<1>8. DuplicatesAreRaces
  BY <1>1 DEF DuplicatesAreRaces
<1>9. InvalidatedExists /\ StaleResponsesExplained
  BY <1>1 DEF InvalidatedExists, StaleResponsesExplained, Cached
<1> QED
  BY <1>2, <1>5, <1>6, <1>7, <1>8, <1>9 DEF IInv

\* A step of one call that changes no report keeps the invariant if its new record
\* is consistent.
LEMMA CallStep ==
  ASSUME IInv, NEW c \in Calls, NEW k2 \in Call, call' = [call EXCEPT ![c] = k2],
         UNCHANGED <<reports, aged, invalidated>>,
         cache' \in [Urls -> Response \cup {NotCached}], StaleResponsesExplained',
         jobs' \in 0..MaxJobs, requests' \in 0..MaxRequests, failures' \in 0..MaxFailures,
         Consistent(k2, reports, aged, invalidated),
         k2.report \in {None, call[c].report},
         ReportsCounted'
  PROVE  IInv'
<1>1. call \in [Calls -> Call] /\ CallsConsistent /\ TypeOK
  BY Parts DEF IInv
<1>2. call'[c] = k2 /\ \A d \in Calls : d # c => call'[d] = call[d]
  BY <1>1
<1>3. TypeOK'
  BY <1>1 DEF TypeOK
<1>4. CallsConsistent'
  BY <1>1, <1>2 DEF CallsConsistent
<1>5. OwnersDiffer'
  BY <1>2 DEF IInv, OwnersDiffer
<1>6. DuplicatesAreRaces' /\ InvalidatedExists'
  BY DEF IInv, DuplicatesAreRaces, InvalidatedExists
<1> QED
  BY <1>3, <1>4, <1>5, <1>6 DEF IInv

\* A call that may create no more than before keeps the count of reports.
LEMMA OwedShrinks ==
  ASSUME IInv, NEW c \in Calls, NEW k2 \in Call, call' = [call EXCEPT ![c] = k2],
         \A client \in Known : MayCreate(k2, client) => MayCreate(call[c], client),
         UNCHANGED <<reports, jobs, requests>>
  PROVE  ReportsCounted'
<1>1. call \in [Calls -> Call] /\ ReportsCounted
  BY Parts DEF IInv
<1>2. Owed' \subseteq Owed
  BY <1>1 DEF Owed
<1>3. IsFiniteSet(Owed') /\ Cardinality(Owed') <= Cardinality(Owed)
  BY <1>1, <1>2, FS_Subset DEF ReportsCounted
<1>4. Cardinality(Owed') \in Nat /\ Cardinality(Owed) \in Nat
  BY <1>1, <1>3, FS_CardinalityType DEF ReportsCounted
<1> QED
  BY <1>1, <1>3, <1>4, Parts, BoundsTyped DEF ReportsCounted

\* A step of one call that changes nothing but what that call holds.
LEMMA OwnStep ==
  ASSUME IInv, NEW c \in Calls, NEW k2 \in Call, call' = [call EXCEPT ![c] = k2],
         UNCHANGED <<reports, aged, cache, jobs, requests, invalidated>>,
         failures' \in 0..MaxFailures,
         Consistent(k2, reports, aged, invalidated),
         k2.report \in {None, call[c].report},
         \A client \in Known : MayCreate(k2, client) => MayCreate(call[c], client)
  PROVE  IInv'
<1>1. ReportsCounted'
  BY OwedShrinks
<1>2. StaleResponsesExplained'
  BY DEF IInv, StaleResponsesExplained, Cached
<1> QED
  BY <1>1, <1>2, CallStep, Parts

-----------------------------------------------------------------------------
\* Leaving is consistent with anything.
LEMMA LeaveIInv ==
  ASSUME IInv, NEW c \in Calls, Leave(c),
         UNCHANGED <<reports, aged, cache, jobs, requests, invalidated>>,
         failures' \in 0..MaxFailures
  PROVE  IInv'
<1>1. Len(reports) \in Nat
  BY Parts
<1>2. Consistent(NoCall, reports, aged, invalidated)
  BY <1>1 DEF NoCall, Consistent, KindFits, Empty, Generates, Loops, Looked, Fresh, None, AtLoop
<1>3. NoCall.report = None
  BY DEF NoCall
<1>4. \A client \in Known : ~MayCreate(NoCall, client)
  BY DEF MayCreate, NoCall
<1> QED
  BY <1>2, <1>3, <1>4, NoCallTyped, OwnStep DEF Leave

\* The job goes on to the next application: the one it leaves has failed, or its report
\* is complete.
LEMMA NextApplicationIInv ==
  ASSUME IInv, NEW c \in Calls, NEW ok \in BOOLEAN, NextApplication(c, ok),
         call[c].kind = "job", call[c].stage \in {"generating", "checking", "reading"},
         ok => call[c].stage = "reading",
         UNCHANGED <<reports, aged, cache, jobs, requests, invalidated>>,
         failures' \in 0..MaxFailures
  PROVE  IInv'
<1> DEFINE k == call[c]
           k2 == [k EXCEPT !.stage = "next", !.report = None, !.todo = @ \ {k.client},
                           !.failed = IF ok THEN @ ELSE @ \cup {k.client}]
<1>1. k \in Call /\ Consistent(k, reports, aged, invalidated) /\ call \in [Calls -> Call]
  BY Parts
<1>2. call' = [call EXCEPT ![c] = k2]
  BY <1>1 DEF NextApplication
<1>3. /\ k2.stage = "next" /\ k2.report = None /\ k2.todo = k.todo \ {k.client}
      /\ k2.failed = IF ok THEN k.failed ELSE k.failed \cup {k.client}
      /\ k2.kind = "job" /\ k2.client = k.client /\ k2.seen = k.seen /\ k2.result = k.result
  BY <1>1 DEF Call
<1>4. k2 \in Call
  <2>1. None \in 0..MaxReports /\ "next" \in Stages
    BY BoundsTyped DEF Stages, None
  <2>2. /\ k.todo \ {k.client} \in SUBSET Clients
        /\ (IF ok THEN k.failed ELSE k.failed \cup {k.client}) \in SUBSET Clients
    BY <1>1 DEF Call
  <2> HIDE DEF k
  <2> QED
    BY <1>1, <2>1, <2>2 DEF Call
<1> HIDE DEF k2
<1>5. /\ k.result = None /\ Accounted(k, reports) /\ k.seen <= Len(reports) /\ k.client \in k.todo
      /\ k.stage \in {"checking", "reading"} => k.report > k.seen
      /\ k.stage = "reading" => Own(k, reports) /\ reports[k.report].checks = NumChecks
  BY <1>1 DEF Consistent, Empty, Loops, Generates, AtLoop
<1>6. Accounted(k2, reports)
  <2>1. ASSUME NEW client \in Clients \ k2.todo
        PROVE  \/ client \in k2.failed
               \/ \E i \in k2.seen + 1 .. Len(reports) : /\ reports[i].client = client
                                                         /\ reports[i].by = "job"
                                                         /\ reports[i].checks = NumChecks
    <3>1. CASE client \notin k.todo
      BY <1>3, <1>5, <3>1 DEF Accounted
    <3>2. CASE client = k.client /\ ~ok
      BY <1>3, <3>2
    <3>3. CASE client = k.client /\ ok
      <4>1. k.report \in k2.seen + 1 .. Len(reports)
        BY <1>1, <1>3, <1>5, <3>3, Parts, BoundsTyped DEF Own, Call
      <4> QED
        BY <1>5, <3>3, <4>1 DEF Own
    <3> QED
      BY <1>3, <2>1, <3>1, <3>2, <3>3
  <2> QED
    BY <2>1 DEF Accounted
<1>7. Consistent(k2, reports, aged, invalidated)
  BY <1>3, <1>5, <1>6, Parts DEF Consistent, KindFits, Empty, Generates, Loops, Looked, Fresh, None, AtLoop
<1>8. \A client \in Known : MayCreate(k2, client) => MayCreate(k, client)
  BY <1>3 DEF MayCreate
<1> QED
  BY <1>2, <1>3, <1>4, <1>7, <1>8, OwnStep

\* A trigger that has got no report goes on to answer with an error text.
LEMMA AnswerIInv ==
  ASSUME IInv, NEW c \in Calls, Goto(c, "answering"),
         call[c].kind = "trigger", call[c].stage \in {"looking", "generating", "checking", "reading"},
         UNCHANGED <<reports, aged, cache, jobs, requests, invalidated>>,
         failures' \in 0..MaxFailures
  PROVE  IInv'
<1> DEFINE k == call[c]
           k2 == [k EXCEPT !.stage = "answering"]
<1>1. k \in Call /\ Consistent(k, reports, aged, invalidated) /\ call \in [Calls -> Call]
  BY Parts
<1>2. call' = [call EXCEPT ![c] = k2]
  BY <1>1 DEF Goto
<1>3. /\ k2.stage = "answering" /\ k2.kind = "trigger"
      /\ k2.report = k.report /\ k2.result = k.result
  BY <1>1 DEF Call
<1>4. k2 \in Call
  BY <1>1 DEF Call, Stages
<1> HIDE DEF k2
<1>5. k.result = None /\ k.report \in 0..Len(reports)
  BY <1>1 DEF Consistent, Empty, Generates
<1>6. Consistent(k2, reports, aged, invalidated)
  BY <1>3, <1>5 DEF Consistent, KindFits, Empty, Generates, Loops, Looked, Fresh, AtLoop
<1>7. \A client \in Known : ~MayCreate(k2, client)
  BY <1>3 DEF MayCreate
<1> QED
  BY <1>2, <1>3, <1>4, <1>6, <1>7, OwnStep

\* No such client.
LEMMA ClientNotFoundIInv ==
  ASSUME IInv, NEW c \in Calls, ClientNotFound(c)
  PROVE  IInv'
<1>1. /\ call[c].stage = "generating"
      /\ UNCHANGED <<reports, aged, cache, jobs, requests, failures, invalidated>>
      /\ failures' \in 0..MaxFailures
  BY Parts DEF ClientNotFound
<1>2. CASE call[c].kind = "job" /\ NextApplication(c, FALSE)
  BY <1>1, <1>2, NextApplicationIInv
<1>3. CASE call[c].kind = "post" /\ Leave(c)
  BY <1>1, <1>3, LeaveIInv
<1>4. CASE call[c].kind = "trigger" /\ Goto(c, "answering")
  BY <1>1, <1>4, AnswerIInv
<1> QED
  BY <1>2, <1>3, <1>4 DEF ClientNotFound

\* The report read back is the one the call created, with all its checks.
LEMMA ReadBackIInv ==
  ASSUME IInv, NEW c \in Calls, ReadBack(c)
  PROVE  IInv'
<1> DEFINE k == call[c]
           id == GetReport(k.client, k.report)
<1>1. k \in Call /\ Consistent(k, reports, aged, invalidated) /\ call \in [Calls -> Call]
  BY Parts
<1>2. /\ k.stage = "reading"
      /\ UNCHANGED <<reports, aged, cache, jobs, requests, failures, invalidated>>
      /\ failures' \in 0..MaxFailures
  BY Parts DEF ReadBack
<1>3. Own(k, reports) /\ reports[k.report].checks = NumChecks /\ k.report # None
  BY <1>1, <1>2, Parts DEF Consistent, Generates, Own, None
<1>4. id = k.report
  BY <1>3, Parts, ReportById DEF Own
<1>5. reports[k.report] \in Row /\ k.client \in Known
  BY <1>3, RowTyped DEF Own
<1>6. CASE k.kind = "job" /\ NextApplication(c, TRUE)
  BY <1>2, <1>6, NextApplicationIInv
<1>7. ASSUME NEW stage \in {"invalidating", "answering"}, HandOver(c, stage, id),
             k.kind = IF stage = "invalidating" THEN "post" ELSE "trigger"
      PROVE  IInv'
  <2> DEFINE k2 == [k EXCEPT !.stage = stage, !.result = id, !.checks = reports[id].checks]
  <2>1. call' = [call EXCEPT ![c] = k2]
    BY <1>1, <1>7 DEF HandOver
  <2>2. /\ k2.stage = stage /\ k2.kind = k.kind /\ k2.client = k.client
        /\ k2.report = k.report /\ k2.result = k.report /\ k2.checks = NumChecks
    BY <1>1, <1>3, <1>4 DEF Call
  <2>3. k2 \in Call
    <3>1. id \in 0..MaxReports /\ reports[id].checks \in 0..NumChecks /\ stage \in Stages
      BY <1>1, <1>4, <1>5 DEF Call, Row, Stages
    <3> HIDE DEF k, id
    <3> QED
      BY <1>1, <3>1 DEF Call
  <2> HIDE DEF k2
  <2>4. Own(k2, reports)
    BY <1>3, <2>2 DEF Own
  <2>5. Consistent(k2, reports, aged, invalidated)
    BY <1>3, <1>5, <1>7, <2>2, <2>4, Parts
    DEF Consistent, KindFits, Empty, Generates, Loops, Looked, Fresh, AtLoop, Own
  <2>6. \A client \in Known : ~MayCreate(k2, client)
    BY <1>7, <2>2 DEF MayCreate
  <2> QED
    BY <1>2, <2>1, <2>2, <2>3, <2>5, <2>6, OwnStep
<1> QED
  BY <1>6, <1>7 DEF ReadBack

\* The run of the job begins its loop: nothing is dealt with yet.
LEMMA ListApplicationsIInv ==
  ASSUME IInv, NEW c \in Calls, ListApplications(c)
  PROVE  IInv'
<1> DEFINE k == call[c]
           k2 == [k EXCEPT !.stage = "next", !.todo = Clients, !.seen = Len(reports)]
<1>1. k \in Call /\ Consistent(k, reports, aged, invalidated) /\ call \in [Calls -> Call]
  BY Parts
<1>2. /\ k.stage = "listing"
      /\ UNCHANGED <<reports, aged, cache, jobs, requests, failures, invalidated>>
      /\ failures' \in 0..MaxFailures
  BY Parts DEF ListApplications
<1>3. call' = [call EXCEPT ![c] = k2]
  BY <1>1 DEF ListApplications
<1>4. /\ k2.stage = "next" /\ k2.kind = k.kind /\ k2.todo = Clients /\ k2.seen = Len(reports)
      /\ k2.report = k.report /\ k2.result = k.result
  BY <1>1 DEF Call
<1>5. k2 \in Call
  <2>1. Len(reports) \in 0..MaxReports /\ "next" \in Stages
    BY Parts, BoundsTyped DEF Stages
  <2> HIDE DEF k
  <2> QED
    BY <1>1, <2>1 DEF Call
<1> HIDE DEF k2
<1>6. k.kind = "job" /\ k.report = None /\ k.result = None
  BY <1>1, <1>2 DEF Consistent, KindFits, Empty
<1>7. Consistent(k2, reports, aged, invalidated)
  BY <1>4, <1>6, Parts
  DEF Consistent, KindFits, Empty, Generates, Loops, Accounted, Looked, Fresh, AtLoop, None
<1>8. \A client \in Known : MayCreate(k2, client) => MayCreate(k, client)
  BY <1>2, <1>4, <1>6 DEF MayCreate
<1> QED
  BY <1>2, <1>3, <1>4, <1>5, <1>7, <1>8, OwnStep

\* The job turns to an application.
LEMMA GenerateClientReportIInv ==
  ASSUME IInv, NEW c \in Calls, GenerateClientReport(c)
  PROVE  IInv'
<1> DEFINE k == call[c]
<1>1. k \in Call /\ Consistent(k, reports, aged, invalidated) /\ call \in [Calls -> Call]
  BY Parts
<1>2. /\ k.stage = "next"
      /\ UNCHANGED <<reports, aged, cache, jobs, requests, failures, invalidated>>
      /\ failures' \in 0..MaxFailures
  BY Parts DEF GenerateClientReport
<1>3. PICK client \in k.todo :
         call' = [call EXCEPT ![c].stage = "generating", ![c].client = client]
  BY DEF GenerateClientReport
<1> DEFINE k2 == [k EXCEPT !.stage = "generating", !.client = client]
<1>4. call' = [call EXCEPT ![c] = k2]
  BY <1>1, <1>3
<1>5. /\ k2.stage = "generating" /\ k2.kind = k.kind /\ k2.client = client /\ k2.todo = k.todo
      /\ k2.seen = k.seen /\ k2.failed = k.failed /\ k2.report = k.report /\ k2.result = k.result
  BY <1>1 DEF Call
<1>6. k2 \in Call
  BY <1>1 DEF Call, Stages
<1> HIDE DEF k2
<1>7. /\ k.kind = "job" /\ k.report = None /\ k.result = None
      /\ Accounted(k, reports) /\ k.seen <= Len(reports)
  BY <1>1, <1>2 DEF Consistent, KindFits, Empty, Loops, AtLoop
<1>8. Consistent(k2, reports, aged, invalidated)
  BY <1>5, <1>7, Parts
  DEF Consistent, KindFits, Empty, Generates, Loops, Accounted, Looked, Fresh, AtLoop, None
<1>9. \A d \in Known : MayCreate(k2, d) => MayCreate(k, d)
  BY <1>2, <1>5, <1>7 DEF MayCreate
<1> QED
  BY <1>2, <1>4, <1>5, <1>6, <1>8, <1>9, OwnStep

\* The trigger reuses a recent report, or finds that there is none.
LEMMA LookForLatestReportIInv ==
  ASSUME IInv, NEW c \in Calls, LookForLatestReport(c)
  PROVE  IInv'
<1> DEFINE k == call[c]
           id == GetReport(k.client, None)
<1>1. k \in Call /\ Consistent(k, reports, aged, invalidated) /\ call \in [Calls -> Call]
  BY Parts
<1>2. /\ k.stage = "looking"
      /\ UNCHANGED <<reports, aged, cache, jobs, requests, failures, invalidated>>
      /\ failures' \in 0..MaxFailures
  BY Parts DEF LookForLatestReport
<1>3. k.kind = "trigger" /\ k.report = None /\ k.result = None
  BY <1>1, <1>2 DEF Consistent, KindFits, Empty
<1>4. /\ id \in 0..Len(reports)
      /\ \A j \in 1..Len(reports) : reports[j].client = k.client => j <= id
  BY Parts, NewestOfClient
<1>5. CASE TooOld(id)
  <2> DEFINE k2 == [k EXCEPT !.stage = "generating", !.seen = Len(reports)]
  <2>1. call' = [call EXCEPT ![c] = k2]
    BY <1>1, <1>5 DEF LookForLatestReport
  <2>2. /\ k2.stage = "generating" /\ k2.kind = "trigger" /\ k2.client = k.client
        /\ k2.seen = Len(reports) /\ k2.report = None /\ k2.result = None
    BY <1>1, <1>3 DEF Call
  <2>3. k2 \in Call
    <3>1. Len(reports) \in 0..MaxReports /\ "generating" \in Stages
      BY Parts, BoundsTyped DEF Stages
    <3> HIDE DEF k
    <3> QED
      BY <1>1, <3>1 DEF Call
  <2> HIDE DEF k2
  <2>4. \A i \in 1..Len(reports) : reports[i].client = k.client => i <= aged
    BY <1>4, <1>5, Parts DEF TooOld
  <2>5. Consistent(k2, reports, aged, invalidated)
    BY <2>2, <2>4, Parts
    DEF Consistent, KindFits, Empty, Generates, Loops, Looked, Fresh, AtLoop, None
  <2>6. \A d \in Known : MayCreate(k2, d) => MayCreate(k, d)
    BY <1>2, <1>3, <2>2 DEF MayCreate
  <2> QED
    BY <1>2, <1>3, <2>1, <2>2, <2>3, <2>5, <2>6, OwnStep
<1>6. CASE ~TooOld(id)
  <2> DEFINE k2 == [k EXCEPT !.stage = "answering", !.result = id, !.checks = reports[id].checks]
  <2>1. call' = [call EXCEPT ![c] = k2]
    BY <1>1, <1>6 DEF LookForLatestReport
  <2>2. k2.stage = "answering" /\ k2.kind = "trigger" /\ k2.report = None
    BY <1>1, <1>3 DEF Call
  <2>3. k2 \in Call
    <3>1. id \in 1..Len(reports)
      BY <1>4, <1>6, Parts DEF TooOld
    <3> HIDE DEF k, id
    <3>2. id \in 0..MaxReports /\ reports[id].checks \in 0..NumChecks /\ "answering" \in Stages
      BY <3>1, RowTyped DEF Stages
    <3> QED
      BY <1>1, <3>2 DEF Call
  <2> HIDE DEF k2
  <2>4. Consistent(k2, reports, aged, invalidated)
    BY <2>2, Parts DEF Consistent, KindFits, Empty, Generates, Loops, Looked, Fresh, AtLoop, None
  <2>5. \A d \in Known : ~MayCreate(k2, d)
    BY <2>2 DEF MayCreate
  <2> QED
    BY <1>2, <1>3, <2>1, <2>2, <2>3, <2>4, <2>5, OwnStep
<1> QED
  BY <1>5, <1>6

-----------------------------------------------------------------------------
\* The query sees the newest report, whatever a POST has deleted before.
LEMMA QueryReportsIInv ==
  ASSUME IInv, NEW c \in Calls, QueryReports(c)
  PROVE  IInv'
<1> DEFINE k == call[c]
           newest == GetReport(k.client, None)
<1>1. k \in Call /\ Consistent(k, reports, aged, invalidated) /\ call \in [Calls -> Call]
  BY Parts
<1>2. /\ k.stage = "querying"
      /\ UNCHANGED <<reports, aged, cache, jobs, requests, failures, invalidated>>
      /\ failures' \in 0..MaxFailures
  BY Parts DEF QueryReports
<1>3. k.kind = "get" /\ k.report = None /\ k.client \in Known
  BY <1>1, <1>2 DEF Consistent, KindFits, Empty
<1>4. /\ newest \in 0..Len(reports)
      /\ \A j \in 1..Len(reports) : reports[j].client = k.client => j <= newest
  BY Parts, NewestOfClient
<1>5. CASE Leave(c)
  BY <1>2, <1>5, LeaveIInv
<1>6. CASE call' = [call EXCEPT ![c].stage = "storing", ![c].result = newest]
  <2> DEFINE k2 == [k EXCEPT !.stage = "storing", !.result = newest]
  <2>1. call' = [call EXCEPT ![c] = k2]
    BY <1>1, <1>6
  <2>2. /\ k2.stage = "storing" /\ k2.kind = "get" /\ k2.report = None /\ k2.result = newest
        /\ k2.client = k.client /\ k2.name = k.name /\ k2.route = k.route
    BY <1>1, <1>3 DEF Call
  <2>3. k2 \in Call
    <3>1. newest \in 0..MaxReports /\ "storing" \in Stages
      BY <1>4, Parts, BoundsTyped DEF Stages
    <3> HIDE DEF k, newest
    <3> QED
      BY <1>1, <3>1 DEF Call
  <2> HIDE DEF k2
  <2>4. k2.result >= invalidated[UrlOf(k2)]
    <3>1. UrlOf(k2) \in Urls /\ UrlOf(k2).client = k.client
      BY <1>1, <1>3, <2>2 DEF UrlOf, Urls, Call
    <3>2. CASE invalidated[UrlOf(k2)] = None
      BY <1>4, <2>2, <3>2 DEF None
    <3>3. CASE invalidated[UrlOf(k2)] # None
      BY <1>4, <2>2, <3>1, <3>3, Parts DEF IInv, InvalidatedExists
    <3> QED
      BY <3>2, <3>3
  <2>5. Consistent(k2, reports, aged, invalidated)
    BY <1>3, <2>2, <2>4, Parts DEF Consistent, KindFits, Empty, Generates, Loops, Looked, Fresh, AtLoop, None
  <2>6. \A d \in Known : ~MayCreate(k2, d)
    BY <2>2 DEF MayCreate
  <2> QED
    BY <1>2, <2>1, <2>2, <2>3, <2>5, <2>6, OwnStep
<1> QED
  BY <1>5, <1>6 DEF QueryReports

\* What is cached was fresh when it was queried, or marked as overtaken since.
LEMMA StoreResponseIInv ==
  ASSUME IInv, NEW c \in Calls, StoreResponse(c)
  PROVE  IInv'
<1> DEFINE k == call[c]
           r == [newest |-> k.result, overtaken |-> k.overtaken]
<1>1. k \in Call /\ Consistent(k, reports, aged, invalidated)
  BY Parts
<1>2. /\ k.stage = "storing" /\ Leave(c)
      /\ cache' = [cache EXCEPT ![UrlOf(k)] = r]
      /\ UNCHANGED <<reports, aged, jobs, requests, failures, invalidated>>
  BY DEF StoreResponse, Url, UrlOf
<1>3. UrlOf(k) \in Urls /\ (k.result >= invalidated[UrlOf(k)] \/ k.overtaken)
  BY <1>1, <1>2 DEF Consistent, Fresh, UrlOf, Urls, Call
<1>4. r \in Response
  BY <1>1 DEF Response, Call
<1>5. cache' \in [Urls -> Response \cup {NotCached}]
  BY <1>2, <1>3, <1>4, Parts
<1>6. StaleResponsesExplained'
  <2>1. ASSUME NEW url \in Urls, cache'[url] # NotCached
        PROVE  cache'[url].newest >= invalidated[url] \/ cache'[url].overtaken
    <3>1. CASE url = UrlOf(k)
      BY <1>2, <1>3, <3>1, Parts
    <3>2. CASE url # UrlOf(k)
      BY <1>2, <2>1, <3>2, Parts DEF IInv, StaleResponsesExplained, Cached
    <3> QED
      BY <3>1, <3>2
  <2> QED
    BY <1>2, <2>1 DEF StaleResponsesExplained, Cached
<1>7. Consistent(NoCall, reports, aged, invalidated)
  BY Parts DEF NoCall, Consistent, KindFits, Empty, Generates, Loops, Looked, Fresh, None, AtLoop
<1>8. NoCall.report = None /\ \A client \in Known : ~MayCreate(NoCall, client)
  BY DEF MayCreate, NoCall
<1>9. ReportsCounted'
  BY <1>2, <1>8, NoCallTyped, OwedShrinks DEF Leave
<1> QED
  BY <1>2, <1>5, <1>6, <1>7, <1>8, <1>9, NoCallTyped, CallStep, Parts DEF Leave

\* A POST deletes the cached responses: who is about to cache an older one for the same
\* URL is marked.
LEMMA InvalidateIInv ==
  ASSUME IInv, NEW c \in Calls, Invalidate(c)
  PROVE  IInv'
<1> DEFINE k == call[c]
           u == UrlOf(k)
           over(d) == [call[d] EXCEPT !.overtaken = @ \/ (call[d].stage = "storing" /\ UrlOf(call[d]) = u)]
           k2 == IF k.route = "latest" THEN [k EXCEPT !.route = "list"] ELSE NoCall
<1>1. /\ k \in Call /\ Consistent(k, reports, aged, invalidated)
      /\ call \in [Calls -> Call] /\ \A d \in Calls : call[d] \in Call
  BY Parts
<1>2. /\ k.stage = "invalidating"
      /\ cache' = [cache EXCEPT ![u] = NotCached]
      /\ invalidated' = [invalidated EXCEPT ![u] = Later(@, k.result)]
      /\ UNCHANGED <<reports, aged, jobs, requests, failures>>
  BY DEF Invalidate, Deleted, Url, UrlOf
<1>3. call' = [d \in Calls |-> IF d = c THEN k2 ELSE over(d)]
  BY DEF Invalidate, Url, UrlOf
<1>4. /\ u \in Urls /\ u.client = k.client
      /\ Own(k, reports) /\ k.result = k.report /\ k.checks = NumChecks /\ k.kind = "post"
  BY <1>1, <1>2 DEF Consistent, Generates, KindFits, UrlOf, Urls, Call
<1>5. k.result \in 1..Len(reports) /\ k.result \in 0..MaxReports
  BY <1>4, RowTyped DEF Own
<1>6. invalidated \in [Urls -> 0..MaxReports] /\ invalidated[u] \in 0..MaxReports
  BY <1>4, Parts
<1>7. /\ invalidated' \in [Urls -> 0..MaxReports]
      /\ invalidated'[u] \in {invalidated[u], k.result}
      /\ \A v \in Urls : v # u => invalidated'[v] = invalidated[v]
  <2>1. Later(invalidated[u], k.result) \in {invalidated[u], k.result}
    BY DEF Later
  <2> HIDE DEF u, k
  <2> QED
    BY <1>2, <1>4, <1>5, <1>6, <2>1
<1>8. cache' \in [Urls -> Response \cup {NotCached}]
  BY <1>2, <1>4, Parts
<1>9. StaleResponsesExplained'
  BY <1>2, <1>4, <1>7, Parts DEF IInv, StaleResponsesExplained, Cached
<1>10. InvalidatedExists'
  <2>1. reports[k.result].client = u.client
    BY <1>4 DEF Own
  <2> QED
    BY <1>2, <1>4, <1>5, <1>7, <2>1 DEF IInv, InvalidatedExists
<1>11. ASSUME NEW d \in Calls, d # c
       PROVE  /\ call'[d] \in Call
              /\ call'[d].report = call[d].report
              /\ Consistent(call'[d], reports, aged, invalidated')
              /\ \A client \in Known : MayCreate(call'[d], client) <=> MayCreate(call[d], client)
  <2> DEFINE l == call[d]
             l2 == over(d)
  <2>1. call'[d] = l2
    BY <1>3, <1>11
  <2>2. l \in Call /\ Consistent(l, reports, aged, invalidated)
    BY Parts
  <2>3. /\ l2.stage = l.stage /\ l2.kind = l.kind /\ l2.client = l.client /\ l2.name = l.name
        /\ l2.route = l.route /\ l2.report = l.report /\ l2.result = l.result
        /\ l2.checks = l.checks /\ l2.seen = l.seen /\ l2.todo = l.todo /\ l2.failed = l.failed
        /\ l2.overtaken = (l.overtaken \/ (l.stage = "storing" /\ UrlOf(l) = u))
    BY <2>2 DEF Call
  <2>4. l2 \in Call
    BY <2>2 DEF Call
  <2>5. l.stage # "storing" => l2 = l
    BY <2>2 DEF Call
  <2> HIDE DEF l2, u, k
  <2>6. UrlOf(l2) = UrlOf(l)
    BY <2>3 DEF UrlOf
  <2>7. Fresh(l2, invalidated')
    <3>1. SUFFICES ASSUME l2.stage = "storing"
                   PROVE  l2.client \in Known /\ (l2.result >= invalidated'[UrlOf(l2)] \/ l2.overtaken)
      BY DEF Fresh
    <3>2. l.stage = "storing" /\ l.client \in Known /\ (l.result >= invalidated[UrlOf(l)] \/ l.overtaken)
      BY <2>2, <2>3, <3>1 DEF Consistent, Fresh
    <3>3. UrlOf(l) \in Urls
      BY <2>2, <3>2 DEF UrlOf, Urls, Call
    <3> QED
      BY <1>7, <2>3, <2>6, <3>2, <3>3
  <2>8. Consistent(l2, reports, aged, invalidated')
    <3>1. CASE l.stage # "storing"
      BY <2>2, <2>5, <2>7, <3>1 DEF Consistent
    <3>2. CASE l.stage = "storing"
      <4>1. KindFits(l2) /\ Empty(l2) /\ Generates(l2, reports)
        BY <2>2, <2>3, <3>2 DEF Consistent, KindFits, Empty, Generates
      <4>2. Loops(l2, reports) /\ Looked(l2, reports, aged)
        BY <2>3, <3>2 DEF Loops, Looked, AtLoop
      <4> QED
        BY <2>3, <2>7, <3>2, <4>1, <4>2 DEF Consistent
    <3> QED
      BY <3>1, <3>2
  <2> QED
    BY <2>1, <2>3, <2>4, <2>8 DEF MayCreate
<1>12. /\ call'[c] \in Call
       /\ call'[c].report \in {None, k.report}
       /\ Consistent(call'[c], reports, aged, invalidated')
       /\ \A client \in Known : ~MayCreate(call'[c], client)
  <2>1. call'[c] = k2
    BY <1>3
  <2>2. CASE k.route = "latest"
    <3>1. k2 = [k EXCEPT !.route = "list"]
      BY <2>2
    <3>2. /\ k2.stage = k.stage /\ k2.kind = k.kind /\ k2.client = k.client
          /\ k2.report = k.report /\ k2.result = k.result /\ k2.checks = k.checks
      BY <1>1, <3>1 DEF Call
    <3>3. k2 \in Call
      BY <1>1, <3>1 DEF Call, Routes
    <3> HIDE DEF k2, k, u
    <3>4. Consistent(k2, reports, aged, invalidated')
      BY <1>1, <1>2, <1>4, <3>2
      DEF Consistent, KindFits, Empty, Generates, Own, Loops, Looked, Fresh, AtLoop
    <3> QED
      BY <1>2, <2>1, <3>2, <3>3, <3>4 DEF MayCreate
  <2>3. CASE k.route # "latest"
    <3>1. k2 = NoCall
      BY <2>3
    <3>2. Consistent(NoCall, reports, aged, invalidated')
      BY Parts DEF NoCall, Consistent, KindFits, Empty, Generates, Loops, Looked, Fresh, None, AtLoop
    <3>3. NoCall.report = None /\ \A client \in Known : ~MayCreate(NoCall, client)
      BY DEF MayCreate, NoCall
    <3> HIDE DEF k2
    <3> QED
      BY <2>1, <3>1, <3>2, <3>3, NoCallTyped
  <2> QED
    BY <2>2, <2>3
<1> HIDE DEF k, u, over, k2
<1>13. TypeOK'
  <2>1. call' \in [Calls -> Call]
    BY <1>3, <1>11, <1>12
  <2> QED
    BY <1>2, <1>7, <1>8, <2>1, Parts DEF TypeOK
<1>14. CallsConsistent'
  BY <1>2, <1>11, <1>12 DEF CallsConsistent
<1>15. OwnersDiffer'
  <2>1. \A d \in Calls : call'[d].report \in {None, call[d].report}
    BY <1>11, <1>12 DEF k
  <2> QED
    BY <2>1 DEF IInv, OwnersDiffer
<1>16. ReportsCounted'
  <2>1. Owed' \subseteq Owed
    BY <1>11, <1>12 DEF Owed
  <2>2. IsFiniteSet(Owed') /\ Cardinality(Owed') <= Cardinality(Owed)
    BY <2>1, FS_Subset DEF IInv, ReportsCounted
  <2>3. Cardinality(Owed') \in Nat /\ Cardinality(Owed) \in Nat
    BY <2>2, FS_CardinalityType DEF IInv, ReportsCounted
  <2> QED
    BY <1>2, <2>2, <2>3, Parts, BoundsTyped DEF IInv, ReportsCounted
<1>17. DuplicatesAreRaces'
  BY <1>2 DEF IInv, DuplicatesAreRaces
<1> QED
  BY <1>9, <1>10, <1>13, <1>14, <1>15, <1>16, <1>17 DEF IInv

-----------------------------------------------------------------------------
\* Products are monotonic, and distribute over one more.
LEMMA Products ==
  ASSUME NEW a \in Nat, NEW i \in Nat, NEW j \in Nat, i <= j
  PROVE  a * i \in Nat /\ a * i <= a * j /\ a * (i + 1) = a * i + a
  OBVIOUS

\* As long as a report is owed there is room for it.
LEMMA RoomForOwed ==
  ASSUME IInv, NEW o \in Owed
  PROVE  Len(reports) + 1 <= MaxReports
<1> DEFINE K == Cardinality(Known)
           n == Len(reports)
           owed == Cardinality(Owed)
<1>1. /\ IsFiniteSet(Owed) /\ n + owed <= requests + K * jobs
      /\ jobs \in 0..MaxJobs /\ requests \in 0..MaxRequests
      /\ n \in Nat /\ K \in Nat /\ MaxJobs \in Nat /\ MaxRequests \in Nat
      /\ MaxReports = MaxRequests + K * MaxJobs
  BY Parts, BoundsTyped DEF IInv, ReportsCounted, MaxReports
<1>2. owed \in Nat /\ owed # 0
  BY <1>1, FS_CardinalityType, FS_EmptySet
<1> HIDE DEF K, n, owed
<1>3. jobs \in Nat /\ jobs <= MaxJobs /\ requests \in Nat /\ requests <= MaxRequests
  BY <1>1
<1>4. K * jobs <= K * MaxJobs /\ K * jobs \in Nat /\ K * MaxJobs \in Nat
  BY <1>1, <1>3, Products
<1> DEFINE spent == K * jobs
           limit == K * MaxJobs
<1>5. n + owed <= requests + spent /\ spent <= limit /\ spent \in Nat /\ limit \in Nat
      /\ MaxReports = MaxRequests + limit
  BY <1>1, <1>4
<1> HIDE DEF spent, limit
<1>6. n + 1 <= MaxRequests + limit
  BY <1>1, <1>2, <1>3, <1>5
<1> QED
  BY <1>5, <1>6 DEF n

\* A call that begins adds what it may create to what its request or job accounts for.
LEMMA BeginStep ==
  ASSUME IInv, NEW c \in Calls, call[c].stage = "idle",
         NEW k2 \in Call, call' = [call EXCEPT ![c] = k2], k2.report = None,
         Consistent(k2, reports, aged, invalidated),
         UNCHANGED <<reports, aged, cache, failures, invalidated>>,
         \/ /\ jobs < MaxJobs /\ jobs' = jobs + 1 /\ UNCHANGED requests
         \/ /\ requests < MaxRequests /\ requests' = requests + 1 /\ UNCHANGED jobs
            /\ \A client \in Known : MayCreate(k2, client) => client = k2.client
  PROVE  IInv'
<1> DEFINE K == Cardinality(Known)
<1>1. /\ call \in [Calls -> Call] /\ ReportsCounted /\ IsFiniteSet(Known)
      /\ jobs \in 0..MaxJobs /\ requests \in 0..MaxRequests /\ Len(reports) \in Nat
      /\ K \in Nat /\ MaxJobs \in Nat /\ MaxRequests \in Nat
  BY Parts, BoundsTyped, ConstantsAssumption DEF IInv
<1>2. /\ IsFiniteSet(Owed) /\ Cardinality(Owed) \in Nat
      /\ Len(reports) + Cardinality(Owed) <= requests + K * jobs
  BY <1>1, FS_CardinalityType DEF ReportsCounted
<1>3. \A T : IsFiniteSet(T) /\ Owed' \subseteq Owed \cup T
         => IsFiniteSet(Owed') /\ Cardinality(Owed') \in Nat
            /\ Cardinality(Owed') <= Cardinality(Owed) + Cardinality(T)
  <2> SUFFICES ASSUME NEW T, IsFiniteSet(T), Owed' \subseteq Owed \cup T
               PROVE  IsFiniteSet(Owed') /\ Cardinality(Owed') \in Nat
                      /\ Cardinality(Owed') <= Cardinality(Owed) + Cardinality(T)
    OBVIOUS
  <2>1. /\ IsFiniteSet(Owed \cup T)
        /\ Cardinality(Owed \cup T) = Cardinality(Owed) + Cardinality(T) - Cardinality(Owed \cap T)
    BY <1>2, FS_Union
  <2>2. IsFiniteSet(Owed') /\ Cardinality(Owed') <= Cardinality(Owed \cup T)
    BY <2>1, FS_Subset
  <2>3. IsFiniteSet(Owed \cap T)
    BY <1>2, FS_Intersection
  <2>4. /\ Cardinality(T) \in Nat /\ Cardinality(Owed \cap T) \in Nat
        /\ Cardinality(Owed') \in Nat /\ Cardinality(Owed \cup T) \in Nat
    BY <2>1, <2>2, <2>3, FS_CardinalityType
  <2> QED
    BY <1>2, <2>1, <2>2, <2>4
<1>4. ReportsCounted'
  <2>1. CASE jobs < MaxJobs /\ jobs' = jobs + 1 /\ UNCHANGED requests
    <3>1. IsFiniteSet({c} \X Known) /\ Cardinality({c} \X Known) = K
      <4>1. IsFiniteSet({c}) /\ Cardinality({c}) = 1
        BY FS_Singleton
      <4>2. IsFiniteSet({c} \X Known) /\ Cardinality({c} \X Known) = Cardinality({c}) * K
        BY <1>1, <4>1, FS_Product
      <4> QED
        BY <1>1, <4>1, <4>2
    <3>2. Owed' \subseteq Owed \cup ({c} \X Known)
      BY <1>1 DEF Owed
    <3>3. IsFiniteSet(Owed') /\ Cardinality(Owed') \in Nat /\ Cardinality(Owed') <= Cardinality(Owed) + K
      BY <1>3, <3>1, <3>2
    <3>4. K * jobs' = K * jobs + K /\ K * jobs \in Nat
      BY <1>1, <2>1, Products
    <3> HIDE DEF K
    <3>5. Len(reports) + Cardinality(Owed') <= requests + K * jobs'
      BY <1>1, <1>2, <3>3, <3>4
    <3> QED
      BY <2>1, <3>3, <3>5 DEF ReportsCounted, K
  <2>2. CASE /\ requests < MaxRequests /\ requests' = requests + 1 /\ UNCHANGED jobs
             /\ \A client \in Known : MayCreate(k2, client) => client = k2.client
    <3>1. IsFiniteSet({<<c, k2.client>>}) /\ Cardinality({<<c, k2.client>>}) = 1
      BY FS_Singleton
    <3>2. Owed' \subseteq Owed \cup {<<c, k2.client>>}
      BY <1>1, <2>2 DEF Owed
    <3>3. IsFiniteSet(Owed') /\ Cardinality(Owed') \in Nat /\ Cardinality(Owed') <= Cardinality(Owed) + 1
      BY <1>3, <3>1, <3>2
    <3>4. K * jobs \in Nat
      BY <1>1, Products
    <3> HIDE DEF K
    <3>5. Len(reports) + Cardinality(Owed') <= requests' + K * jobs
      BY <1>1, <1>2, <2>2, <3>3, <3>4
    <3> QED
      BY <2>2, <3>3, <3>5 DEF ReportsCounted, K
  <2> QED
    BY <2>1, <2>2
<1>5. jobs' \in 0..MaxJobs /\ requests' \in 0..MaxRequests
  BY <1>1
<1>6. StaleResponsesExplained'
  BY DEF IInv, StaleResponsesExplained, Cached
<1> QED
  BY <1>4, <1>5, <1>6, CallStep, Parts

\* A run of the job or a request begins.
LEMMA BeginIInv ==
  ASSUME IInv, NEW c \in Calls, Begin(c)
  PROVE  IInv'
<1> DEFINE k == call[c]
<1>1. k \in Call /\ Consistent(k, reports, aged, invalidated) /\ call \in [Calls -> Call]
  BY Parts
<1>2. k.stage = "idle"
  BY DEF Begin, RunClientReportGenerationJob, CheckerManualTrigger, PostClientReport, GetClientReport, Free
<1>3. /\ k.report = None /\ k.result = None /\ k.kind = "get"
  BY <1>1, <1>2 DEF Consistent, Empty, NoCall
<1>4. Len(reports) \in Nat /\ None \in 0..Len(reports)
  BY Parts DEF None
<1>5. CASE RunClientReportGenerationJob(c)
  <2> DEFINE k2 == [k EXCEPT !.stage = "listing", !.kind = "job"]
  <2>1. call' = [call EXCEPT ![c] = k2]
    BY <1>1, <1>5 DEF RunClientReportGenerationJob
  <2>2. k2.stage = "listing" /\ k2.kind = "job" /\ k2.report = None /\ k2.result = None
    BY <1>1, <1>3 DEF Call
  <2>3. k2 \in Call
    BY <1>1 DEF Call, Stages
  <2> HIDE DEF k2
  <2>4. Consistent(k2, reports, aged, invalidated)
    BY <1>4, <2>2 DEF Consistent, KindFits, Empty, Generates, Loops, Looked, Fresh, AtLoop
  <2> QED
    BY <1>2, <1>5, <2>1, <2>2, <2>3, <2>4, BeginStep DEF RunClientReportGenerationJob
<1>6. CASE CheckerManualTrigger(c)
  <2>1. CASE \E client \in Clients : call' = [call EXCEPT ![c].stage = "looking", ![c].kind = "trigger",
                                                          ![c].client = client]
    <3>1. PICK client \in Clients : call' = [call EXCEPT ![c].stage = "looking", ![c].kind = "trigger",
                                                         ![c].client = client]
      BY <2>1
    <3> DEFINE k2 == [k EXCEPT !.stage = "looking", !.kind = "trigger", !.client = client]
    <3>2. call' = [call EXCEPT ![c] = k2]
      BY <1>1, <3>1
    <3>3. k2.stage = "looking" /\ k2.kind = "trigger" /\ k2.report = None /\ k2.result = None
      BY <1>1, <1>3 DEF Call
    <3>4. k2 \in Call
      BY <1>1 DEF Call, Stages
    <3> HIDE DEF k2
    <3>5. Consistent(k2, reports, aged, invalidated)
      BY <1>4, <3>3 DEF Consistent, KindFits, Empty, Generates, Loops, Looked, Fresh, AtLoop
    <3>6. \A d \in Known : MayCreate(k2, d) => d = k2.client
      BY <3>3 DEF MayCreate
    <3> QED
      BY <1>2, <1>6, <3>2, <3>3, <3>4, <3>5, <3>6, BeginStep DEF CheckerManualTrigger
  <2>2. CASE call' = [call EXCEPT ![c].stage = "answering", ![c].kind = "trigger"]
    <3> DEFINE k2 == [k EXCEPT !.stage = "answering", !.kind = "trigger"]
    <3>1. call' = [call EXCEPT ![c] = k2]
      BY <1>1, <2>2
    <3>2. k2.stage = "answering" /\ k2.kind = "trigger" /\ k2.report = None /\ k2.result = None
      BY <1>1, <1>3 DEF Call
    <3>3. k2 \in Call
      BY <1>1 DEF Call, Stages
    <3> HIDE DEF k2
    <3>4. Consistent(k2, reports, aged, invalidated)
      BY <1>4, <3>2 DEF Consistent, KindFits, Empty, Generates, Loops, Looked, Fresh, AtLoop
    <3>5. \A d \in Known : MayCreate(k2, d) => d = k2.client
      BY <3>2 DEF MayCreate
    <3> QED
      BY <1>2, <1>6, <3>1, <3>2, <3>3, <3>4, <3>5, BeginStep DEF CheckerManualTrigger
  <2> QED
    BY <1>6, <2>1, <2>2 DEF CheckerManualTrigger
<1>7. CASE PostClientReport(c)
  <2>1. PICK client \in Clients, name \in Names :
           call' = [call EXCEPT ![c].stage = "generating", ![c].kind = "post",
                                ![c].client = client, ![c].name = name]
    BY <1>7 DEF PostClientReport
  <2> DEFINE k2 == [k EXCEPT !.stage = "generating", !.kind = "post", !.client = client, !.name = name]
  <2>2. call' = [call EXCEPT ![c] = k2]
    BY <1>1, <2>1
  <2>3. k2.stage = "generating" /\ k2.kind = "post" /\ k2.report = None /\ k2.result = None
    BY <1>1, <1>3 DEF Call
  <2>4. k2 \in Call
    BY <1>1 DEF Call, Stages
  <2> HIDE DEF k2
  <2>5. Consistent(k2, reports, aged, invalidated)
    BY <1>4, <2>3 DEF Consistent, KindFits, Empty, Generates, Loops, Looked, Fresh, AtLoop
  <2>6. \A d \in Known : MayCreate(k2, d) => d = k2.client
    BY <2>3 DEF MayCreate
  <2> QED
    BY <1>2, <1>7, <2>2, <2>3, <2>4, <2>5, <2>6, BeginStep DEF PostClientReport
<1>8. CASE GetClientReport(c)
  <2>1. PICK url \in Urls :
           call' = [call EXCEPT ![c].stage = "querying", ![c].kind = "get",
                                ![c].client = url.client, ![c].name = url.name,
                                ![c].route = url.route]
    BY <1>8 DEF GetClientReport
  <2> DEFINE k2 == [k EXCEPT !.stage = "querying", !.kind = "get", !.client = url.client,
                             !.name = url.name, !.route = url.route]
  <2>2. call' = [call EXCEPT ![c] = k2]
    BY <1>1, <2>1
  <2>3. /\ k2.stage = "querying" /\ k2.kind = "get" /\ k2.report = None /\ k2.result = None
        /\ k2.client = url.client
    BY <1>1, <1>3 DEF Call
  <2>4. /\ url.client \in Known /\ url.client \in Clients
        /\ url.name \in Names /\ url.route \in Routes
    BY ConstantsAssumption DEF Urls
  <2>5. k2 \in Call
    BY <1>1, <2>4 DEF Call, Stages
  <2> HIDE DEF k2
  <2>6. Consistent(k2, reports, aged, invalidated)
    BY <1>4, <2>3, <2>4 DEF Consistent, KindFits, Empty, Generates, Loops, Looked, Fresh, AtLoop
  <2>7. \A d \in Known : MayCreate(k2, d) => d = k2.client
    BY <2>3 DEF MayCreate
  <2> QED
    BY <1>2, <1>8, <2>2, <2>3, <2>5, <2>6, <2>7, BeginStep DEF GetClientReport
<1> QED
  BY <1>5, <1>6, <1>7, <1>8 DEF Begin

-----------------------------------------------------------------------------
\* A report is created: it was owed, it is the only one its call stores checks of, and a
\* trigger's is recent to none it had seen.
LEMMA CreateReportIInv ==
  ASSUME IInv, NEW c \in Calls, CreateReport(c)
  PROVE  IInv'
<1> DEFINE k == call[c]
           n == Len(reports)
           trigger == k.kind = "trigger"
           seen == IF trigger THEN k.seen ELSE 0
           recent == IF trigger THEN LatestRecent(k.client) ELSE None
           row == [client |-> k.client, checks |-> 0, by |-> k.kind,
                   seen |-> seen, recent |-> recent]
           k2 == [k EXCEPT !.stage = "checking", !.report = n + 1]
<1>1. /\ k \in Call /\ Consistent(k, reports, aged, invalidated) /\ call \in [Calls -> Call]
      /\ reports \in Seq(Row) /\ n \in Nat /\ aged \in Nat /\ aged \in 0..n
  BY Parts
<1>2. /\ k.stage = "generating" /\ k.client \in Known
      /\ reports' = Append(reports, row)
      /\ UNCHANGED <<aged, cache, jobs, requests, failures, invalidated>>
  BY DEF CreateReport
<1>3. call' = [call EXCEPT ![c] = k2]
  BY <1>1 DEF CreateReport
<1>4. /\ k2.stage = "checking" /\ k2.kind = k.kind /\ k2.client = k.client /\ k2.todo = k.todo
      /\ k2.seen = k.seen /\ k2.failed = k.failed /\ k2.report = n + 1 /\ k2.result = k.result
  BY <1>1 DEF Call
<1>5. /\ k.kind \in {"job", "post", "trigger"} /\ k.report = None /\ k.result = None
      /\ k.kind = "job" => k.client \in k.todo /\ k.seen <= n
  BY <1>1, <1>2 DEF Consistent, KindFits, Empty, Loops, AtLoop
<1> DEFINE o == <<c, k.client>>
<1>6. o \in Owed
  BY <1>2, <1>5 DEF Owed, MayCreate
<1>7. n + 1 <= MaxReports /\ n + 1 \in 0..MaxReports
  <2>1. n + 1 <= MaxReports
    BY <1>6, RoomForOwed
  <2> QED
    BY <1>1, <2>1, BoundsTyped
<1>8. k2 \in Call
  <2>1. "checking" \in Stages
    BY DEF Stages
  <2> HIDE DEF k, n
  <2> QED
    BY <1>1, <1>7, <2>1 DEF Call
<1>9. LatestRecent(k.client) \in 0..n
      /\ (LatestRecent(k.client) # None => /\ LatestRecent(k.client) \in 1..n
                                           /\ reports[LatestRecent(k.client)].client = k.client
                                           /\ LatestRecent(k.client) > aged)
  <2>1. /\ LatestRecent(k.client) \in 0..n
        /\ LatestRecent(k.client) # None => /\ reports[LatestRecent(k.client)].client = k.client
                                            /\ LatestRecent(k.client) > aged
    BY <1>1, LatestRecentOfClient
  <2> QED
    BY <1>1, <2>1 DEF None
<1>10. /\ row \in Row /\ row.recent = recent /\ row.seen = seen
       /\ row.client = k.client /\ row.by = k.kind /\ row.checks = 0
  <2>1. 0 \in 0..NumChecks /\ 0 \in 0..MaxReports /\ k.seen \in 0..MaxReports
    BY <1>1, BoundsTyped, ConstantsAssumption DEF Call
  <2>2. LatestRecent(k.client) \in 0..MaxReports
    BY <1>1, <1>7, <1>9, BoundsTyped
  <2>3. seen \in 0..MaxReports /\ recent \in 0..MaxReports
    BY <2>1, <2>2 DEF None
  <2> HIDE DEF seen, recent
  <2> QED
    BY <1>2, <1>5, <2>1, <2>3 DEF Row
<1> HIDE DEF row, k2, seen, recent
<1>11. /\ reports' \in Seq(Row) /\ Len(reports') = n + 1
       /\ \A i \in 1..n : reports'[i] = reports[i]
       /\ reports'[n + 1] = row /\ n + 1 \in 1..Len(reports')
  <2>1. /\ reports' \in Seq(Row) /\ Len(reports') = n + 1
        /\ \A i \in 1..n : reports'[i] = reports[i]
        /\ reports'[n + 1] = row
    BY <1>1, <1>2, <1>10, AppendProperties
  <2> QED
    BY <1>1, <2>1
<1>12. TypeOK'
  <2>1. aged' \in 0..Len(reports')
    BY <1>1, <1>2, <1>11
  <2>2. call' \in [Calls -> Call]
    BY <1>1, <1>3, <1>8
  <2> QED
    BY <1>2, <1>7, <1>11, <2>1, <2>2, Parts DEF TypeOK
<1>13. \A d \in Calls : Consistent(call[d], reports', aged, invalidated)
  <2> SUFFICES ASSUME NEW d \in Calls PROVE Consistent(call[d], reports', aged, invalidated)
    OBVIOUS
  <2> DEFINE l == call[d]
  <2>1. l \in Call /\ Consistent(l, reports, aged, invalidated)
    BY Parts
  <2>2. l.stage = "checking" => l.report \in 1..n
    BY <2>1 DEF Consistent, Generates, Own
  <2>3. l.stage = "checking" => reports'[l.report].checks = reports[l.report].checks
    BY <1>11, <2>2
  <2>4. \A i \in 1..n : /\ reports'[i].client = reports[i].client
                        /\ reports'[i].by = reports[i].by
                        /\ reports[i].checks = NumChecks => reports'[i].checks = NumChecks
    BY <1>11
  <2>5. n <= Len(reports') /\ aged <= aged
    BY <1>1, <1>11
  <2> HIDE DEF l
  <2> QED
    BY <1>1, <1>11, <2>1, <2>3, <2>4, <2>5, ConsistentKept DEF l
<1>14. Consistent(k2, reports', aged, invalidated)
  <2>1. Consistent(k, reports', aged, invalidated)
    BY <1>13
  <2>2. Own(k2, reports') /\ reports'[k2.report].checks = 0
    <3>1. reports'[n + 1].client = k.client /\ reports'[n + 1].by = k.kind /\ reports'[n + 1].checks = 0
      BY <1>10, <1>11
    <3> HIDE DEF n, k
    <3> QED
      BY <1>4, <1>11, <3>1 DEF Own
  <2>3. NumChecks > 0
    BY ConstantsAssumption
  <2>4. KindFits(k2) /\ Empty(k2)
    BY <1>4, <1>5 DEF KindFits, Empty
  <2>5. Generates(k2, reports')
    <3>1. k2.report \in 0..Len(reports')
      BY <1>1, <1>4, <1>11
    <3> QED
      BY <1>4, <2>2, <2>3, <3>1 DEF Generates
  <2>6. Loops(k2, reports')
    <3>1. SUFFICES ASSUME k.kind = "job" PROVE Loops(k2, reports')
      BY <1>4 DEF Loops
    <3>2. Accounted(k, reports') /\ k.seen <= n /\ k.client \in k.todo
      BY <1>2, <1>5, <2>1, <3>1 DEF Consistent, Loops, AtLoop
    <3>3. Accounted(k2, reports')
      BY <1>4, <3>2 DEF Accounted
    <3>4. k.seen \in Nat
      BY <1>1, BoundsTyped DEF Call
    <3>5. k2.seen <= Len(reports') /\ k2.report > k2.seen
      BY <1>1, <1>4, <1>11, <3>2, <3>4
    <3> QED
      BY <1>4, <3>2, <3>3, <3>5 DEF Loops
  <2> QED
    BY <1>4, <2>4, <2>5, <2>6 DEF Consistent, Looked, Fresh
<1>15. call'[c] = k2 /\ \A d \in Calls : d # c => call'[d] = call[d]
  BY <1>1, <1>3
<1>16. CallsConsistent'
  BY <1>2, <1>13, <1>14, <1>15 DEF CallsConsistent
<1>17. OwnersDiffer'
  <2>1. \A d \in Calls : call[d].report \in 0..n
    BY Parts DEF Consistent, Generates
  <2>2. \A d \in Calls : call[d].report # n + 1
    BY <1>1, <2>1
  <2> QED
    BY <1>4, <1>15, <2>2 DEF IInv, OwnersDiffer
<1>18. ReportsCounted'
  <2>1. Owed' \subseteq Owed \ {o}
    <3>1. \A client \in Known : MayCreate(k2, client) => MayCreate(k, client) /\ client # k.client
      BY <1>2, <1>4 DEF MayCreate
    <3> QED
      BY <1>15, <3>1 DEF Owed
  <2>2. IsFiniteSet(Owed) /\ n + Cardinality(Owed) <= requests + Cardinality(Known) * jobs
    BY DEF IInv, ReportsCounted
  <2>3. IsFiniteSet(Owed \ {o}) /\ Cardinality(Owed \ {o}) = Cardinality(Owed) - 1
    BY <1>6, <2>2, FS_RemoveElement
  <2>4. IsFiniteSet(Owed') /\ Cardinality(Owed') <= Cardinality(Owed \ {o})
    BY <2>1, <2>3, FS_Subset
  <2>5. Cardinality(Owed') \in Nat /\ Cardinality(Owed) \in Nat
    BY <2>2, <2>4, FS_CardinalityType
  <2> DEFINE limit == requests + Cardinality(Known) * jobs
             owed == Cardinality(Owed)
             owed2 == Cardinality(Owed')
  <2>6. limit \in Int /\ n + owed <= limit /\ owed2 <= owed - 1 /\ owed \in Nat /\ owed2 \in Nat
    <3>1. Cardinality(Known) * jobs \in Nat /\ requests \in Nat
      BY Parts, BoundsTyped, Products
    <3> QED
      BY <2>2, <2>3, <2>4, <2>5, <3>1
  <2>7. Len(reports') + owed2 <= limit
    <3> HIDE DEF limit, owed, owed2, n
    <3> QED
      BY <1>1, <1>11, <2>6
  <2> QED
    BY <1>2, <2>4, <2>7 DEF ReportsCounted
<1>19. DuplicatesAreRaces'
  <2>1. ASSUME NEW i \in 1..(n + 1)
        PROVE  reports'[i].recent = None \/ reports'[i].recent > reports'[i].seen
    <3>1. CASE i \in 1..n
      BY <1>1, <1>11, <3>1 DEF IInv, DuplicatesAreRaces
    <3>2. recent = None \/ recent > seen
      <4>1. CASE trigger /\ LatestRecent(k.client) # None
        <5>1. LatestRecent(k.client) > k.seen
          BY <1>1, <1>2, <1>9, <4>1 DEF Consistent, Looked
        <5> QED
          BY <4>1, <5>1 DEF seen, recent
      <4> QED
        BY <4>1 DEF seen, recent
    <3>3. CASE i = n + 1
      <4>1. reports'[i].recent = recent /\ reports'[i].seen = seen
        BY <1>10, <1>11, <3>3
      <4> QED
        BY <3>2, <4>1
    <3> QED
      BY <1>1, <3>1, <3>3
  <2> QED
    BY <1>11, <2>1 DEF DuplicatesAreRaces
<1>20. InvalidatedExists' /\ StaleResponsesExplained'
  BY <1>1, <1>2, <1>11 DEF IInv, InvalidatedExists, StaleResponsesExplained, Cached
<1> QED
  BY <1>12, <1>16, <1>17, <1>18, <1>19, <1>20 DEF IInv

\* One more check is stored, of a report that no other call is at.
LEMMA StoreReportCheckIInv ==
  ASSUME IInv, NEW c \in Calls, StoreReportCheck(c)
  PROVE  IInv'
<1> DEFINE k == call[c]
           n == Len(reports)
           r == k.report
           stored == reports[r].checks + 1
           row == [reports[r] EXCEPT !.checks = stored]
           k2 == [k EXCEPT !.stage = IF stored = NumChecks THEN "reading" ELSE "checking"]
<1>1. /\ k \in Call /\ Consistent(k, reports, aged, invalidated) /\ call \in [Calls -> Call]
      /\ reports \in Seq(Row) /\ n \in Nat /\ aged \in Nat /\ aged \in 0..n
  BY Parts
<1>2. /\ k.stage = "checking"
      /\ UNCHANGED <<aged, cache, jobs, requests, failures, invalidated>>
  BY DEF StoreReportCheck
<1>3. /\ Own(k, reports) /\ reports[r].checks < NumChecks
      /\ k.kind \in {"job", "post", "trigger"} /\ k.result = None
      /\ r \in 1..n /\ r # None
  <2>1. /\ Own(k, reports) /\ reports[r].checks < NumChecks
        /\ k.kind \in {"job", "post", "trigger"} /\ k.result = None
    BY <1>1, <1>2 DEF Consistent, KindFits, Empty, Generates
  <2> QED
    BY <1>1, <2>1 DEF Own, None
<1>4. reports' = [reports EXCEPT ![r] = row] /\ call' = [call EXCEPT ![c] = k2]
  BY <1>1, <1>3 DEF StoreReportCheck, Goto
<1>5. reports[r] \in Row /\ reports[r].checks \in 0..NumChecks /\ NumChecks \in Nat
  BY <1>3, RowTyped, ConstantsAssumption
<1>6. /\ row \in Row /\ row.client = reports[r].client /\ row.by = reports[r].by
      /\ row.checks = stored /\ row.seen = reports[r].seen /\ row.recent = reports[r].recent
  <2>1. stored \in 0..NumChecks
    BY <1>3, <1>5
  <2> HIDE DEF stored
  <2> QED
    BY <1>5, <2>1 DEF Row
<1>7. /\ k2.stage = (IF stored = NumChecks THEN "reading" ELSE "checking") /\ k2.kind = k.kind
      /\ k2.client = k.client /\ k2.todo = k.todo /\ k2.seen = k.seen /\ k2.failed = k.failed
      /\ k2.report = r /\ k2.result = k.result
  BY <1>1 DEF Call
<1>8. k2 \in Call
  <2>1. (IF stored = NumChecks THEN "reading" ELSE "checking") \in Stages
    BY DEF Stages
  <2> HIDE DEF k, stored
  <2> QED
    BY <1>1, <2>1 DEF Call
<1> HIDE DEF row, k2
<1>9. /\ reports' \in Seq(Row) /\ Len(reports') = n
      /\ reports'[r] = row /\ \A i \in 1..n : i # r => reports'[i] = reports[i]
  BY <1>1, <1>3, <1>4, <1>6, ExceptSeq
<1>10. \A i \in 1..n : /\ reports'[i].client = reports[i].client
                       /\ reports'[i].by = reports[i].by
                       /\ reports'[i].seen = reports[i].seen
                       /\ reports'[i].recent = reports[i].recent
                       /\ reports[i].checks = NumChecks => reports'[i].checks = NumChecks
  <2>1. reports[r].checks # NumChecks
    BY <1>3, <1>5
  <2> HIDE DEF r, stored
  <2> QED
    BY <1>6, <1>9, <2>1
<1>11. TypeOK'
  <2>1. call' \in [Calls -> Call]
    BY <1>1, <1>4, <1>8
  <2> QED
    BY <1>1, <1>2, <1>9, <2>1, Parts DEF TypeOK
<1>12. ASSUME NEW d \in Calls, d # c
       PROVE  Consistent(call[d], reports', aged, invalidated)
  <2> DEFINE l == call[d]
  <2>1. l \in Call /\ Consistent(l, reports, aged, invalidated)
    BY Parts
  <2>2. l.stage = "checking" => l.report \in 1..n
    BY <2>1 DEF Consistent, Generates, Own
  <2>3. l.report # r
    BY <1>3, <1>12 DEF IInv, OwnersDiffer
  <2>4. l.stage = "checking" => reports'[l.report].checks = reports[l.report].checks
    BY <1>9, <2>2, <2>3
  <2>5. n <= Len(reports') /\ aged <= aged
    BY <1>1, <1>9
  <2> HIDE DEF l
  <2> QED
    BY <1>1, <1>9, <1>10, <2>1, <2>4, <2>5, ConsistentKept DEF l
<1>13. Consistent(k2, reports', aged, invalidated)
  <2>1. Own(k2, reports') /\ reports'[k2.report].checks = stored
    BY <1>3, <1>6, <1>7, <1>9, <1>10 DEF Own
  <2>2. KindFits(k2) /\ Empty(k2)
    BY <1>3, <1>7 DEF KindFits, Empty
  <2>3. Generates(k2, reports')
    <3>1. k2.report \in 0..Len(reports')
      BY <1>3, <1>7, <1>9
    <3>2. stored # NumChecks => stored < NumChecks
      BY <1>3, <1>5
    <3> HIDE DEF stored
    <3> QED
      BY <1>7, <2>1, <3>1, <3>2 DEF Generates
  <2>4. Loops(k2, reports')
    <3>1. SUFFICES ASSUME k.kind = "job" PROVE Loops(k2, reports')
      BY <1>7 DEF Loops
    <3>2. Accounted(k, reports) /\ k.seen <= n /\ k.client \in k.todo /\ r > k.seen
      BY <1>1, <1>2, <3>1 DEF Consistent, Loops, AtLoop
    <3>3. k.seen \in Nat
      BY <1>1, BoundsTyped DEF Call
    <3>4. \A i \in (k.seen + 1)..n : i \in 1..n
      BY <1>1, <3>3
    <3>5. Accounted(k2, reports')
      BY <1>7, <1>9, <1>10, <3>2, <3>4 DEF Accounted
    <3> QED
      BY <1>7, <1>9, <3>2, <3>5 DEF Loops
  <2> QED
    BY <1>7, <2>2, <2>3, <2>4 DEF Consistent, Looked, Fresh
<1>14. call'[c] = k2 /\ \A d \in Calls : d # c => call'[d] = call[d]
  BY <1>1, <1>4
<1>15. CallsConsistent'
  BY <1>2, <1>12, <1>13, <1>14 DEF CallsConsistent
<1>16. OwnersDiffer'
  BY <1>7, <1>14 DEF IInv, OwnersDiffer
<1>17. ReportsCounted'
  <2>1. \A client \in Known : MayCreate(k2, client) => MayCreate(k, client)
    BY <1>2, <1>7 DEF MayCreate
  <2>2. Owed' \subseteq Owed
    BY <1>14, <2>1 DEF Owed
  <2>3. IsFiniteSet(Owed') /\ Cardinality(Owed') <= Cardinality(Owed)
    BY <2>2, FS_Subset DEF IInv, ReportsCounted
  <2>4. Cardinality(Owed') \in Nat /\ Cardinality(Owed) \in Nat
    BY <2>3, FS_CardinalityType DEF IInv, ReportsCounted
  <2>5. requests + Cardinality(Known) * jobs \in Nat
        /\ n + Cardinality(Owed) <= requests + Cardinality(Known) * jobs
    <3>1. Cardinality(Known) * jobs \in Nat /\ requests \in Nat
      BY Parts, BoundsTyped, Products
    <3> QED
      BY <3>1 DEF IInv, ReportsCounted
  <2>6. n + Cardinality(Owed') <= requests + Cardinality(Known) * jobs
    <3> DEFINE limit == requests + Cardinality(Known) * jobs
               owed == Cardinality(Owed)
               owed2 == Cardinality(Owed')
    <3>1. limit \in Nat /\ n + owed <= limit /\ owed2 <= owed /\ owed \in Nat /\ owed2 \in Nat
      BY <2>3, <2>4, <2>5
    <3> HIDE DEF limit, owed, owed2, n
    <3>2. n + owed2 <= limit
      BY <1>1, <3>1
    <3> QED
      BY <3>2 DEF limit, owed2
  <2> QED
    BY <1>2, <1>9, <2>3, <2>6 DEF ReportsCounted
<1>18. DuplicatesAreRaces'
  BY <1>1, <1>9, <1>10 DEF IInv, DuplicatesAreRaces
<1>19. InvalidatedExists' /\ StaleResponsesExplained'
  BY <1>2, <1>9, <1>10 DEF IInv, InvalidatedExists, StaleResponsesExplained, Cached
<1> QED
  BY <1>11, <1>15, <1>16, <1>17, <1>18, <1>19 DEF IInv

-----------------------------------------------------------------------------
\* A failure takes a call to where its handler catches it.
LEMMA FailIInv ==
  ASSUME IInv, NEW c \in Calls, Fail(c)
  PROVE  IInv'
<1>1. /\ call[c].stage \notin {"idle", "next", "answering"}
      /\ UNCHANGED <<reports, aged, cache, jobs, requests, invalidated>>
  BY DEF Fail
<1>2. failures' \in 0..MaxFailures
  BY Parts, BoundsTyped DEF Fail
<1>3. call[c] \in Call /\ KindFits(call[c])
  BY Parts DEF Consistent
<1>4. CASE Leave(c)
  BY <1>1, <1>2, <1>4, LeaveIInv
<1>5. CASE call[c].kind = "job" /\ call[c].stage # "listing" /\ NextApplication(c, FALSE)
  <2>1. call[c].stage \in {"generating", "checking", "reading"}
    BY <1>1, <1>3, <1>5 DEF KindFits, Call, Stages
  <2> QED
    BY <1>1, <1>2, <1>5, <2>1, NextApplicationIInv
<1>6. CASE call[c].kind = "trigger" /\ Goto(c, "answering")
  <2>1. call[c].stage \in {"looking", "generating", "checking", "reading"}
    BY <1>1, <1>3, <1>6 DEF KindFits, Call, Stages
  <2> QED
    BY <1>1, <1>2, <1>6, <2>1, AnswerIInv
<1> QED
  BY <1>4, <1>5, <1>6 DEF Fail

\* Calls and cache are gone: nothing is owed any more, and the tables remain.
LEMMA CrashIInv ==
  ASSUME IInv, Crash
  PROVE  IInv'
<1>1. /\ call' = [c \in Calls |-> NoCall]
      /\ cache' = [u \in Urls |-> NotCached]
      /\ UNCHANGED <<reports, aged, jobs, requests, invalidated>>
  BY DEF Crash
<1>2. failures' \in 0..MaxFailures
  BY Parts, BoundsTyped DEF Crash
<1>3. TypeOK'
  BY <1>1, <1>2, NoCallTyped, Parts DEF TypeOK
<1>4. Consistent(NoCall, reports, aged, invalidated)
  BY Parts DEF NoCall, Consistent, KindFits, Empty, Generates, Loops, Looked, Fresh, None, AtLoop
<1>5. NoCall.report = None /\ \A client \in Known : ~MayCreate(NoCall, client)
  BY DEF MayCreate, NoCall
<1>6. CallsConsistent' /\ OwnersDiffer'
  BY <1>1, <1>4, <1>5 DEF CallsConsistent, OwnersDiffer
<1>7. ReportsCounted'
  <2>1. Owed' = {}
    BY <1>1, <1>5 DEF Owed
  <2>2. IsFiniteSet(Owed') /\ Cardinality(Owed') = 0
    BY <2>1, FS_EmptySet
  <2>3. Cardinality(Owed) \in Nat /\ Len(reports) + Cardinality(Owed) <= requests + Cardinality(Known) * jobs
    BY FS_CardinalityType DEF IInv, ReportsCounted
  <2>4. requests + Cardinality(Known) * jobs \in Nat /\ Len(reports) \in Nat
    BY Parts, BoundsTyped, Products
  <2> QED
    BY <1>1, <2>2, <2>3, <2>4 DEF ReportsCounted
<1>8. DuplicatesAreRaces' /\ InvalidatedExists'
  BY <1>1 DEF IInv, DuplicatesAreRaces, InvalidatedExists
<1>9. StaleResponsesExplained'
  BY <1>1 DEF StaleResponsesExplained, Cached
<1> QED
  BY <1>3, <1>6, <1>7, <1>8, <1>9 DEF IInv

\* A cached response expires.
LEMMA ExpireIInv ==
  ASSUME IInv, Expire
  PROVE  IInv'
<1>1. PICK url \in Urls : cache' = [cache EXCEPT ![url] = NotCached]
  BY DEF Expire
<1>2. UNCHANGED <<reports, aged, call, jobs, requests, failures, invalidated>>
  BY DEF Expire
<1>3. TypeOK'
  BY <1>1, <1>2, Parts DEF TypeOK
<1>4. StaleResponsesExplained'
  BY <1>1, <1>2, Parts DEF IInv, StaleResponsesExplained, Cached
<1> QED
  BY <1>2, <1>3, <1>4
  DEF IInv, CallsConsistent, OwnersDiffer, ReportsCounted, Owed, DuplicatesAreRaces, InvalidatedExists

\* A report turns old: what a trigger has not seen of the recent ones stays so.
LEMMA AgeIInv ==
  ASSUME IInv, Age
  PROVE  IInv'
<1>1. /\ aged < Len(reports) /\ aged' = aged + 1
      /\ UNCHANGED <<reports, cache, call, jobs, requests, failures, invalidated>>
  BY DEF Age
<1>2. aged \in Nat /\ Len(reports) \in Nat /\ reports \in Seq(Row)
  BY Parts
<1>3. aged' \in Nat /\ aged <= aged' /\ aged' \in 0..Len(reports) /\ Len(reports) <= Len(reports)
  BY <1>1, <1>2
<1>4. TypeOK'
  BY <1>1, <1>3, Parts DEF TypeOK
<1>5. \A d \in Calls : Consistent(call[d], reports, aged', invalidated)
  <2> SUFFICES ASSUME NEW d \in Calls PROVE Consistent(call[d], reports, aged', invalidated)
    OBVIOUS
  <2>1. call[d] \in Call /\ Consistent(call[d], reports, aged, invalidated)
    BY Parts
  <2> DEFINE l == call[d]
             ag2 == aged'
  <2>2. l \in Call /\ Consistent(l, reports, aged, invalidated) /\ ag2 \in Nat /\ aged <= ag2
    BY <1>3, <2>1
  <2> HIDE DEF l, ag2
  <2>3. Consistent(l, reports, ag2, invalidated)
    BY <1>2, <1>3, <2>2, ConsistentKept
  <2> QED
    BY <2>3 DEF l, ag2
<1>6. CallsConsistent'
  BY <1>1, <1>5 DEF CallsConsistent
<1> QED
  BY <1>1, <1>4, <1>6
  DEF IInv, OwnersDiffer, ReportsCounted, Owed, DuplicatesAreRaces, InvalidatedExists,
      StaleResponsesExplained, Cached

\* The tables stay as they are when nothing happens.
LEMMA StutterIInv ==
  ASSUME IInv, UNCHANGED vars
  PROVE  IInv'
BY DEF vars, IInv, TypeOK, CallsConsistent, OwnersDiffer, ReportsCounted, Owed, DuplicatesAreRaces,
       InvalidatedExists, StaleResponsesExplained, Cached

\* Every step keeps the invariant.
LEMMA NextIInv ==
  ASSUME IInv, Next
  PROVE  IInv'
<1>1. CASE Expire
  BY <1>1, ExpireIInv
<1>2. CASE Age
  BY <1>2, AgeIInv
<1>3. CASE Crash
  BY <1>3, CrashIInv
<1>4. ASSUME NEW c \in Calls, Begin(c) PROVE IInv'
  BY <1>4, BeginIInv
<1>5. ASSUME NEW c \in Calls, Fail(c) PROVE IInv'
  BY <1>5, FailIInv
<1>6. ASSUME NEW c \in Calls, EndJob(c) \/ PostComment(c) PROVE IInv'
  <2>1. Leave(c) /\ UNCHANGED <<reports, aged, cache, jobs, requests, failures, invalidated>>
    BY <1>6 DEF EndJob, PostComment
  <2> QED
    BY <2>1, LeaveIInv, Parts
<1>7. ASSUME NEW c \in Calls, Step(c) PROVE IInv'
  BY <1>6, <1>7, CreateReportIInv, ClientNotFoundIInv, StoreReportCheckIInv, ReadBackIInv,
     ListApplicationsIInv, GenerateClientReportIInv, LookForLatestReportIInv,
     InvalidateIInv, QueryReportsIInv, StoreResponseIInv DEF Step
<1> QED
  BY <1>1, <1>2, <1>3, <1>4, <1>5, <1>7 DEF Next

-----------------------------------------------------------------------------
\* The inductive invariant: the tables and what every call holds fit together at every
\* step of every interleaving, crash and failure.
THEOREM Invariance == Spec => []IInv
<1>1. Init => IInv
  BY InitIInv
<1>2. IInv /\ [Next]_vars => IInv'
  BY NextIInv, StutterIInv
<1> QED
  BY <1>1, <1>2, PTL DEF Spec

\* Whoever generated a report hands out that one with all its checks, however many
\* generations run for the same client at the same time (storeReportChecks(), getReport()).
THEOREM HandedOutCompleteCorrect == Spec => []HandedOutComplete
<1>1. IInv => HandedOutComplete
  BY DEF IInv, CallsConsistent, Consistent, Generates, HandedOutComplete
<1> QED
  BY <1>1, Invariance, PTL

\* A run of the job accounts for every application it has dealt with, whatever fails for
\* the others (runClientReportGenerationJob()).
THEOREM JobAccountsForAllCorrect == Spec => []JobAccountsForAll
<1>1. IInv => JobAccountsForAll
  <2> SUFFICES ASSUME IInv, NEW c \in Calls, call[c].stage = "next"
               PROVE  Accounted(call[c], reports)
    BY DEF JobAccountsForAll, Accounted
  <2> QED
    BY DEF IInv, CallsConsistent, Consistent, KindFits, Loops, AtLoop
<1> QED
  BY <1>1, Invariance, PTL

\* The trigger duplicates a recent report only if that came after it had looked.
THEOREM DuplicatesAreRacesCorrect == Spec => []DuplicatesAreRaces
<1>1. IInv => DuplicatesAreRaces
  BY DEF IInv
<1> QED
  BY <1>1, Invariance, PTL

\* A response older than a POST's report is cached only by a query that came before the
\* POST's deletion and whose storing came after it.
THEOREM StaleResponsesExplainedCorrect == Spec => []StaleResponsesExplained
<1>1. IInv => StaleResponsesExplained
  BY DEF IInv
<1> QED
  BY <1>1, Invariance, PTL
================================================================================
