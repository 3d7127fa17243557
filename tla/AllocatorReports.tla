--------------------------- MODULE AllocatorReports ---------------------------
(***************************************************************************)
(* Allocator compliance reports, next to the client reports they are       *)
(* computed from: the daily job and the API generate a report, then store  *)
(* its checks - two from the report itself, one per kind of client check   *)
(* from the newest client reports, one for the tranche schedule - and then *)
(* its scores one at a time; the latest scores are read by others at any   *)
(* time, and the API's responses are cached.                               *)
(*                                                                         *)
(* A call is a run of the job or a request; it waits at an await, and      *)
(* other calls and the generation of client reports go on meanwhile.  What *)
(* a report says is abstracted to which checks and scores are stored and   *)
(* to the verdicts that come from client reports.                          *)
(***************************************************************************)
EXTENDS Integers, Sequences, FiniteSets

CONSTANTS Calls,            \* runs of the job and requests under way, one each
          Registry,         \* the addresses in the registry, in its order, each once
          Known,            \* those whose data is found
          ClientsOf,        \* the verified clients of an allocator
          DataType,         \* "openData", "enterprise" or, not of edition 6, "none"
          Scheduled,        \* allocators with the standard tranche schedule
          ClientChecks,     \* the kinds of client check that are not deprecated
          Weights,          \* per data type, the weights of the scores in storing order
          CopiesConfigured, \* CLIENT_REPORT_MAX_PERCENTAGE_FOR_REQUIRED_COPIES is set
          InitialClientReports,  \* client reports there may be already
          MaxEvents         \* bound: runs of the job, requests, failures, crashes and
                            \* changes of the client reports, altogether

Inactivity == "INACTIVITY"

Allocators == {Registry[i] : i \in DOMAIN Registry}

ASSUME ConstantsAssumption ==
  /\ Registry \in Seq(Allocators) /\ Registry # <<>>
  /\ \A i, j \in DOMAIN Registry : Registry[i] = Registry[j] => i = j
  /\ Known \subseteq Allocators /\ IsFiniteSet(Known)
  /\ Scheduled \subseteq Known
  /\ DataType \in [Allocators -> {"openData", "enterprise", "none"}]
  /\ DOMAIN Weights = {"openData", "enterprise"}
  /\ Len(Weights.openData) = Len(Weights.enterprise)
  /\ \A type \in DOMAIN Weights :
        Weights[type] \in Seq(Nat) /\ \E n \in DOMAIN Weights[type] : Weights[type][n] # 0
  /\ Inactivity \in ClientChecks
  /\ CopiesConfigured \in BOOLEAN
  /\ MaxEvents \in Nat \ {0}

VARIABLES clientReports, \* client_report, in the order of creation
          spending,      \* the clients that spent datacap in the last 60 days
          reports,       \* allocator_report, in the order of creation
          cache,         \* per URL, the cached response
          call,          \* per call, where it is and what it holds
          events,        \* events so far
          invalidated    \* per allocator, the newest report whose POST has deleted the
                         \* cached responses (history)

vars == <<clientReports, spending, reports, cache, call, events, invalidated>>

None == 0
Clients == UNION {ClientsOf[a] : a \in Allocators}
MaxReports == MaxEvents * (1 + Cardinality(Known))
OwnChecks == {"CLIENT_MULTIPLE_ALLOCATORS", "CLIENT_NOT_ENOUGH_COPIES", "MANUAL_ALLOCATION_SCHEDULE"}

MaxScores == Len(Weights.enterprise)

\* What the API caches: the list, the latest report, a page of the latest report.
Routes == {"list", "latest", "page"}
Urls == Known \X Routes

\* A response: the newest report in it, and whether a POST has deleted the entry between
\* the query and the storing (history).
Response == [newest : 0..MaxReports, overtaken : BOOLEAN]
NotCached == [newest |-> -1, overtaken |-> FALSE]

\* A client report: the client, whether its last spending of datacap is at most 60
\* days ago, its stored checks, and whether they are still being stored.
ClientReport == [client : Clients, recent : BOOLEAN,
                 results : [ClientChecks -> {"none", "pass", "fail"}], open : BOOLEAN]

\* A client does not spend less recently by a later report.
ASSUME ClientReportsAssumption ==
  /\ InitialClientReports \subseteq Seq(ClientReport)
  /\ \A rs \in InitialClientReports : \A i, j \in DOMAIN rs :
        i < j /\ rs[i].client = rs[j].client /\ rs[i].recent => rs[j].recent

\* An allocator report: its stored checks, how many scores have been dealt with, and what
\* became of its generation (history).
Report == [allocator : Known, checks : SUBSET (OwnChecks \cup ClientChecks), scored : 0..MaxScores,
           generation : {"running", "done", "cut"}]

Stages == {"idle", "listing", "next", "generating", "multiple", "copies", "active",
           "inactive", "storing", "schedule", "scoring", "reading",
           "invalidating", "querying", "caching"}

Tally == [ClientChecks -> SUBSET Clients]

\* What a call holds: the allocator; the report it generates or has read; the clients it
\* has yet to read the newest report of; per kind of check the clients whose result it
\* counts and those that failed; the checks whose writes are under way; the allocators
\* the job has yet to do.  As history, whether no client report has changed since it
\* began to read.
Call == [stage : Stages, kind : {"job", "post", "get"}, allocator : Allocators,
         route : Routes, report : 0..MaxReports, toRead : SUBSET Clients,
         counted : Tally, failed : Tally, inFlight : SUBSET ClientChecks,
         todo : Seq(Allocators), overtaken : BOOLEAN, quiet : BOOLEAN]

Empty == [k \in ClientChecks |-> {}]

NoCall == [stage |-> "idle", kind |-> "get", allocator |-> Registry[1],
           route |-> "list", report |-> None, toRead |-> {}, counted |-> Empty,
           failed |-> Empty, inFlight |-> {}, todo |-> <<>>, overtaken |-> FALSE,
           quiet |-> FALSE]

\* No client report yet, or some that are finished; those count as one event.
Init == /\ clientReports \in {<<>>} \cup InitialClientReports
        /\ spending \in SUBSET Clients
        /\ \A i \in DOMAIN clientReports :
              clientReports[i].recent => clientReports[i].client \in spending
        /\ reports = <<>>
        /\ cache = [u \in Urls |-> NotCached]
        /\ call = [c \in Calls |-> NoCall]
        /\ events = IF clientReports = <<>> THEN 0 ELSE 1
        /\ invalidated = [a \in Known |-> None]

-----------------------------------------------------------------------------
(* Queries *)

Newest(ids) == IF ids = {} THEN None ELSE CHOOSE i \in ids : \A j \in ids : j <= i

\* Mutant: whichever report comes first.
NewestClientReport_First(client, recentOnly) ==
  LET found == {i \in DOMAIN clientReports :
                  /\ clientReports[i].client = client
                  /\ recentOnly => clientReports[i].recent}
  IN IF found = {} THEN None ELSE CHOOSE i \in found : \A j \in found : i <= j

\* The client's newest report, for some checks among those with a recent spending.
NewestClientReport(client, recentOnly) ==
  Newest({i \in DOMAIN clientReports : /\ clientReports[i].client = client
                                       /\ recentOnly => clientReports[i].recent})

\* Mutant: any report of the allocator.
GetReport_Latest(a, id) == Newest({i \in DOMAIN reports : reports[i].allocator = a})

\* getReport(): by its id if one is given, or the newest of the allocator.
GetReport(a, id) ==
  Newest({i \in DOMAIN reports : reports[i].allocator = a /\ id \in {None, i}})

\* The scores stored for a report: a weight of zero stores none.
ScoresStored(report) ==
  {n \in 1..report.scored : Weights[DataType[report.allocator]][n] # 0}

\* getAllocatorLatestScores: the newest report that has a score.
LatestScored(a) ==
  Newest({i \in DOMAIN reports : reports[i].allocator = a /\ ScoresStored(reports[i]) # {}})

\* The verdict of a kind of client check as its description has it: at most half of the
\* clients whose newest report has such a check fail it; of active clients, as that report
\* has it, unless the check is the one for inactivity (for the properties).
AtMostHalfFail(a, k) ==
  LET of == [c \in ClientsOf[a] |->
               LET mine == {i \in DOMAIN clientReports : clientReports[i].client = c}
               IN IF mine = {} THEN None ELSE CHOOSE i \in mine : \A j \in mine : j <= i]
      result(c) == IF of[c] = None \/ (k # Inactivity /\ ~clientReports[of[c]].recent)
                   THEN "none" ELSE clientReports[of[c]].results[k]
  IN 2 * Cardinality({c \in ClientsOf[a] : result(c) = "fail"})
       <= Cardinality({c \in ClientsOf[a] : result(c) # "none"})

-----------------------------------------------------------------------------
(* Steps of any call *)

Event == events < MaxEvents /\ events' = events + 1

Free(c) == /\ call[c].stage = "idle"
           /\ c = CHOOSE d \in Calls : call[d].stage = "idle"

Goto(c, stage) == call' = [call EXCEPT ![c].stage = stage]
Leave(c) == call' = [call EXCEPT ![c] = NoCall]

\* The job turns from an allocator to the next one; a POST answers 404 or 500.
Abandon(c) ==
  call' = [call EXCEPT ![c] = IF call[c].kind = "job"
                              THEN [NoCall EXCEPT !.stage = "next", !.kind = "job",
                                                  !.todo = call[c].todo]
                              ELSE NoCall]

-----------------------------------------------------------------------------
(* generateReport(): called by the job and the API *)

\* No data of the allocator, or no details of a metaallocator: null.
AllocatorNotFound(c) ==
  /\ call[c].stage = "generating"
  /\ call[c].allocator \notin Known
  /\ Abandon(c)
  /\ UNCHANGED <<clientReports, spending, reports, cache, events, invalidated>>

\* The data is gathered and the report created.
CreateReport(c) ==
  /\ call[c].stage = "generating"
  /\ call[c].allocator \in Known
  /\ reports' = Append(reports,
       [allocator |-> call[c].allocator, checks |-> {}, scored |-> 0,
        generation |-> "running"])
  /\ call' = [call EXCEPT ![c].stage = "multiple", ![c].report = Len(reports) + 1]
  /\ UNCHANGED <<clientReports, spending, cache, events, invalidated>>

Stored(c, k) == reports' = [reports EXCEPT ![call[c].report].checks = @ \cup {k}]

\* The clients' reports are read next.
BeginReading(c) ==
  call' = [call EXCEPT ![c].stage = "active", ![c].toRead = ClientsOf[call[c].allocator],
                       ![c].quiet = TRUE]

\* storeClientMultipleAllocators(); without a configured limit the check that follows
\* is skipped.
StoreClientMultipleAllocators(c) ==
  /\ call[c].stage = "multiple"
  /\ Stored(c, "CLIENT_MULTIPLE_ALLOCATORS")
  /\ IF CopiesConfigured THEN Goto(c, "copies") ELSE BeginReading(c)
  /\ UNCHANGED <<clientReports, spending, cache, events, invalidated>>

\* storeClientNotEnoughCopies()
StoreClientNotEnoughCopies(c) ==
  /\ call[c].stage = "copies"
  /\ Stored(c, "CLIENT_NOT_ENOUGH_COPIES")
  /\ BeginReading(c)
  /\ UNCHANGED <<clientReports, spending, cache, events, invalidated>>

\* The results of a client report that are grouped by their kind.
Count(c, id, kinds) ==
  LET result(k) == IF id = None \/ k \notin kinds THEN "none" ELSE clientReports[id].results[k]
      client == {clientReports[id].client}
  IN [call[c] EXCEPT
        !.counted = [k \in ClientChecks |-> IF result(k) = "none" THEN @[k] ELSE @[k] \cup client],
        !.failed = [k \in ClientChecks |-> IF result(k) = "fail" THEN @[k] \cup client ELSE @[k]]]

\* The newest report of a client that spent datacap in the last 60 days is read, all
\* clients at once: one answer after the other, in any order.
ReadActiveClient(c) ==
  /\ call[c].stage = "active"
  /\ \E client \in call[c].toRead :
       LET left == call[c].toRead \ {client}
           read == Count(c, NewestClientReport(client, TRUE), ClientChecks \ {Inactivity})
       IN call' = [call EXCEPT ![c] =
             [read EXCEPT !.stage = IF left = {} THEN "inactive" ELSE @,
                          !.toRead = IF left = {} THEN ClientsOf[call[c].allocator] ELSE left]]
  /\ UNCHANGED <<clientReports, spending, reports, cache, events, invalidated>>

\* Then the newest report of every client, for its inactivity; the verdicts are taken
\* and all writes begin at once.
ReadClient(c) ==
  /\ call[c].stage = "inactive"
  /\ \E client \in call[c].toRead :
       LET left == call[c].toRead \ {client}
           read == Count(c, NewestClientReport(client, FALSE), {Inactivity})
       IN call' = [call EXCEPT ![c] =
             [read EXCEPT !.stage = IF left = {} THEN "storing" ELSE @,
                          !.toRead = left,
                          !.inFlight = IF left = {} THEN ClientChecks ELSE {}]]
  /\ UNCHANGED <<clientReports, spending, reports, cache, events, invalidated>>

\* An allocator without clients: there is nothing to read.
ReadNoClient(c) ==
  /\ call[c].stage = "active"
  /\ call[c].toRead = {}
  /\ call' = [call EXCEPT ![c].stage = "storing", ![c].inFlight = ClientChecks]
  /\ UNCHANGED <<clientReports, spending, reports, cache, events, invalidated>>

\* A check passes if at most 50% of the results fail; if there is none, too.
Passed(c, k) == 2 * Cardinality(call[c].failed[k]) <= Cardinality(call[c].counted[k])

\* One of the writes completes; after the last one the schedule is looked at.
StoreClientCheck(c) ==
  /\ call[c].stage = "storing"
  /\ \E k \in call[c].inFlight :
       /\ Stored(c, k)
       /\ call' = [call EXCEPT ![c] =
             IF call[c].inFlight # {k} THEN [call[c] EXCEPT !.inFlight = @ \ {k}]
             ELSE [call[c] EXCEPT !.inFlight = {}, !.stage = "schedule",
                                  !.counted = Empty, !.failed = Empty, !.quiet = FALSE]]
  /\ UNCHANGED <<clientReports, spending, cache, events, invalidated>>

\* storeAllocatorTrancheScheduleCheck(), skipped for other schedules.  storeScoring() looks
\* up the data type; without one there is nothing to score.
StoreTrancheScheduleCheck(c) ==
  /\ call[c].stage = "schedule"
  /\ IF call[c].allocator \in Scheduled
     THEN Stored(c, "MANUAL_ALLOCATION_SCHEDULE") ELSE UNCHANGED reports
  /\ Goto(c, IF DataType[call[c].allocator] = "none" THEN "reading" ELSE "scoring")
  /\ UNCHANGED <<clientReports, spending, cache, events, invalidated>>

\* Mutant: the last score is not waited for.
AllScored_Early(report) == report.scored + 1 >= Len(Weights[DataType[report.allocator]])

\* All scores have been dealt with.
AllScored(report) == report.scored >= Len(Weights[DataType[report.allocator]])

\* The next score is computed and stored, unless its weight is zero.
StoreScore(c) ==
  LET report == [reports[call[c].report] EXCEPT !.scored = @ + 1]
  IN /\ call[c].stage = "scoring"
     /\ reports' = [reports EXCEPT ![call[c].report] = report]
     /\ Goto(c, IF AllScored(report) THEN "reading" ELSE "scoring")
     /\ UNCHANGED <<clientReports, spending, cache, events, invalidated>>

\* The report is read back by its id and returned.
ReadBack(c) ==
  LET id == GetReport(call[c].allocator, call[c].report)
  IN /\ call[c].stage = "reading"
     /\ reports' = [reports EXCEPT ![call[c].report].generation = "done"]
     /\ IF call[c].kind = "job" THEN Abandon(c)
        ELSE call' = [call EXCEPT ![c].stage = "invalidating", ![c].report = id]
     /\ UNCHANGED <<clientReports, spending, cache, events, invalidated>>

-----------------------------------------------------------------------------
(* The daily job *)

\* Every day at 6 a.m., whether or not an earlier run is still going on.
RunAllocatorReportGenerationJob(c) ==
  /\ Free(c)
  /\ Event
  /\ call' = [call EXCEPT ![c].stage = "listing", ![c].kind = "job"]
  /\ UNCHANGED <<clientReports, spending, reports, cache, invalidated>>

\* The addresses of the registry, each once.
FetchAllocatorsRegistry(c) ==
  /\ call[c].stage = "listing"
  /\ call' = [call EXCEPT ![c].stage = "next", ![c].todo = Registry]
  /\ UNCHANGED <<clientReports, spending, reports, cache, events, invalidated>>

\* The job turns to an allocator.
GenerateAllocatorReport(c) ==
  /\ call[c].stage = "next"
  /\ call[c].todo # <<>>
  /\ call' = [call EXCEPT ![c].stage = "generating", ![c].allocator = Head(call[c].todo),
                          ![c].todo = Tail(@)]
  /\ UNCHANGED <<clientReports, spending, reports, cache, events, invalidated>>

EndJob(c) ==
  /\ call[c].stage = "next"
  /\ call[c].todo = <<>>
  /\ Leave(c)
  /\ UNCHANGED <<clientReports, spending, reports, cache, events, invalidated>>

-----------------------------------------------------------------------------
(* The API *)

\* POST :allocator
PostAllocatorReport(c) ==
  /\ Free(c)
  /\ Event
  /\ \E a \in Allocators :
        call' = [call EXCEPT ![c].stage = "generating", ![c].kind = "post", ![c].allocator = a]
  /\ UNCHANGED <<clientReports, spending, reports, cache, invalidated>>

\* Mutant: the list is not deleted.
Deleted_Latest == {"latest"}

\* The POST deletes the latest report and the list, but no page of the latest report.
Deleted == {"latest", "list"}

\* The POST deletes the cached responses and returns the report.
Invalidate(c) ==
  LET a == call[c].allocator
  IN /\ call[c].stage = "invalidating"
     /\ cache' = [u \in Urls |-> IF u[1] = a /\ u[2] \in Deleted THEN NotCached ELSE cache[u]]
     /\ invalidated' = [invalidated EXCEPT ![a] = IF @ < call[c].report THEN call[c].report ELSE @]
     /\ call' = [d \in Calls |->
           IF d = c THEN NoCall
           ELSE [call[d] EXCEPT !.overtaken = @ \/ (call[d].stage = "caching" /\ call[d].allocator = a)]]
     /\ UNCHANGED <<clientReports, spending, reports, events>>

\* GET :allocator or :allocator/latest, with nothing cached under that URL.
GetAllocatorReport(c) ==
  /\ Free(c)
  /\ Event
  /\ \E url \in Urls :
        /\ cache[url] = NotCached
        /\ call' = [call EXCEPT ![c].stage = "querying", ![c].allocator = url[1],
                                ![c].route = url[2]]
  /\ UNCHANGED <<clientReports, spending, reports, cache, invalidated>>

\* The query; without a latest report the answer is a 404, which is not cached.
QueryReports(c) ==
  LET newest == GetReport(call[c].allocator, None)
  IN /\ call[c].stage = "querying"
     /\ IF newest = None /\ call[c].route # "list" THEN Leave(c)
        ELSE call' = [call EXCEPT ![c].stage = "caching", ![c].report = newest]
     /\ UNCHANGED <<clientReports, spending, reports, cache, events, invalidated>>

\* The interceptor stores the response and returns it.
StoreResponse(c) ==
  /\ call[c].stage = "caching"
  /\ cache' = [cache EXCEPT ![<<call[c].allocator, call[c].route>>] =
                  [newest |-> call[c].report, overtaken |-> call[c].overtaken]]
  /\ Leave(c)
  /\ UNCHANGED <<clientReports, spending, reports, events, invalidated>>

-----------------------------------------------------------------------------
(* Failures *)

CutShort(generation) == IF generation = "running" THEN "cut" ELSE generation

\* An await throws (the reading back, in all its four attempts).  Of the writes of checks
\* that were under way, any may still succeed: nobody cancels them.
Fail(c) ==
  /\ call[c].stage \notin {"idle", "next", "listing"}
  /\ Event
  /\ \E late \in SUBSET call[c].inFlight :
       reports' = [i \in DOMAIN reports |->
         IF i = call[c].report /\ call[c].kind # "get"
         THEN [reports[i] EXCEPT !.checks = @ \cup late, !.generation = CutShort(@)]
         ELSE reports[i]]
  /\ Abandon(c)
  /\ UNCHANGED <<clientReports, spending, cache, invalidated>>

\* The registry does not answer: the run of the job is over.
FailToList(c) ==
  /\ call[c].stage = "listing"
  /\ Event
  /\ Leave(c)
  /\ UNCHANGED <<clientReports, spending, reports, cache, invalidated>>

\* The process dies and another one starts: calls and cache are gone.
Crash ==
  /\ Event
  /\ reports' = [i \in DOMAIN reports |->
                   [reports[i] EXCEPT !.generation = CutShort(@)]]
  /\ call' = [c \in Calls |-> NoCall]
  /\ cache' = [u \in Urls |-> NotCached]
  /\ UNCHANGED <<clientReports, spending, invalidated>>

-----------------------------------------------------------------------------
(* Client reports and the clients' spending *)

\* What a call has read may be out of date: its verdicts are not of one moment.
Disturb == call' = [c \in Calls |->
             [call[c] EXCEPT !.quiet = FALSE]]

\* A client report is created (ClientReports!CreateReport), as yet without checks.
NewClientReport ==
  /\ Event
  /\ \E client \in Clients :
       clientReports' = Append(clientReports,
         [client |-> client, recent |-> client \in spending,
          results |-> [k \in ClientChecks |-> "none"], open |-> TRUE])
  /\ Disturb
  /\ UNCHANGED <<spending, reports, cache, invalidated>>

\* One more of its checks is stored (ClientReports!StoreReportCheck), or its generation
\* ends: some checks are skipped for want of configuration, the rest after a failure.
ContinueClientReport == \E i \in DOMAIN clientReports :
  /\ clientReports[i].open
  /\ Event
  /\ \/ \E k \in ClientChecks, result \in {"pass", "fail"} :
          /\ clientReports[i].results[k] = "none"
          /\ clientReports' = [clientReports EXCEPT ![i].results[k] = result]
     \/ clientReports' = [clientReports EXCEPT ![i].open = FALSE]
  /\ Disturb
  /\ UNCHANGED <<spending, reports, cache, invalidated>>

\* A client spends datacap after a while, or has not for 60 days by now; then none of its
\* reports has a recent spending.
ChangeSpending == \E client \in Clients :
  /\ Event
  /\ \/ /\ client \in spending
        /\ spending' = spending \ {client}
        /\ clientReports' = [i \in DOMAIN clientReports |->
              [clientReports[i] EXCEPT !.recent = @ /\ clientReports[i].client # client]]
     \/ /\ client \notin spending
        /\ spending' = spending \cup {client}
        /\ UNCHANGED clientReports
  /\ Disturb
  /\ UNCHANGED <<reports, cache, invalidated>>

Begin(c) == \/ RunAllocatorReportGenerationJob(c) \/ PostAllocatorReport(c)
            \/ GetAllocatorReport(c)

Step(c) == \/ AllocatorNotFound(c) \/ CreateReport(c) \/ StoreClientMultipleAllocators(c)
           \/ StoreClientNotEnoughCopies(c) \/ ReadActiveClient(c) \/ ReadClient(c)
           \/ ReadNoClient(c) \/ StoreClientCheck(c) \/ StoreTrancheScheduleCheck(c)
           \/ StoreScore(c) \/ ReadBack(c)
           \/ FetchAllocatorsRegistry(c) \/ GenerateAllocatorReport(c) \/ EndJob(c)
           \/ Invalidate(c) \/ QueryReports(c) \/ StoreResponse(c)

Next == \/ Crash \/ NewClientReport \/ ContinueClientReport \/ ChangeSpending
        \/ \E c \in Calls : Begin(c) \/ Step(c) \/ Fail(c) \/ FailToList(c)

Spec == Init /\ [][Next]_vars

-----------------------------------------------------------------------------
(* Properties *)

TypeOK == /\ clientReports \in Seq(ClientReport)
          /\ spending \subseteq Clients
          /\ reports \in Seq(Report) /\ Len(reports) <= MaxReports
          /\ cache \in [Urls -> Response \cup {NotCached}]
          /\ call \in [Calls -> Call]
          /\ events \in 0..MaxEvents
          /\ invalidated \in [Known -> 0..MaxReports]

\* The state is typed, and a POST hands out the report that it has generated, with every check that is
\* configured for the allocator and every score that has a weight, whatever else is
\* generated for the same allocator at the time.
HandedOutComplete == TypeOK /\
  \A c \in Calls : call[c].stage = "invalidating" =>
    LET a == call[c].allocator  report == reports[call[c].report]
    IN /\ report.generation = "done"
       /\ ClientChecks \cup {"CLIENT_MULTIPLE_ALLOCATORS"} \subseteq report.checks
       /\ CopiesConfigured => "CLIENT_NOT_ENOUGH_COPIES" \in report.checks
       /\ a \in Scheduled => "MANUAL_ALLOCATION_SCHEDULE" \in report.checks
       /\ DataType[a] # "none" => AllScored(report)

\* While no client report changes, the two reads of every client's newest report give the
\* verdicts of their descriptions, each client counted once: at most half of the clients
\* that have such a check fail it.
VerdictsOfClients ==
  \A c \in Calls : call[c].quiet /\ call[c].stage = "storing" =>
    \A k \in ClientChecks : Passed(c, k) <=> AtMostHalfFail(call[c].allocator, k)

\* The latest scores of an allocator are those of a report with all its scores,
\* unless that report's generation is under way or was cut short; and a report whose
\* generation has ended well is never passed over for an older one.
ShownScoresComplete ==
  \A a \in Known : DataType[a] # "none" =>
    LET shown == LatestScored(a)
    IN /\ shown # None /\ reports[shown].generation = "done" =>
            \A n \in DOMAIN Weights[DataType[a]] :
              Weights[DataType[a]][n] # 0 => n \in ScoresStored(reports[shown])
       /\ \A i \in DOMAIN reports :
            reports[i].allocator = a /\ reports[i].generation = "done" => i <= shown

\* A cached response to GET :allocator or :allocator/latest lacks a report whose POST has
\* deleted it only if the query came before the deletion and the storing after it.  A page
\* of the latest report, which no POST deletes, may lack it for 12 hours.
StaleResponsesExplained ==
  \A url \in Urls : cache[url] # NotCached =>
    \/ cache[url].newest >= invalidated[url[1]]
    \/ cache[url].overtaken
    \/ url[2] = "page"
=============================================================================
