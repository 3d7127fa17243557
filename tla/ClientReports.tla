----------------------------- MODULE ClientReports -----------------------------
(***************************************************************************)
(* Client compliance reports: who generates them (the daily job, the API   *)
(* and the GitHub trigger), the creation of a report followed by its       *)
(* checks one at a time, the trigger's reuse of a recent report, and the   *)
(* cache of the API's responses.                                           *)
(*                                                                         *)
(* A call is a run of the job or a request.  It waits at an await of its   *)
(* handler and any other call may run meanwhile.  What a report says is    *)
(* abstracted to its client and how many checks are stored; a cached       *)
(* response to the newest report it shows.  Reports are numbered in the    *)
(* order they are created, so the ones past a certain age are a prefix.    *)
(* An exception takes a call to where its handler catches it.              *)
(***************************************************************************)
EXTENDS Integers, Sequences, FiniteSets

CONSTANTS Calls,        \* runs of the job and requests under way, one each
          Clients,      \* the clients with an application
          Known,        \* those whose id and data are found
          Names,        \* what a client goes by in a URL: its id, its address
          NumChecks,    \* checks of a report
          MaxJobs,      \* bound: runs of the job
          MaxRequests,  \* bound: requests
          MaxFailures   \* bound: failures and crashes

ASSUME ConstantsAssumption ==
  /\ Clients # {} /\ Names # {}
  /\ Known \subseteq Clients
  /\ IsFiniteSet(Known)
  /\ NumChecks \in Nat \ {0}
  /\ {MaxJobs, MaxRequests, MaxFailures} \subseteq Nat

VARIABLES reports,     \* client_report, in the order of creation
          aged,        \* how many of them are older than 30 hours
          cache,       \* per URL, the cached response
          call,        \* per call, where it is and what it holds
          jobs,        \* runs of the job so far
          requests,    \* requests so far
          failures,    \* failures and crashes so far
          invalidated  \* per URL, the newest report whose POST has deleted the
                       \* cached response (history)

vars == <<reports, aged, cache, call, jobs, requests, failures, invalidated>>

None == 0

\* Every request and every application of a run of the job makes a report at most.
MaxReports == MaxRequests + Cardinality(Known) * MaxJobs

Routes == {"latest", "list"}

\* What the API caches.  A client that is not found has no reports: its responses are
\* a 404 or an empty list, and never change.
Urls == [client : Known, name : Names, route : Routes]

\* A report: whom it is about and its stored checks; which kind of call generated
\* it and, for a trigger, how many reports there were when it looked and the latest
\* one younger than 30 hours when it created its own (history).
Row == [client : Known, checks : 0..NumChecks,
        by : {"job", "post", "trigger"}, seen : 0..MaxReports, recent : 0..MaxReports]

\* A response: the newest report in it, and whether a POST has deleted the entry
\* between the query and the storing (history).
Response == [newest : 0..MaxReports, overtaken : BOOLEAN]
NotCached == [newest |-> -1, overtaken |-> FALSE]

Stages == {"idle", "listing", "next", "generating", "checking", "reading",
           "invalidating", "looking", "answering", "querying", "storing"}

\* What a call holds: the application or client it is at; the report it
\* generates; the report it has read, with the checks it saw; how many reports there
\* were when it last looked; the job's applications to do and failed.
Call == [stage : Stages, kind : {"job", "post", "trigger", "get"},
         client : Clients, name : Names, route : Routes,
         report : 0..MaxReports, result : 0..MaxReports, checks : 0..NumChecks,
         seen : 0..MaxReports, overtaken : BOOLEAN,
         todo : SUBSET Clients, failed : SUBSET Clients]

NoCall == [stage |-> "idle", kind |-> "get",
           client |-> CHOOSE c \in Clients : TRUE, name |-> CHOOSE n \in Names : TRUE,
           route |-> "latest", report |-> None, result |-> None, checks |-> 0,
           seen |-> 0, overtaken |-> FALSE, todo |-> {}, failed |-> {}]

Init == /\ reports = <<>>
        /\ aged = 0
        /\ cache = [u \in Urls |-> NotCached]
        /\ call = [c \in Calls |-> NoCall]
        /\ jobs = 0
        /\ requests = 0
        /\ failures = 0
        /\ invalidated = [u \in Urls |-> None]

-----------------------------------------------------------------------------
(* Queries *)

\* Mutant: the id is not passed on.
GetReport_NoId(client, id) ==
  LET found == {i \in DOMAIN reports : reports[i].client = client}
  IN IF found = {} THEN None ELSE CHOOSE i \in found : \A j \in found : j <= i

\* Mutant: the order is ascending.
GetReport_Ascending(client, id) ==
  LET found == {i \in DOMAIN reports : reports[i].client = client /\ id \in {None, i}}
  IN IF found = {} THEN None ELSE CHOOSE i \in found : \A j \in found : i <= j

\* getReport(): the newest of the client's reports, by its id if one is given.
GetReport(client, id) ==
  LET found == {i \in DOMAIN reports : reports[i].client = client /\ id \in {None, i}}
  IN IF found = {} THEN None ELSE CHOOSE i \in found : \A j \in found : j <= i

\* The latest of the client's reports that is younger than 30 hours (history).
LatestRecent(client) ==
  LET found == {i \in DOMAIN reports : reports[i].client = client /\ i > aged}
  IN IF found = {} THEN None ELSE CHOOSE i \in found : \A j \in found : j <= i

\* No report, or one older than 30 hours.
TooOld(id) == id <= aged

-----------------------------------------------------------------------------
(* Steps of any call *)

\* A call begins in a slot that is free (slots are alike: it takes a fixed one).
Free(c) == /\ call[c].stage = "idle"
           /\ c = CHOOSE d \in Calls : call[d].stage = "idle"

Goto(c, stage) == call' = [call EXCEPT ![c].stage = stage]

Leave(c) == call' = [call EXCEPT ![c] = NoCall]

\* The call has read a report, with the checks that are stored by now.
HandOver(c, stage, id) ==
  call' = [call EXCEPT ![c].stage = stage, ![c].result = id, ![c].checks = reports[id].checks]

\* Mutant: the job goes on without counting the failure.
NextApplication_Uncounted(c, ok) ==
  call' = [call EXCEPT ![c].stage = "next", ![c].report = None,
                       ![c].todo = @ \ {call[c].client}]

\* The end of one application in the loop of the job.
NextApplication(c, ok) ==
  call' = [call EXCEPT ![c].stage = "next", ![c].report = None,
                       ![c].todo = @ \ {call[c].client},
                       ![c].failed = IF ok THEN @ ELSE @ \cup {call[c].client}]

-----------------------------------------------------------------------------
(* generateReport(), called by the job, the API and the trigger *)

\* The data is gathered and the report created, as yet without checks.
CreateReport(c) ==
  /\ call[c].stage = "generating"
  /\ call[c].client \in Known
  /\ LET trigger == call[c].kind = "trigger"
     IN reports' = Append(reports,
          [client |-> call[c].client, checks |-> 0, by |-> call[c].kind,
           seen |-> IF trigger THEN call[c].seen ELSE 0,
           recent |-> IF trigger THEN LatestRecent(call[c].client) ELSE None])
  /\ call' = [call EXCEPT ![c].stage = "checking", ![c].report = Len(reports) + 1]
  /\ UNCHANGED <<aged, cache, jobs, requests, failures, invalidated>>

\* Mutant: the job turns to the application again.
ClientNotFound_Again(c) ==
  /\ call[c].stage = "generating"
  /\ call[c].client \notin Known
  /\ \/ call[c].kind = "job" /\ Goto(c, "next")
     \/ call[c].kind = "post" /\ Leave(c)
     \/ call[c].kind = "trigger" /\ Goto(c, "answering")
  /\ UNCHANGED <<reports, aged, cache, jobs, requests, failures, invalidated>>

\* No such client: generateReport() returns null.
ClientNotFound(c) ==
  /\ call[c].stage = "generating"
  /\ call[c].client \notin Known
  /\ \/ call[c].kind = "job" /\ NextApplication(c, FALSE)
     \/ call[c].kind = "post" /\ Leave(c)
     \/ call[c].kind = "trigger" /\ Goto(c, "answering")
  /\ UNCHANGED <<reports, aged, cache, jobs, requests, failures, invalidated>>

\* storeReportChecks(): one more check is computed and stored.
StoreReportCheck(c) ==
  LET stored == reports[call[c].report].checks + 1
  IN /\ call[c].stage = "checking"
     /\ reports' = [reports EXCEPT ![call[c].report].checks = stored]
     /\ Goto(c, IF stored = NumChecks THEN "reading" ELSE "checking")
     /\ UNCHANGED <<aged, cache, jobs, requests, failures, invalidated>>

\* The finished report is read back and returned to the caller.
ReadBack(c) ==
  LET id == GetReport(call[c].client, call[c].report)
  IN /\ call[c].stage = "reading"
     /\ \/ call[c].kind = "job" /\ NextApplication(c, TRUE)
        \/ call[c].kind = "post" /\ HandOver(c, "invalidating", id)
        \/ call[c].kind = "trigger" /\ HandOver(c, "answering", id)
     /\ UNCHANGED <<reports, aged, cache, jobs, requests, failures, invalidated>>

-----------------------------------------------------------------------------
(* The daily job *)

\* The cron fires every day, whether or not an earlier run is still going on.
RunClientReportGenerationJob(c) ==
  /\ Free(c)
  /\ jobs < MaxJobs
  /\ jobs' = jobs + 1
  /\ call' = [call EXCEPT ![c].stage = "listing", ![c].kind = "job"]
  /\ UNCHANGED <<reports, aged, cache, requests, failures, invalidated>>

\* The applications are listed.
ListApplications(c) ==
  /\ call[c].stage = "listing"
  /\ call' = [call EXCEPT ![c].stage = "next", ![c].todo = Clients, ![c].seen = Len(reports)]
  /\ UNCHANGED <<reports, aged, cache, jobs, requests, failures, invalidated>>

\* The job turns to an application.  One without a client id fails at once, as
\* does one whose client is not found.
GenerateClientReport(c) ==
  /\ call[c].stage = "next"
  /\ \E client \in call[c].todo :
        call' = [call EXCEPT ![c].stage = "generating", ![c].client = client]
  /\ UNCHANGED <<reports, aged, cache, jobs, requests, failures, invalidated>>

\* No application is left: the run ends.
EndJob(c) ==
  /\ call[c].stage = "next"
  /\ call[c].todo = {}
  /\ Leave(c)
  /\ UNCHANGED <<reports, aged, cache, jobs, requests, failures, invalidated>>

-----------------------------------------------------------------------------
(* The GitHub trigger *)

\* A comment asks for a report.  The issue has an address, or none (an error text), or
\* cannot be parsed (an internal error).
CheckerManualTrigger(c) ==
  /\ Free(c)
  /\ requests < MaxRequests
  /\ requests' = requests + 1
  /\ \/ \E client \in Clients :
           call' = [call EXCEPT ![c].stage = "looking", ![c].kind = "trigger",
                                ![c].client = client]
     \/ call' = [call EXCEPT ![c].stage = "answering", ![c].kind = "trigger"]
  /\ UNCHANGED <<reports, aged, cache, jobs, failures, invalidated>>

\* The trigger looks for the latest report and reuses it unless it is too old.
LookForLatestReport(c) ==
  LET id == GetReport(call[c].client, None)
  IN /\ call[c].stage = "looking"
     /\ call' = IF TooOld(id)
                THEN [call EXCEPT ![c].stage = "generating", ![c].seen = Len(reports)]
                ELSE [call EXCEPT ![c].stage = "answering", ![c].result = id,
                                  ![c].checks = reports[id].checks]
     /\ UNCHANGED <<reports, aged, cache, jobs, requests, failures, invalidated>>

\* The comment is posted, or GitHub refuses it.
PostComment(c) ==
  /\ call[c].stage = "answering"
  /\ Leave(c)
  /\ UNCHANGED <<reports, aged, cache, jobs, requests, failures, invalidated>>

-----------------------------------------------------------------------------
(* The API *)

Cached(url) == cache[url] # NotCached

\* POST :client
PostClientReport(c) ==
  /\ Free(c)
  /\ requests < MaxRequests
  /\ requests' = requests + 1
  /\ \E client \in Clients, name \in Names :
        call' = [call EXCEPT ![c].stage = "generating", ![c].kind = "post",
                             ![c].client = client, ![c].name = name]
  /\ UNCHANGED <<reports, aged, cache, jobs, failures, invalidated>>

Later(i, j) == IF i < j THEN j ELSE i

\* The URL that a call is at: the one asked for, or the one whose response it deletes.
Url(c) == [client |-> call[c].client, name |-> call[c].name, route |-> call[c].route]

\* Mutant: the latest report is deleted twice and the list never.
Deleted_Latest(c) == [Url(c) EXCEPT !.route = "latest"]

\* A POST deletes the responses under the name it was given.
Deleted(c) == Url(c)

\* The POST deletes the cached latest report, then the list, and returns the report.
Invalidate(c) ==
  /\ call[c].stage = "invalidating"
  /\ cache' = [cache EXCEPT ![Deleted(c)] = NotCached]
  /\ call' = [d \in Calls |->
                CASE d # c -> [call[d] EXCEPT !.overtaken =
                                 @ \/ (call[d].stage = "storing" /\ Url(d) = Url(c))]
                  [] d = c /\ call[c].route = "latest" -> [call[c] EXCEPT !.route = "list"]
                  [] OTHER -> NoCall]
  /\ invalidated' = [invalidated EXCEPT ![Url(c)] = Later(@, call[c].result)]
  /\ UNCHANGED <<reports, aged, jobs, requests, failures>>

\* GET :client or :client/latest with nothing cached.  With a cached response, that is
\* returned and nothing changes.
GetClientReport(c) ==
  /\ Free(c)
  /\ requests < MaxRequests
  /\ requests' = requests + 1
  /\ \E url \in Urls :
        /\ ~Cached(url)
        /\ call' = [call EXCEPT ![c].stage = "querying", ![c].kind = "get",
                                ![c].client = url.client, ![c].name = url.name,
                                ![c].route = url.route]
  /\ UNCHANGED <<reports, aged, cache, jobs, failures, invalidated>>

\* The handler's query; without a latest report it answers 404, which is not cached.
QueryReports(c) ==
  LET newest == GetReport(call[c].client, None)
  IN /\ call[c].stage = "querying"
     /\ IF newest = None /\ call[c].route = "latest"
        THEN Leave(c)
        ELSE call' = [call EXCEPT ![c].stage = "storing", ![c].result = newest]
     /\ UNCHANGED <<reports, aged, cache, jobs, requests, failures, invalidated>>

\* The interceptor stores the response and returns it.
StoreResponse(c) ==
  /\ call[c].stage = "storing"
  /\ cache' = [cache EXCEPT ![Url(c)] = [newest |-> call[c].result,
                                         overtaken |-> call[c].overtaken]]
  /\ Leave(c)
  /\ UNCHANGED <<reports, aged, jobs, requests, failures, invalidated>>

-----------------------------------------------------------------------------
(* Failures and time *)

\* An await throws (for getReport(), in all its four attempts), or the cache refuses.
Fail(c) ==
  /\ call[c].stage \notin {"idle", "next", "answering"}
  /\ failures < MaxFailures
  /\ failures' = failures + 1
  /\ \/ call[c].stage = "listing" /\ Leave(c)
     \/ call[c].kind = "job" /\ call[c].stage # "listing" /\ NextApplication(c, FALSE)
     \/ call[c].kind = "trigger" /\ Goto(c, "answering")
     \/ call[c].kind \in {"post", "get"} /\ Leave(c)
  /\ UNCHANGED <<reports, aged, cache, jobs, requests, invalidated>>

\* The process dies and another one starts: calls and cache are gone.
Crash ==
  /\ failures < MaxFailures
  /\ failures' = failures + 1
  /\ call' = [c \in Calls |-> NoCall]
  /\ cache' = [u \in Urls |-> NotCached]
  /\ UNCHANGED <<reports, aged, jobs, requests, invalidated>>

\* A response has been cached for 12 hours.
Expire == \E url \in Urls :
  /\ Cached(url)
  /\ cache' = [cache EXCEPT ![url] = NotCached]
  /\ UNCHANGED <<reports, aged, call, jobs, requests, failures, invalidated>>

\* The next report turns 30 hours old.
Age == /\ aged < Len(reports)
       /\ aged' = aged + 1
       /\ UNCHANGED <<reports, cache, call, jobs, requests, failures, invalidated>>

Begin(c) == \/ RunClientReportGenerationJob(c) \/ CheckerManualTrigger(c)
            \/ PostClientReport(c) \/ GetClientReport(c)

Step(c) == \/ CreateReport(c) \/ ClientNotFound(c) \/ StoreReportCheck(c) \/ ReadBack(c)
           \/ ListApplications(c) \/ GenerateClientReport(c) \/ EndJob(c)
           \/ LookForLatestReport(c) \/ PostComment(c)
           \/ Invalidate(c) \/ QueryReports(c) \/ StoreResponse(c)

Next == Expire \/ Age \/ Crash \/ \E c \in Calls : Begin(c) \/ Step(c) \/ Fail(c)

Spec == Init /\ [][Next]_vars

\* Every await settles and the event loop resumes whoever waited.
FairSpec == Spec /\ \A c \in Calls : WF_vars(Step(c) \/ Fail(c))

-----------------------------------------------------------------------------
TypeOK == /\ reports \in Seq(Row) /\ Len(reports) <= MaxReports
          /\ aged \in 0..Len(reports)
          /\ cache \in [Urls -> Response \cup {NotCached}]
          /\ call \in [Calls -> Call]
          /\ jobs \in 0..MaxJobs
          /\ requests \in 0..MaxRequests
          /\ failures \in 0..MaxFailures
          /\ invalidated \in [Urls -> 0..MaxReports]

\* The state is typed, and whoever generated a report hands out that one with all its
\* checks, however many generations for the same client run at the same time.
HandedOutComplete == TypeOK /\
  \A c \in Calls :
    /\ call[c].stage \in {"invalidating", "answering"}
    /\ None \notin {call[c].report, call[c].result}
    => call[c].result = call[c].report /\ call[c].checks = NumChecks

\* A run of the job that has dealt with an application has counted it as a failure or
\* generated a report with all its checks since the run began: a failure costs
\* no other application its report.
JobAccountsForAll ==
  \A c \in Calls : call[c].stage = "next" =>
    \A client \in Clients \ call[c].todo :
      \/ client \in call[c].failed
      \/ \E i \in call[c].seen + 1 .. Len(reports) :
            /\ reports[i].client = client
            /\ reports[i].by = "job"
            /\ reports[i].checks = NumChecks

\* The trigger generates a report although there is a recent one only if that
\* one was created after the trigger had looked.
DuplicatesAreRaces ==
  \A i \in DOMAIN reports :
    reports[i].recent = None \/ reports[i].recent > reports[i].seen

\* A cached response lacks a report whose POST has deleted the response under that
\* URL only if the query came before the deletion and the storing after it.
StaleResponsesExplained ==
  \A url \in Urls : Cached(url) =>
    \/ cache[url].newest >= invalidated[url]
    \/ cache[url].overtaken

\* Every run of the job and every request ends.
CallsEnd == \A c \in Calls : call[c].stage # "idle" ~> call[c].stage = "idle"
=============================================================================
