----------------------- MODULE IpniAdvertisementFetcher -----------------------
(***************************************************************************)
(* The daily job that mirrors the IPNI advertisements of every provider    *)
(* (IpniAdvertisementFetcherJobService).  A provider's advertisements form *)
(* a chain, newest first, each naming the previous one; they are numbered  *)
(* by age, 1 being the first.  The job stores the newest and walks back    *)
(* until it meets one that is stored, the end of the chain, or its limit.  *)
(***************************************************************************)
EXTENDS Integers, FiniteSets

CONSTANTS Providers,
          AdLimit,     \* the limit fetchAndStoreAdvertisementsByProvider passes
          MaxAd,       \* bound: advertisements of a provider
          MaxFailures  \* bound: faults of IPNI, publishers, database and process

ASSUME ConstantsAssumption ==
  /\ AdLimit \in Nat
  /\ MaxAd \in Nat \ {0}
  /\ MaxFailures \in Nat

VARIABLES head,        \* per provider, its newest advertisement
          stored,      \* per provider, its rows of ipni_publisher_advertisement
          pc,          \* the await the job is at
          healthy,     \* what getHealth() reports
          listed,      \* per provider, LastAdvertisement when the job listed it
          todo,        \* providers the loop has still to come to
          provider,    \* the provider of the current iteration
          currentAd,
          adLimit,
          batch,       \* rows the current iteration has stored
          interrupted, \* per provider, has a walk ever ended before its time?
          failures     \* faults so far

job == <<pc, healthy, listed, todo, provider, currentAd, adLimit, batch>>
vars == <<head, stored, job, interrupted, failures>>

Ads == 1..MaxAd
Stages == {"idle", "listing", "next", "fetching last", "storing", "fetching previous"}

\* The flag: a cron tick while it is set only logs a warning.
jobInProgress == pc # "idle"

Init == /\ head = [p \in Providers |-> 1]
        /\ stored = [p \in Providers |-> {}]
        /\ pc = "idle"
        /\ healthy = TRUE
        /\ listed = [p \in Providers |-> 1]
        /\ todo = {}
        /\ provider \in Providers
        /\ currentAd = 1
        /\ adLimit = 0
        /\ batch = {}
        /\ interrupted = [p \in Providers |-> FALSE]
        /\ failures = 0

-----------------------------------------------------------------------------
\* A provider publishes an advertisement.
Publish(p) == /\ head[p] < MaxAd
              /\ head' = [head EXCEPT ![p] = @ + 1]
              /\ UNCHANGED <<stored, job, interrupted, failures>>

\* The daily cron starts the job.
RunIPNIAdvertisementFetcherJob ==
  /\ ~jobInProgress
  /\ pc' = "listing"
  /\ healthy' = TRUE
  /\ UNCHANGED <<head, stored, listed, todo, provider, currentAd, adLimit, batch,
                 interrupted, failures>>

\* getIPNIProviders answers with every provider's last advertisement.
List == /\ pc = "listing"
        /\ listed' = head
        /\ todo' = Providers
        /\ pc' = "next"
        /\ UNCHANGED <<head, stored, healthy, provider, currentAd, adLimit, batch,
                       interrupted, failures>>

\* getIPNIProviders fails: the job ends unhealthy.
ListFails == /\ pc = "listing"
             /\ failures < MaxFailures
             /\ failures' = failures + 1
             /\ pc' = "idle"
             /\ healthy' = FALSE
             /\ UNCHANGED <<head, stored, listed, todo, provider, currentAd, adLimit,
                            batch, interrupted>>

\* Mutant: the loop does not move on.
StartProvider_Repeated(p) == /\ pc = "next"
                             /\ p \in todo
                             /\ provider' = p
                             /\ pc' = "fetching last"
                             /\ UNCHANGED <<head, stored, healthy, listed, todo, currentAd,
                                            adLimit, batch, interrupted, failures>>

\* The loop comes to a provider.
StartProvider(p) == /\ pc = "next"
                    /\ p \in todo
                    /\ todo' = todo \ {p}
                    /\ provider' = p
                    /\ pc' = "fetching last"
                    /\ UNCHANGED <<head, stored, healthy, listed, currentAd, adLimit,
                                   batch, interrupted, failures>>

\* The publisher answers with the advertisement the listing named.
FetchLast == /\ pc = "fetching last"
             /\ currentAd' = listed[provider]
             /\ adLimit' = AdLimit
             /\ pc' = "storing"
             /\ UNCHANGED <<head, stored, healthy, listed, todo, provider, batch,
                            interrupted, failures>>

\* The row of the current advertisement is in the table.
Insert == stored' = [stored EXCEPT ![provider] = @ \cup {currentAd}]

\* The walk is over: its locals are gone, the loop goes on.
EndWalk == /\ pc' = "next"
           /\ currentAd' = 1
           /\ adLimit' = 0
           /\ batch' = {}

\* Mutant: an advertisement that is stored is passed over.
AlreadyStored_Continue == /\ pc = "storing"
                          /\ currentAd \in stored[provider]
                          /\ \/ /\ currentAd > 1
                                /\ pc' = "fetching previous"
                                /\ UNCHANGED <<currentAd, adLimit, batch>>
                             \/ currentAd = 1 /\ EndWalk
                          /\ UNCHANGED <<head, stored, healthy, listed, todo, provider,
                                         interrupted, failures>>

\* The id exists (P2002): the walk ends.
AlreadyStored == /\ pc = "storing"
                 /\ currentAd \in stored[provider]
                 /\ EndWalk
                 /\ UNCHANGED <<head, stored, healthy, listed, todo, provider,
                                interrupted, failures>>

\* The row is created; the walk goes on unless the chain ends here.
Store == /\ pc = "storing"
         /\ currentAd \notin stored[provider]
         /\ Insert
         /\ \/ /\ currentAd > 1
               /\ batch' = batch \cup {currentAd}
               /\ pc' = "fetching previous"
               /\ UNCHANGED <<currentAd, adLimit>>
            \/ currentAd = 1 /\ EndWalk
         /\ UNCHANGED <<head, healthy, listed, todo, provider, interrupted, failures>>

\* adLimit-- > 0
WithinLimit == adLimit > 0

\* Mutant: the walk takes every second advertisement.
PreviousAd_Skip == IF currentAd > 2 THEN currentAd - 2 ELSE 1

\* PreviousID
PreviousAd == currentAd - 1

\* The previous advertisement is fetched, and stored next if the limit allows.
FetchPrevious ==
  /\ pc = "fetching previous"
  /\ \/ /\ WithinLimit
        /\ currentAd' = PreviousAd
        /\ adLimit' = adLimit - 1
        /\ pc' = "storing"
        /\ UNCHANGED <<batch, interrupted>>
     \/ /\ ~WithinLimit
        /\ interrupted' = [interrupted EXCEPT ![provider] = @ \/ stored[provider] # batch]
        /\ EndWalk
  /\ UNCHANGED <<head, stored, healthy, listed, todo, provider, failures>>

Walking == pc \in {"fetching last", "storing", "fetching previous"}

\* An awaited call of the walk fails, which is logged; the loop goes on.  The
\* row may have been created all the same.
ProviderFails == /\ Walking
                 /\ failures < MaxFailures
                 /\ failures' = failures + 1
                 /\ UNCHANGED stored \/ (pc = "storing" /\ Insert)
                 /\ interrupted' = [interrupted EXCEPT ![provider] = TRUE]
                 /\ EndWalk
                 /\ UNCHANGED <<head, healthy, listed, todo, provider>>

\* Every provider has had its turn.
Finish == /\ pc = "next"
          /\ todo = {}
          /\ pc' = "idle"
          /\ UNCHANGED <<head, stored, healthy, listed, todo, provider, currentAd,
                         adLimit, batch, interrupted, failures>>

\* The process dies and a new one starts.
Crash == /\ jobInProgress
         /\ failures < MaxFailures
         /\ failures' = failures + 1
         /\ UNCHANGED stored \/ (pc = "storing" /\ Insert)
         /\ interrupted' = [interrupted EXCEPT ![provider] = @ \/ Walking]
         /\ pc' = "idle"
         /\ healthy' = TRUE
         /\ todo' = {}
         /\ currentAd' = 1
         /\ adLimit' = 0
         /\ batch' = {}
         /\ UNCHANGED <<head, listed, provider>>

Step == \/ List \/ FetchLast \/ AlreadyStored \/ Store \/ FetchPrevious \/ Finish
        \/ \E p \in Providers : StartProvider(p)

Next == \/ \E p \in Providers : Publish(p)
        \/ RunIPNIAdvertisementFetcherJob \/ Step
        \/ ListFails \/ ProviderFails \/ Crash

Spec == Init /\ [][Next]_vars

\* The cron keeps firing, and every awaited call returns or fails.
FairSpec == Spec /\ WF_vars(RunIPNIAdvertisementFetcherJob) /\ WF_vars(Step)

-----------------------------------------------------------------------------
TypeOK == /\ head \in [Providers -> Ads]
          /\ stored \in [Providers -> SUBSET Ads]
          /\ pc \in Stages
          /\ healthy \in BOOLEAN
          /\ listed \in [Providers -> Ads]
          /\ todo \in SUBSET Providers
          /\ provider \in Providers
          /\ currentAd \in Ads
          /\ adLimit \in 0..AdLimit
          /\ batch \in SUBSET Ads /\ Cardinality(batch) <= AdLimit + 1
          /\ interrupted \in [Providers -> BOOLEAN]
          /\ failures \in 0..MaxFailures

\* The state is typed, and the rows of a provider have no hole between them, unless a
\* walk failed or met its limit above rows of an earlier day; growth of the chain during
\* the job and stale listings open none.
NoUnexplainedHoles == TypeOK /\
  \A p \in Providers :
     ~interrupted[p] /\ ~(Walking /\ p = provider) =>
        \A a, b \in stored[p] : (a + 1)..(b - 1) \subseteq stored[p]

\* A hole is for ever: no row is added below one of an earlier walk, which is
\* what makes a failure in the middle of a walk lasting.
NothingAddedBelow ==
  [][\A p \in Providers : \A a \in stored'[p] \ stored[p] :
        \A b \in stored[p] : b \notin batch => a > b]_vars

\* What a provider publishes shows in the table in the end: that advertisement
\* or a later one is stored.
NewestStored == \A p \in Providers : \A a \in Ads :
                  (head[p] >= a) ~> (\E b \in stored[p] : b >= a)
=============================================================================
