--------------------------- MODULE AggregationTasks ---------------------------
(***************************************************************************)
(* The hourly aggregation job (AggregationTasksService): it executes every *)
(* AggregationRunner once, each after the runners that fill the tables it  *)
(* declares to depend on, and tries a failing runner three times.          *)
(*                                                                         *)
(* What a table holds is abstracted to its vintage: Empty, Stale (built    *)
(* from something an earlier job wrote) or Fresh (built by the current or  *)
(* last job from nothing older).  A runner's vintage is the worst of those *)
(* it reads; the sources outside the aggregation tables count as Fresh.    *)
(***************************************************************************)
EXTENDS Integers, Sequences, FiniteSetsExt

CONSTANTS Calls,       \* invocations of runAggregationJob() that may be pending
          Tables,      \* the AggregationTable values
          Runners,     \* the injected AggregationRunner list, in its order
          StaleTables, \* tables whose runner reads a table it does not declare, or can never run
          MaxFailures  \* bound: failing attempts and crashes

\* What the third argument of executeWithRetries allows.
MaxTries == 3

\* How a runner's writes reach its table: a delete and a createMany, each on
\* its own; one transaction; or once a day, when the day has no rows yet.
Stores == {"replace", "transaction", "daily"}

Runner == [fills : SUBSET Tables, depends : SUBSET Tables,
           reads : SUBSET Tables, store : Stores]

Positions == 1..Len(Runners)

ASSUME RunnersAssumption == Runners \in Seq(Runner)

\* Every table has one runner.
ASSUME FillerAssumption ==
  \A i, j \in Positions : Runners[i].fills \cap Runners[j].fills # {} => i = j

ASSUME BoundsAssumption == StaleTables \subseteq Tables /\ MaxFailures \in Nat

Empty == 0
Stale == 1
Fresh == 2
Vintages == Empty..Fresh

VARIABLES jobInProgress, \* the service's flag
          healthy,       \* what getHealth() reports
          completed,     \* lastSuccess is later than lastRun
          pc,            \* per invocation, the await it is at
          job,           \* per invocation, its locals
          content,       \* per table, its vintage
          doneToday,     \* daily tables that hold rows of the current day
          failures       \* failing attempts and crashes so far

vars == <<jobInProgress, healthy, completed, pc, job, content, doneToday, failures>>

Stages == {"idle", "choosing", "querying", "writing", "deleted", "sleeping"}

Job == [at : Nat,                      \* position in the for loop
        executedRunners : Nat,         \* in this pass of the while loop
        pending : SUBSET Positions,    \* pendingAggregationRunners
        filledTables : SUBSET Tables,
        executionNumber : 0..MaxTries - 1,
        basis : Vintages]              \* vintage of what the attempt has read

NewJob == [at |-> 1, executedRunners |-> 0, pending |-> Positions,
           filledTables |-> {}, executionNumber |-> 0, basis |-> Fresh]

Active(c) == pc[c] # "idle"
Current(c) == Runners[job[c].at]

Init == /\ jobInProgress = FALSE
        /\ healthy = TRUE
        /\ completed = FALSE
        /\ pc = [c \in Calls |-> "idle"]
        /\ job = [c \in Calls |-> NewJob]
        /\ content = [t \in Tables |-> Empty]
        /\ doneToday = {}
        /\ failures = 0

-----------------------------------------------------------------------------
\* With a new job what the last one wrote becomes Stale, the daily rows only
\* when the day has changed.
Age(newDay) ==
  /\ doneToday' = IF newDay THEN {} ELSE doneToday
  /\ content' = [t \in Tables |-> IF content[t] = Fresh /\ t \notin doneToday'
                                  THEN Stale ELSE content[t]]

\* Mutant: no check of jobInProgress.
RunAggregationJob_Unguarded(c) ==
  /\ pc[c] = "idle"
  /\ jobInProgress' = TRUE
  /\ healthy' = TRUE
  /\ completed' = FALSE
  /\ \E newDay \in BOOLEAN : Age(newDay)
  /\ pc' = [pc EXCEPT ![c] = "choosing"]
  /\ job' = [job EXCEPT ![c] = NewJob]
  /\ UNCHANGED failures

\* The cron starts a job; while one is in progress it only logs a warning.
RunAggregationJob(c) ==
  /\ pc[c] = "idle"
  /\ ~jobInProgress
  /\ jobInProgress' = TRUE
  /\ healthy' = TRUE
  /\ completed' = FALSE
  /\ \E newDay \in BOOLEAN : Age(newDay)
  /\ pc' = [pc EXCEPT ![c] = "choosing"]
  /\ job' = [job EXCEPT ![c] = NewJob]
  /\ UNCHANGED failures

\* Mutant: the dependencies are not looked at.
Executable_AnyOrder(c, i) == i \in job[c].pending

\* The runner at position i is pending and all it depends on is filled.
Executable(c, i) == /\ i \in job[c].pending
                    /\ Runners[i].depends \subseteq job[c].filledTables

\* The for loop has positions left in this pass that it will execute.
Remaining(c) == {i \in Positions : i >= job[c].at /\ Executable(c, i)}

\* The loop is at position i, executeWithRetries at its first try.
Reach(j, i) == [j EXCEPT !.at = i, !.executionNumber = 0]

\* The for loop reaches the next runner it executes.
StartRunner(c) ==
  /\ pc[c] = "choosing"
  /\ \E i \in Remaining(c) :
        /\ \A k \in Remaining(c) : i <= k
        /\ job' = [job EXCEPT ![c] = Reach(@, i)]
  /\ pc' = [pc EXCEPT ![c] = "querying"]
  /\ UNCHANGED <<jobInProgress, healthy, completed, content, doneToday, failures>>

\* The for loop is at its start, nothing executed in this pass.
FirstPosition(j) == [j EXCEPT !.at = 1, !.executedRunners = 0]

\* Mutant: executedRunners is not reset, so impossible dependencies loop for ever.
NextPass_NoReset(c) ==
  /\ pc[c] = "choosing"
  /\ Remaining(c) = {}
  /\ job[c].pending # {}
  /\ job[c].executedRunners > 0
  /\ job' = [job EXCEPT ![c].at = 1]
  /\ UNCHANGED <<jobInProgress, healthy, completed, pc, content, doneToday, failures>>

\* The for loop ends, the while loop begins another pass.
NextPass(c) ==
  /\ pc[c] = "choosing"
  /\ Remaining(c) = {}
  /\ job[c].pending # {}
  /\ job[c].executedRunners > 0
  /\ job' = [job EXCEPT ![c] = FirstPosition(@)]
  /\ UNCHANGED <<jobInProgress, healthy, completed, pc, content, doneToday, failures>>

\* The finally clause: the flag is released and the locals are gone.
Release(c) == /\ jobInProgress' = FALSE
              /\ pc' = [pc EXCEPT ![c] = "idle"]
              /\ job' = [job EXCEPT ![c] = NewJob]

\* Mutant: the job ends with the first pass.
Finish_OnePass(c) ==
  /\ pc[c] = "choosing"
  /\ Remaining(c) = {}
  /\ completed' = TRUE
  /\ Release(c)
  /\ UNCHANGED <<healthy, content, doneToday, failures>>

\* No runner is pending, or a whole pass has executed none: the dependencies
\* are impossible, which is logged and counts as a success.
Finish(c) ==
  /\ pc[c] = "choosing"
  /\ Remaining(c) = {}
  /\ job[c].pending = {} \/ job[c].executedRunners = 0
  /\ completed' = TRUE
  /\ Release(c)
  /\ UNCHANGED <<healthy, content, doneToday, failures>>

-----------------------------------------------------------------------------
\* The runner has returned: its tables count as filled, it leaves the pending ones.
Executed(j) == [j EXCEPT !.at = @ + 1,
                         !.executedRunners = @ + 1,
                         !.pending = @ \ {j.at},
                         !.filledTables = @ \cup Runners[j.at].fills]

\* The worst vintage among a set of tables.
Worst(reads) == Min({Fresh} \cup {content[t] : t \in reads})

\* The runner's query returns.
Query(c) ==
  /\ pc[c] = "querying"
  /\ ~(Current(c).store = "daily" /\ Current(c).fills \subseteq doneToday)
  /\ job' = [job EXCEPT ![c].basis = Worst(Current(c).reads)]
  /\ pc' = [pc EXCEPT ![c] = "writing"]
  /\ UNCHANGED <<jobInProgress, healthy, completed, content, doneToday, failures>>

\* A daily runner finds rows of today and returns.
SkipToday(c) ==
  /\ pc[c] = "querying"
  /\ Current(c).store = "daily"
  /\ Current(c).fills \subseteq doneToday
  /\ job' = [job EXCEPT ![c] = Executed(@)]
  /\ pc' = [pc EXCEPT ![c] = "choosing"]
  /\ UNCHANGED <<jobInProgress, healthy, completed, content, doneToday, failures>>

\* The delete of a runner that does not use a transaction.
Delete(c) ==
  /\ pc[c] = "writing"
  /\ Current(c).store = "replace"
  /\ content' = [t \in Tables |-> IF t \in Current(c).fills THEN Empty ELSE content[t]]
  /\ pc' = [pc EXCEPT ![c] = "deleted"]
  /\ UNCHANGED <<jobInProgress, healthy, completed, job, doneToday, failures>>

\* A write is in flight: the transaction, or the createMany after the delete.
AtWrite(c) == IF pc[c] = "writing" THEN Current(c).store # "replace"
                                   ELSE pc[c] = "deleted"

\* The write reaches the database.
Store(c) ==
  /\ content' = [t \in Tables |-> IF t \in Current(c).fills THEN job[c].basis
                                                            ELSE content[t]]
  /\ doneToday' = IF Current(c).store = "daily" THEN doneToday \cup Current(c).fills
                                                ELSE doneToday

\* run() returns after its write.
Write(c) == /\ AtWrite(c)
            /\ Store(c)
            /\ job' = [job EXCEPT ![c] = Executed(@)]
            /\ pc' = [pc EXCEPT ![c] = "choosing"]
            /\ UNCHANGED <<jobInProgress, healthy, completed, failures>>

\* The catch clauses: sleep before the next try, or give the job up.
TryAgain(c) ==
  \/ /\ job[c].executionNumber + 1 < MaxTries
     /\ job' = [job EXCEPT ![c].executionNumber = @ + 1]
     /\ pc' = [pc EXCEPT ![c] = "sleeping"]
     /\ UNCHANGED <<jobInProgress, healthy>>
  \/ /\ job[c].executionNumber + 1 = MaxTries
     /\ healthy' = FALSE
     /\ Release(c)

\* An attempt fails at one of its awaits; a write in flight may have been
\* committed all the same.
AttemptFails(c) ==
  /\ pc[c] \in {"querying", "writing", "deleted"}
  /\ failures < MaxFailures
  /\ failures' = failures + 1
  /\ \/ UNCHANGED <<content, doneToday>>
     \/ AtWrite(c) /\ Store(c)
  /\ TryAgain(c)
  /\ UNCHANGED completed

\* The 90 seconds are over.
Wake(c) == /\ pc[c] = "sleeping"
           /\ pc' = [pc EXCEPT ![c] = "querying"]
           /\ UNCHANGED <<jobInProgress, healthy, completed, job, content, doneToday, failures>>

\* The process dies and a new one starts; a write in flight may be committed.
Crash ==
  /\ jobInProgress
  /\ failures < MaxFailures
  /\ failures' = failures + 1
  /\ \/ UNCHANGED <<content, doneToday>>
     \/ \E c \in Calls : AtWrite(c) /\ Store(c)
  /\ jobInProgress' = FALSE
  /\ healthy' = TRUE
  /\ completed' = FALSE
  /\ pc' = [c \in Calls |-> "idle"]
  /\ job' = [c \in Calls |-> NewJob]

\* What an invocation does when nothing fails.
Step(c) == \/ StartRunner(c) \/ NextPass(c) \/ Finish(c)
           \/ Query(c) \/ SkipToday(c) \/ Delete(c) \/ Write(c) \/ Wake(c)

Next == \/ Crash
        \/ \E c \in Calls : \/ RunAggregationJob(c)
                            \/ Step(c)
                            \/ AttemptFails(c)

Spec == Init /\ [][Next]_vars

\* The cron keeps firing, and every awaited call returns or fails.
FairSpec == /\ Spec
            /\ WF_vars(\E c \in Calls : RunAggregationJob(c))
            /\ \A c \in Calls : WF_vars(Step(c))

-----------------------------------------------------------------------------
TypeOK == /\ jobInProgress \in BOOLEAN
          /\ healthy \in BOOLEAN
          /\ completed \in BOOLEAN
          /\ pc \in [Calls -> Stages]
          /\ job \in [Calls -> Job]
          /\ content \in [Tables -> Vintages]
          /\ doneToday \in SUBSET Tables
          /\ failures \in 0..MaxFailures

\* jobInProgress is set exactly while one job runs: two jobs never interleave
\* their deletes and inserts, and no failure leaves the flag stuck.
SingleJob == /\ jobInProgress <=> \E c \in Calls : Active(c)
             /\ \A c, d \in Calls : Active(c) /\ Active(d) => c = d

\* A table the job counts as filled is built from this job's data all the way
\* down, whatever failed, was retried or was left empty by earlier jobs.
FilledIsFresh ==
  \A c \in Calls : Active(c) =>
     \A t \in job[c].filledTables \ StaleTables : content[t] = Fresh

\* When lastSuccess is later than lastRun, every table is up to date and the
\* health check is green.
CompletedIsFresh ==
  completed => /\ healthy
               /\ \A t \in Tables \ StaleTables : content[t] = Fresh

\* What a run of the job relies on, per invocation: what counts as filled is what
\* the runners that are done fill, the runner it executes was executable, a pass
\* that has executed none has found none, and success is not reported yet.
JobConsistent ==
  \A c \in Calls : Active(c) =>
     /\ job[c].filledTables = UNION {Runners[i].fills : i \in Positions \ job[c].pending}
     /\ pc[c] # "choosing" => job[c].at \in Positions /\ Executable(c, job[c].at)
     /\ job[c].executedRunners = 0 =>
           \A i \in Positions : i < job[c].at => ~Executable(c, i)
     /\ healthy /\ ~completed

\* Attempts that are to write have read nothing older than this job.
BasisIsFresh ==
  \A c \in Calls : /\ pc[c] \in {"writing", "deleted"}
                   /\ ~(Current(c).fills \subseteq StaleTables)
                  => job[c].basis = Fresh

\* The rows of the day are fresh as long as the day lasts.
DoneTodayIsFresh ==
  \A t \in doneToday :
     /\ \E i \in Positions : t \in Runners[i].fills /\ Runners[i].store = "daily"
     /\ t \notin StaleTables => content[t] = Fresh

\* The inductive invariant of the job's control.
IInv == TypeOK /\ SingleJob /\ JobConsistent

\* With IInv, the inductive invariant of what the tables hold.
DataInv == BasisIsFresh /\ DoneTodayIsFresh /\ FilledIsFresh

\* Tables written in a transaction.
AtomicTables == UNION {Runners[i].fills : i \in {k \in Positions : Runners[k].store = "transaction"}}

\* Once filled, a table written in a transaction never shows its readers less
\* than that: the runner is not executed on sources a failed delete/createMany
\* pair has left empty.
AtomicTablesStayFilled ==
  [][\A t \in AtomicTables : content[t] # Empty => content'[t] # Empty]_vars

\* Failures heal, and runners that wait for each other stop nobody: jobs keep completing
\* with every table up to date but theirs.
KeepsCompleting == []<>completed

\* The tables listed as stale are always built from an earlier job's data.
StaleTablesNeverFresh == \A t \in StaleTables : content[t] # Fresh

\* The two sides of one graph of runners: a success leaves every table up to date but
\* the stale ones, and those no order of runs, retries or restarts ever brings up to date.
FreshButStaleTables == CompletedIsFresh /\ StaleTablesNeverFresh

-----------------------------------------------------------------------------
(* What a graph of runners has to satisfy for these properties to hold. *)

FilledBy(Q) == UNION {Runners[i].fills : i \in Q}

\* Runners that the first pass of every job executes in the order of the list:
\* earlier ones of them fill all they depend on.
Prompt(P) == \A p \in P : Runners[p].depends \subseteq FilledBy({q \in P : q < p})

\* Runners that wait for each other.
Deadlocked(D) == \A i \in D : Runners[i].depends \cap FilledBy(D) # {}

\* The runners whose tables are to be up to date after a job.
TimelyRunners == {i \in Positions : ~(Runners[i].fills \subseteq StaleTables)}

\* They read what they declare, or what the first pass has filled before them
\* anyway, and no stale table.
SettledReads(P) ==
  \A i \in TimelyRunners :
     Runners[i].reads \subseteq (Runners[i].depends \cup FilledBy({q \in P : q < i})) \ StaleTables

\* They fill all the other tables, and none depends on itself through others.
Ranked(rank) ==
  /\ Tables \ StaleTables \subseteq FilledBy(TimelyRunners)
  /\ \A i \in TimelyRunners :
        Runners[i].depends \subseteq FilledBy({k \in TimelyRunners : rank[k] < rank[i]})

\* Runner i reads what runner k fills, which waits for runner m, later in the list.
ReadsBefore(i, k, m) ==
  /\ Runners[k].fills \cap Runners[i].reads # {}
  /\ Runners[k].store # "daily"
  /\ Runners[m].fills \cap Runners[k].depends # {}
  /\ i < m

\* Stale tables are stale for a reason.
StaleForGood(P, D) ==
  /\ StaleTables \subseteq FilledBy(Positions)
  /\ \A i \in Positions : Runners[i].fills \cap StaleTables # {} =>
        \/ i \in D
        \/ i \in P /\ \E k, m \in Positions : ReadsBefore(i, k, m)
=============================================================================
