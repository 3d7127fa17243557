------------------------ MODULE AggregationTasksProofs ------------------------
(***************************************************************************)
(* Theorems about AggregationTasks, for every graph of runners, every      *)
(* number of pending jobs and every number of failures: one job at a time, *)
(* and, when what a runner reads is declared or filled promptly, a success *)
(* leaves every table up to date but those that never can be.              *)
(***************************************************************************)
EXTENDS AggregationTasks, WellFoundedInduction, TLAPS

(* Numbers and vintages. *)

\* A set of numbers that is not empty has a smallest one.
LEMMA Smallest ==
  ASSUME NEW T \in SUBSET Nat, T # {}
  PROVE  \E x \in T : \A y \in T : x <= y
<1> DEFINE R == {ss \in Nat \X Nat : ss[1] < ss[2]}
<1>1. IsWellFoundedOn(R, Nat)
  BY NatLessThanWellFounded DEF OpToRel
<1>2. \A x, y \in Nat : y < x => <<y, x>> \in R
  OBVIOUS
<1> HIDE DEF R
<1>3. PICK x \in T : \A y \in T : ~(<<y, x>> \in R)
  BY <1>1, WFMin
<1>4. \A y \in T : ~(y < x)
  BY <1>2, <1>3
<1> QED
  BY <1>4

\* What a runner reads has a vintage, and it is Fresh exactly when all of it is.
LEMMA WorstVintage ==
  ASSUME TypeOK, NEW reads \in SUBSET Tables
  PROVE  /\ Worst(reads) \in Vintages
         /\ Worst(reads) = Fresh <=> \A t \in reads : content[t] = Fresh
<1> DEFINE S == {Fresh} \cup {content[t] : t \in reads}
<1>1. S \subseteq Vintages /\ S # {}
  BY DEF TypeOK, Vintages, Fresh, Empty
<1>2. PICK m \in S : \A y \in S : m =< y
  <2>1. CASE 0 \in S
    BY <2>1, <1>1 DEF Vintages, Fresh, Empty
  <2>2. CASE 0 \notin S /\ 1 \in S
    BY <2>2, <1>1 DEF Vintages, Fresh, Empty
  <2>3. CASE 0 \notin S /\ 1 \notin S
    BY <2>3, <1>1 DEF Vintages, Fresh, Empty
  <2> QED
    BY <2>1, <2>2, <2>3
<1>3. Min(S) \in S /\ \A y \in S : Min(S) <= y
  BY <1>2 DEF Min
<1>4. ASSUME NEW t \in reads, Min(S) = Fresh PROVE content[t] = Fresh
  <2>1. content[t] \in Vintages /\ Fresh <= content[t]
    BY <1>1, <1>3, <1>4
  <2> QED
    BY <2>1 DEF Vintages, Fresh, Empty
<1>5. (\A t \in reads : content[t] = Fresh) => Min(S) = Fresh
  BY <1>3
<1> QED
  BY <1>1, <1>3, <1>4, <1>5 DEF Worst

\* The runner an invocation is at, when it is executing one.
LEMMA CurrentRunner ==
  ASSUME TypeOK, JobConsistent, NEW c \in Calls, Active(c), pc[c] # "choosing"
  PROVE  /\ job[c].at \in job[c].pending /\ job[c].at \in Positions
         /\ Current(c) = Runners[job[c].at]
         /\ Current(c) \in Runner
         /\ Current(c).depends \subseteq job[c].filledTables
         /\ Current(c).fills \cap job[c].filledTables = {}
<1>1. job[c].at \in Positions /\ Executable(c, job[c].at)
  BY DEF JobConsistent
<1>2. Runners[job[c].at] \in Runner
  BY <1>1, RunnersAssumption DEF Positions
<1>3. ASSUME NEW t \in Runners[job[c].at].fills, t \in job[c].filledTables PROVE FALSE
  <2>1. PICK i \in Positions \ job[c].pending : t \in Runners[i].fills
    BY <1>3 DEF JobConsistent
  <2>2. i = job[c].at
    BY <1>1, <1>3, <2>1, FillerAssumption
  <2> QED
    BY <1>1, <2>1, <2>2 DEF Executable
<1> QED
  BY <1>1, <1>2, <1>3 DEF Executable, Current

\* A write stores vintages, of the day if the runner is daily.
LEMMA StoreTyped ==
  ASSUME IInv, NEW c \in Calls, AtWrite(c), Store(c)
  PROVE  content' \in [Tables -> Vintages] /\ doneToday' \in SUBSET Tables
<1>1. pc[c] \in {"writing", "deleted"}
  BY DEF AtWrite
<1>2. Current(c) \in Runner
  BY <1>1, CurrentRunner DEF Active, IInv
<1>3. job[c].basis \in Vintages
  BY DEF IInv, TypeOK, Job
<1> QED
  BY <1>2, <1>3 DEF Store, IInv, TypeOK, Runner

\* A write stores what the attempt has read, and disturbs no table that is
\* counted as filled or that holds rows of the day.
LEMMA StoreCorrect ==
  ASSUME IInv, BasisIsFresh, DoneTodayIsFresh, NEW c \in Calls, AtWrite(c), Store(c)
  PROVE  /\ \A t \in job[c].filledTables : content'[t] = content[t]
         /\ \A t \in Current(c).fills \ StaleTables : content'[t] = Fresh
         /\ DoneTodayIsFresh'
<1> USE DEF IInv
<1>1. pc[c] \in {"writing", "deleted"}
  BY DEF AtWrite
<1>2. /\ Current(c) \in Runner /\ job[c].at \in Positions /\ Current(c) = Runners[job[c].at]
      /\ Current(c).fills \cap job[c].filledTables = {}
  BY <1>1, CurrentRunner DEF Active
<1>3. job[c].basis \in Vintages /\ job[c].filledTables \subseteq Tables
  BY DEF TypeOK, Job
<1>4. \A t \in job[c].filledTables : content'[t] = content[t]
  BY <1>2, <1>3 DEF Store
<1>5. \A t \in Current(c).fills \ StaleTables : content'[t] = Fresh
  BY <1>1, <1>2 DEF Store, BasisIsFresh, Runner
<1>6. DoneTodayIsFresh'
  <2> SUFFICES ASSUME NEW t \in doneToday'
               PROVE  /\ \E i \in Positions : t \in Runners[i].fills /\ Runners[i].store = "daily"
                      /\ t \notin StaleTables => content'[t] = Fresh
    BY DEF DoneTodayIsFresh
  <2>1. CASE t \in Current(c).fills /\ Current(c).store = "daily"
    BY <1>2, <1>5, <2>1
  <2>2. CASE ~(t \in Current(c).fills /\ Current(c).store = "daily")
    <3>1. t \in doneToday
      BY <2>2 DEF Store
    <3>2. t \in Tables
      BY <3>1 DEF TypeOK
    <3> QED
      BY <1>5, <3>1, <3>2 DEF Store, DoneTodayIsFresh
  <2> QED
    BY <2>1, <2>2
<1> QED
  BY <1>4, <1>5, <1>6

-----------------------------------------------------------------------------
(* The locals of an invocation. *)

LEMMA NewJobTyped ==
  /\ NewJob \in Job
  /\ NewJob.executedRunners = 0 /\ NewJob.at = 1
  /\ NewJob.pending = Positions /\ NewJob.filledTables = {}
  BY DEF NewJob, Job, Vintages, Empty, Fresh, MaxTries

\* The loop comes to position i.
LEMMA ReachJob ==
  ASSUME NEW j \in Job, NEW i \in Nat
  PROVE  /\ Reach(j, i) \in Job
         /\ Reach(j, i).at = i
         /\ Reach(j, i).executedRunners = j.executedRunners
         /\ Reach(j, i).pending = j.pending
         /\ Reach(j, i).filledTables = j.filledTables
         /\ Reach(j, i).basis = j.basis
<1> DEFINE r == [j EXCEPT !.at = i]
<1>1. /\ r \in Job /\ r.at = i /\ r.executedRunners = j.executedRunners
      /\ r.pending = j.pending /\ r.filledTables = j.filledTables /\ r.basis = j.basis
  BY DEF Job
<1>2. Reach(j, i) = [r EXCEPT !.executionNumber = 0]
  BY DEF Reach
<1> HIDE DEF r
<1> QED
  BY <1>1, <1>2 DEF Job, MaxTries

\* Another pass begins.
LEMMA FirstPositionJob ==
  ASSUME NEW j \in Job
  PROVE  /\ FirstPosition(j) \in Job
         /\ FirstPosition(j).at = 1
         /\ FirstPosition(j).pending = j.pending
         /\ FirstPosition(j).filledTables = j.filledTables
<1> DEFINE r == [j EXCEPT !.at = 1]
<1>1. /\ r \in Job /\ r.at = 1 /\ r.pending = j.pending /\ r.filledTables = j.filledTables
  BY DEF Job
<1>2. FirstPosition(j) = [r EXCEPT !.executedRunners = 0]
  BY DEF FirstPosition
<1> HIDE DEF r
<1> QED
  BY <1>1, <1>2 DEF Job

\* A runner has been executed.
LEMMA ExecutedJob ==
  ASSUME NEW j \in Job, j.at \in Positions
  PROVE  /\ Executed(j) \in Job
         /\ Executed(j).executedRunners # 0
         /\ Executed(j).at = j.at + 1
         /\ Executed(j).pending = j.pending \ {j.at}
         /\ Executed(j).filledTables = j.filledTables \cup Runners[j.at].fills
<1>1. Runners[j.at].fills \in SUBSET Tables
  <2>1. Runners[j.at] \in Runner
    BY RunnersAssumption DEF Positions
  <2> QED
    BY <2>1 DEF Runner
<1> DEFINE r1 == [j EXCEPT !.at = j.at + 1]
           r2 == [r1 EXCEPT !.executedRunners = j.executedRunners + 1]
           r3 == [r2 EXCEPT !.pending = j.pending \ {j.at}]
           r4 == [r3 EXCEPT !.filledTables = j.filledTables \cup Runners[j.at].fills]
<1>2. /\ r1 \in Job /\ r1.executedRunners = j.executedRunners /\ r1.pending = j.pending
      /\ r1.filledTables = j.filledTables /\ r1.at = j.at + 1
  BY DEF Job
<1>3. Executed(j) = r4
  BY <1>2 DEF Executed, Job
<1> HIDE DEF r1
<1>4. /\ r2 \in Job /\ r2.executedRunners = j.executedRunners + 1 /\ r2.at = j.at + 1
  BY <1>2 DEF Job
<1> HIDE DEF r2
<1>5. /\ r3 \in Job /\ r3.executedRunners = j.executedRunners + 1 /\ r3.at = j.at + 1
      /\ r3.pending = j.pending \ {j.at}
  BY <1>4 DEF Job
<1> HIDE DEF r3
<1>6. /\ r4 \in Job /\ r4.executedRunners = j.executedRunners + 1 /\ r4.at = j.at + 1
      /\ r4.pending = j.pending \ {j.at}
      /\ r4.filledTables = j.filledTables \cup Runners[j.at].fills
  BY <1>1, <1>5 DEF Job
<1>7. j.executedRunners + 1 # 0
  BY DEF Job
<1> QED
  BY <1>3, <1>6, <1>7

-----------------------------------------------------------------------------
(* The control of the job: one at a time, and what its passes rely on. *)

LEMMA InitIInv == Init => IInv
<1> SUFFICES ASSUME Init PROVE IInv
  OBVIOUS
<1> USE BoundsAssumption DEF Init
<1>1. TypeOK
  <2>1. jobInProgress \in BOOLEAN /\ healthy \in BOOLEAN /\ completed \in BOOLEAN
    OBVIOUS
  <2>2. pc \in [Calls -> Stages] /\ job \in [Calls -> Job]
    BY NewJobTyped DEF Stages
  <2>3. content \in [Tables -> Vintages] /\ doneToday \in SUBSET Tables /\ failures \in 0..MaxFailures
    BY DEF Vintages, Empty, Fresh
  <2> QED
    BY <2>1, <2>2, <2>3 DEF TypeOK
<1>2. SingleJob /\ JobConsistent
  BY DEF SingleJob, JobConsistent, Active
<1> QED
  BY <1>1, <1>2 DEF IInv

\* While a job is in progress, only its own invocation is active, and success
\* is not reported.
LEMMA OnlyJob ==
  ASSUME IInv, NEW c \in Calls, Active(c)
  PROVE  /\ \A d \in Calls : Active(d) <=> d = c
         /\ jobInProgress /\ healthy /\ ~completed
         /\ job[c] \in Job
  BY DEF IInv, SingleJob, JobConsistent, TypeOK

\* An invocation that stays active keeps the job the only one.
LEMMA KeepsSingleJob ==
  ASSUME IInv, NEW c \in Calls, Active(c), UNCHANGED jobInProgress,
         NEW s \in Stages \ {"idle"}, pc' = [pc EXCEPT ![c] = s]
  PROVE  /\ SingleJob' /\ pc' \in [Calls -> Stages] /\ pc'[c] = s
         /\ \A d \in Calls : Active(d)' <=> d = c
  BY DEF IInv, TypeOK, SingleJob, Active

\* JobConsistent is about the only active invocation.
LEMMA JobConsistentOf ==
  ASSUME NEW c \in Calls, \A d \in Calls : Active(d)' => d = c,
         job'[c].filledTables = UNION {Runners[i].fills : i \in Positions \ job'[c].pending},
         pc'[c] # "choosing" => job'[c].at \in Positions /\ Executable(c, job[c].at)',
         job'[c].executedRunners = 0 =>
            \A i \in Positions : i < job'[c].at => ~Executable(c, i)',
         healthy', ~completed'
  PROVE  JobConsistent'
<1> SUFFICES ASSUME NEW d \in Calls, Active(d)'
             PROVE  /\ job'[c].filledTables = UNION {Runners[i].fills : i \in Positions \ job'[c].pending}
                    /\ pc'[c] # "choosing" => job'[c].at \in Positions /\ Executable(c, job[c].at)'
                    /\ job'[c].executedRunners = 0 =>
                          \A i \in Positions : i < job'[c].at => ~Executable(c, i)'
                    /\ healthy' /\ ~completed'
  BY DEF JobConsistent
<1> QED
  OBVIOUS

\* Within an attempt, or between two of them, the pass stays where it is.
LEMMA SamePass ==
  ASSUME IInv, NEW c \in Calls, Active(c), pc[c] # "choosing",
         UNCHANGED <<jobInProgress, healthy, completed>>,
         NEW s \in Stages \ {"idle", "choosing"}, pc' = [pc EXCEPT ![c] = s],
         job'[c].at = job[c].at, job'[c].executedRunners = job[c].executedRunners,
         job'[c].pending = job[c].pending, job'[c].filledTables = job[c].filledTables
  PROVE  /\ SingleJob' /\ pc' \in [Calls -> Stages] /\ JobConsistent'
         /\ \A d \in Calls : Active(d)' <=> d = c
<1>1. /\ SingleJob' /\ pc' \in [Calls -> Stages] /\ pc'[c] = s
      /\ \A d \in Calls : Active(d)' <=> d = c
  BY KeepsSingleJob
<1>2. \A i \in Positions : Executable(c, i)' <=> Executable(c, i)
  BY DEF Executable
<1>3. /\ job[c].filledTables = UNION {Runners[i].fills : i \in Positions \ job[c].pending}
      /\ job[c].at \in Positions /\ Executable(c, job[c].at)
      /\ job[c].executedRunners = 0 =>
            \A i \in Positions : i < job[c].at => ~Executable(c, i)
      /\ healthy /\ ~completed
  BY DEF IInv, JobConsistent
<1>4. job'[c].filledTables = UNION {Runners[i].fills : i \in Positions \ job'[c].pending}
  BY <1>3
<1>5. job'[c].at \in Positions /\ Executable(c, job[c].at)'
  BY <1>2, <1>3
<1>6. job'[c].executedRunners = 0 =>
         \A i \in Positions : i < job'[c].at => ~Executable(c, i)'
  BY <1>2, <1>3
<1>7. JobConsistent'
  BY <1>1, <1>3, <1>4, <1>5, <1>6, JobConsistentOf
<1> QED
  BY <1>1, <1>7

\* A runner has been executed: the pass has executed one, and what it fills is
\* what the runners that are done fill.
LEMMA RunnerDone ==
  ASSUME IInv, NEW c \in Calls, Active(c), pc[c] # "choosing",
         UNCHANGED <<jobInProgress, healthy, completed>>,
         pc' = [pc EXCEPT ![c] = "choosing"], job' = [job EXCEPT ![c] = Executed(@)]
  PROVE  /\ SingleJob' /\ pc' \in [Calls -> Stages] /\ job' \in [Calls -> Job] /\ JobConsistent'
         /\ \A d \in Calls : Active(d)' <=> d = c
         /\ job'[c].filledTables = job[c].filledTables \cup Current(c).fills
<1>1. /\ SingleJob' /\ pc' \in [Calls -> Stages] /\ pc'[c] = "choosing"
      /\ \A d \in Calls : Active(d)' <=> d = c
  BY KeepsSingleJob DEF Stages
<1>2. /\ job[c].at \in job[c].pending /\ job[c].at \in Positions
      /\ Current(c) = Runners[job[c].at] /\ job[c] \in Job
  BY CurrentRunner DEF IInv, TypeOK
<1>3. job'[c] = Executed(job[c])
  BY DEF IInv, TypeOK
<1>4. /\ job'[c] \in Job /\ job'[c].executedRunners # 0
      /\ job'[c].pending = job[c].pending \ {job[c].at}
      /\ job'[c].filledTables = job[c].filledTables \cup Runners[job[c].at].fills
  BY <1>2, <1>3, ExecutedJob
<1>5. job' \in [Calls -> Job]
  BY <1>3, <1>4 DEF IInv, TypeOK
<1>6. job'[c].filledTables = UNION {Runners[i].fills : i \in Positions \ job'[c].pending}
  <2>1. job[c].filledTables = UNION {Runners[i].fills : i \in Positions \ job[c].pending}
    BY DEF IInv, JobConsistent
  <2>2. Positions \ job'[c].pending = (Positions \ job[c].pending) \cup {job[c].at}
    BY <1>2, <1>4
  <2> QED
    BY <1>4, <2>1, <2>2
<1>7. healthy' /\ ~completed'
  BY OnlyJob
<1>8. JobConsistent'
  BY <1>1, <1>4, <1>6, <1>7, JobConsistentOf
<1> QED
  BY <1>1, <1>2, <1>4, <1>5, <1>8

\* The locals of the invocation are released: no job is left.
LEMMA Released ==
  ASSUME IInv, NEW c \in Calls, Active(c), Release(c)
  PROVE  /\ jobInProgress' \in BOOLEAN /\ pc' \in [Calls -> Stages] /\ job' \in [Calls -> Job]
         /\ SingleJob' /\ JobConsistent'
         /\ \A d \in Calls : pc'[d] = "idle"
<1>1. \A d \in Calls : pc'[d] = "idle"
  BY OnlyJob DEF Release, Active, IInv, TypeOK
<1>2. jobInProgress' \in BOOLEAN
  BY DEF Release
<1>3. pc' \in [Calls -> Stages] /\ job' \in [Calls -> Job]
  BY NewJobTyped DEF Release, IInv, TypeOK, Stages
<1> QED
  BY <1>1, <1>2, <1>3 DEF Release, SingleJob, JobConsistent, Active

LEMMA RunAggregationJobIInv ==
  ASSUME IInv, NEW c \in Calls, RunAggregationJob(c)
  PROVE  IInv'
<1> USE DEF IInv, RunAggregationJob
<1>1. TypeOK'
  <2>1. jobInProgress' \in BOOLEAN /\ healthy' \in BOOLEAN /\ completed' \in BOOLEAN
    OBVIOUS
  <2>2. pc' \in [Calls -> Stages] /\ job' \in [Calls -> Job]
    BY NewJobTyped DEF TypeOK, Stages
  <2>3. content' \in [Tables -> Vintages] /\ doneToday' \in SUBSET Tables
    BY DEF TypeOK, Age, Vintages, Empty, Stale, Fresh
  <2> QED
    BY <2>1, <2>2, <2>3 DEF TypeOK
<1>2. \A d \in Calls : pc'[d] = IF d = c THEN "choosing" ELSE "idle"
  BY DEF TypeOK, SingleJob, Active
<1>3. job'[c] = NewJob
  BY DEF TypeOK
<1>4. SingleJob'
  BY <1>2 DEF SingleJob, Active
<1>5. JobConsistent'
  BY <1>2, <1>3, NewJobTyped DEF JobConsistent, Active, Positions
<1> QED
  BY <1>1, <1>4, <1>5

LEMMA StartRunnerIInv ==
  ASSUME IInv, NEW c \in Calls, StartRunner(c)
  PROVE  /\ IInv' /\ job'[c].filledTables = job[c].filledTables
         /\ \A d \in Calls : Active(d)' <=> d = c
<1> USE DEF IInv
<1>1. Active(c)
  BY DEF StartRunner, Active
<1>2. PICK i \in Remaining(c) : /\ \A k \in Remaining(c) : i <= k
                                /\ job' = [job EXCEPT ![c] = Reach(@, i)]
  BY DEF StartRunner
<1>3. i \in Positions /\ i >= job[c].at /\ Executable(c, i)
  BY <1>2 DEF Remaining
<1>4. /\ job[c] \in Job /\ job'[c] \in Job
      /\ job'[c].at = i /\ job'[c].executedRunners = job[c].executedRunners
      /\ job'[c].pending = job[c].pending /\ job'[c].filledTables = job[c].filledTables
  <2>1. job[c] \in Job /\ i \in Nat
    BY <1>3 DEF TypeOK, Positions
  <2>2. job'[c] = Reach(job[c], i)
    BY <1>2 DEF TypeOK
  <2> QED
    BY <2>1, <2>2, ReachJob
<1>5. /\ SingleJob' /\ pc' \in [Calls -> Stages]
      /\ \A d \in Calls : Active(d)' <=> d = c
  BY <1>1, KeepsSingleJob DEF StartRunner, Stages
<1>6. TypeOK'
  <2>1. job' \in [Calls -> Job]
    BY <1>2, <1>4 DEF TypeOK
  <2> QED
    BY <1>5, <2>1 DEF TypeOK, StartRunner
<1>7. JobConsistent'
  <2>1. \A k \in Positions : Executable(c, k)' <=> Executable(c, k)
    BY <1>4 DEF Executable
  <2>2. job'[c].executedRunners = 0 => \A k \in Positions : k < job'[c].at => ~Executable(c, k)'
    <3> SUFFICES ASSUME job[c].executedRunners = 0, NEW k \in Positions, k < i
                 PROVE  ~Executable(c, k)
      BY <1>4, <2>1
    <3>1. CASE k < job[c].at
      BY <1>1, <3>1 DEF JobConsistent
    <3>2. CASE k >= job[c].at
      BY <1>2, <1>3, <3>2 DEF Remaining, Positions
    <3> QED
      BY <1>4, <3>1, <3>2 DEF Job, Positions
  <2>3. job'[c].filledTables = UNION {Runners[k].fills : k \in Positions \ job'[c].pending}
    BY <1>1, <1>4 DEF JobConsistent
  <2>4. job'[c].at \in Positions /\ Executable(c, job[c].at)'
    BY <1>3, <1>4, <2>1
  <2>5. healthy' /\ ~completed'
    BY <1>1, OnlyJob DEF StartRunner
  <2> QED
    BY <1>5, <2>2, <2>3, <2>4, <2>5, JobConsistentOf
<1> QED
  BY <1>4, <1>5, <1>6, <1>7

LEMMA NextPassIInv ==
  ASSUME IInv, NEW c \in Calls, NextPass(c)
  PROVE  /\ IInv' /\ job'[c].filledTables = job[c].filledTables
         /\ \A d \in Calls : Active(d)' <=> d = c
<1> USE DEF IInv, NextPass
<1>1. Active(c)
  BY DEF Active
<1>2. job[c] \in Job /\ job'[c] = FirstPosition(job[c])
  BY DEF TypeOK
<1>3. /\ job'[c] \in Job /\ job'[c].at = 1
      /\ job'[c].pending = job[c].pending /\ job'[c].filledTables = job[c].filledTables
  BY <1>2, FirstPositionJob
<1>4. TypeOK'
  BY <1>3 DEF TypeOK
<1>5. SingleJob' /\ \A d \in Calls : Active(d)' <=> d = c
  BY <1>1, OnlyJob DEF SingleJob, Active
<1>6. job'[c].filledTables = UNION {Runners[k].fills : k \in Positions \ job'[c].pending}
  BY <1>1, <1>3 DEF JobConsistent
<1>7. healthy' /\ ~completed'
  BY <1>1, OnlyJob
<1>8. JobConsistent'
  BY <1>3, <1>5, <1>6, <1>7, JobConsistentOf DEF Positions
<1> QED
  BY <1>3, <1>4, <1>5, <1>8

LEMMA FinishIInv ==
  ASSUME IInv, NEW c \in Calls, Finish(c)
  PROVE  IInv' /\ \A d \in Calls : pc'[d] = "idle"
<1>1. Active(c)
  BY DEF Finish, Active
<1>2. /\ jobInProgress' \in BOOLEAN /\ pc' \in [Calls -> Stages] /\ job' \in [Calls -> Job]
      /\ SingleJob' /\ JobConsistent'
      /\ \A d \in Calls : pc'[d] = "idle"
  BY <1>1, Released DEF Finish
<1>3. completed' \in BOOLEAN
  BY DEF Finish
<1>4. TypeOK'
  BY <1>2, <1>3 DEF IInv, TypeOK, Finish
<1> QED
  BY <1>2, <1>4 DEF IInv

LEMMA QueryIInv ==
  ASSUME IInv, NEW c \in Calls, Query(c)
  PROVE  /\ IInv' /\ job'[c].filledTables = job[c].filledTables
         /\ job'[c].at = job[c].at
         /\ job'[c].basis = Worst(Current(c).reads)
         /\ \A d \in Calls : Active(d)' <=> d = c
<1> USE DEF IInv, Query
<1>1. Active(c) /\ pc[c] # "choosing"
  BY DEF Active
<1>2. Current(c).reads \in SUBSET Tables
  BY <1>1, CurrentRunner DEF Runner
<1>3. Worst(Current(c).reads) \in Vintages
  BY <1>2, WorstVintage
<1>4. job[c] \in Job /\ job'[c] = [job[c] EXCEPT !.basis = Worst(Current(c).reads)]
  BY DEF TypeOK
<1>5. /\ job'[c] \in Job /\ job'[c].at = job[c].at
      /\ job'[c].executedRunners = job[c].executedRunners
      /\ job'[c].pending = job[c].pending /\ job'[c].filledTables = job[c].filledTables
      /\ job'[c].basis = Worst(Current(c).reads)
  BY <1>3, <1>4 DEF Job
<1>6. job' \in [Calls -> Job]
  BY <1>5 DEF TypeOK
<1>7. /\ SingleJob' /\ pc' \in [Calls -> Stages] /\ JobConsistent'
      /\ \A d \in Calls : Active(d)' <=> d = c
  BY <1>1, <1>5, SamePass DEF Stages
<1> QED
  BY <1>5, <1>6, <1>7 DEF TypeOK

LEMMA SkipTodayIInv ==
  ASSUME IInv, NEW c \in Calls, SkipToday(c)
  PROVE  /\ IInv' /\ job'[c].filledTables = job[c].filledTables \cup Current(c).fills
         /\ \A d \in Calls : Active(d)' <=> d = c
<1>1. Active(c) /\ pc[c] # "choosing"
  BY DEF Active, SkipToday
<1>2. /\ SingleJob' /\ pc' \in [Calls -> Stages] /\ job' \in [Calls -> Job] /\ JobConsistent'
      /\ \A d \in Calls : Active(d)' <=> d = c
      /\ job'[c].filledTables = job[c].filledTables \cup Current(c).fills
  BY <1>1, RunnerDone DEF SkipToday
<1> QED
  BY <1>2 DEF IInv, TypeOK, SkipToday

LEMMA DeleteIInv ==
  ASSUME IInv, NEW c \in Calls, Delete(c)
  PROVE  IInv' /\ \A d \in Calls : Active(d)' <=> d = c
<1>1. Active(c) /\ pc[c] # "choosing"
  BY DEF Active, Delete
<1>2. /\ SingleJob' /\ pc' \in [Calls -> Stages] /\ JobConsistent'
      /\ \A d \in Calls : Active(d)' <=> d = c
  BY <1>1, SamePass DEF Stages, Delete
<1>3. content' \in [Tables -> Vintages]
  BY DEF Delete, IInv, TypeOK, Vintages, Empty, Fresh
<1> QED
  BY <1>2, <1>3 DEF IInv, TypeOK, Delete

LEMMA WriteIInv ==
  ASSUME IInv, NEW c \in Calls, Write(c)
  PROVE  /\ IInv' /\ job'[c].filledTables = job[c].filledTables \cup Current(c).fills
         /\ \A d \in Calls : Active(d)' <=> d = c
<1>1. Active(c) /\ pc[c] # "choosing"
  BY DEF Active, Write, AtWrite
<1>2. /\ SingleJob' /\ pc' \in [Calls -> Stages] /\ job' \in [Calls -> Job] /\ JobConsistent'
      /\ \A d \in Calls : Active(d)' <=> d = c
      /\ job'[c].filledTables = job[c].filledTables \cup Current(c).fills
  BY <1>1, RunnerDone DEF Write
<1>3. content' \in [Tables -> Vintages] /\ doneToday' \in SUBSET Tables
  BY StoreTyped DEF Write
<1> QED
  BY <1>2, <1>3 DEF IInv, TypeOK, Write

\* The attempt is tried again after a sleep, or the job is given up.
LEMMA AttemptFailsIInv ==
  ASSUME IInv, NEW c \in Calls, AttemptFails(c)
  PROVE  /\ IInv'
         /\ \/ /\ job'[c].filledTables = job[c].filledTables /\ pc'[c] = "sleeping"
               /\ \A d \in Calls : Active(d)' <=> d = c
            \/ \A d \in Calls : pc'[d] = "idle"
<1> USE DEF IInv
<1>1. Active(c) /\ pc[c] # "choosing"
  BY DEF Active, AttemptFails
<1>2. content' \in [Tables -> Vintages] /\ doneToday' \in SUBSET Tables
  BY StoreTyped DEF AttemptFails, TypeOK
<1>3. failures' \in 0..MaxFailures
  BY BoundsAssumption DEF AttemptFails, TypeOK
<1>4. CASE /\ job[c].executionNumber + 1 < MaxTries
           /\ job' = [job EXCEPT ![c].executionNumber = @ + 1]
           /\ pc' = [pc EXCEPT ![c] = "sleeping"]
           /\ UNCHANGED <<jobInProgress, healthy>>
  <2>1. job[c] \in Job /\ job'[c] = [job[c] EXCEPT !.executionNumber = job[c].executionNumber + 1]
    BY <1>4 DEF TypeOK
  <2>2. /\ job'[c] \in Job /\ job'[c].at = job[c].at
        /\ job'[c].executedRunners = job[c].executedRunners
        /\ job'[c].pending = job[c].pending /\ job'[c].filledTables = job[c].filledTables
    BY <1>4, <2>1 DEF Job, MaxTries
  <2>3. job' \in [Calls -> Job]
    BY <1>4, <2>2 DEF TypeOK
  <2>4. /\ SingleJob' /\ pc' \in [Calls -> Stages] /\ JobConsistent'
        /\ \A d \in Calls : Active(d)' <=> d = c
    BY <1>1, <1>4, <2>2, SamePass DEF Stages, AttemptFails
  <2>5. pc'[c] = "sleeping"
    BY <1>4 DEF TypeOK
  <2>6. TypeOK'
    BY <1>2, <1>3, <1>4, <2>3, <2>4 DEF TypeOK, AttemptFails
  <2> QED
    BY <2>2, <2>4, <2>5, <2>6
<1>5. CASE healthy' = FALSE /\ Release(c)
  <2>1. /\ jobInProgress' \in BOOLEAN /\ pc' \in [Calls -> Stages] /\ job' \in [Calls -> Job]
        /\ SingleJob' /\ JobConsistent'
        /\ \A d \in Calls : pc'[d] = "idle"
    BY <1>1, <1>5, Released
  <2>2. healthy' \in BOOLEAN
    BY <1>5
  <2>3. TypeOK'
    BY <1>2, <1>3, <2>1, <2>2 DEF TypeOK, AttemptFails
  <2> QED
    BY <2>1, <2>3
<1> QED
  BY <1>4, <1>5 DEF AttemptFails, TryAgain

LEMMA WakeIInv ==
  ASSUME IInv, NEW c \in Calls, Wake(c)
  PROVE  IInv' /\ \A d \in Calls : Active(d)' <=> d = c
<1>1. Active(c) /\ pc[c] # "choosing"
  BY DEF Active, Wake
<1>2. /\ SingleJob' /\ pc' \in [Calls -> Stages] /\ JobConsistent'
      /\ \A d \in Calls : Active(d)' <=> d = c
  BY <1>1, SamePass DEF Stages, Wake
<1> QED
  BY <1>2 DEF IInv, TypeOK, Wake

LEMMA CrashIInv ==
  ASSUME IInv, Crash
  PROVE  IInv' /\ \A d \in Calls : pc'[d] = "idle"
<1>1. content' \in [Tables -> Vintages] /\ doneToday' \in SUBSET Tables
  BY StoreTyped DEF Crash, IInv, TypeOK
<1>2. failures' \in 0..MaxFailures
  BY BoundsAssumption DEF Crash, IInv, TypeOK
<1>3. jobInProgress' \in BOOLEAN /\ healthy' \in BOOLEAN /\ completed' \in BOOLEAN
  BY DEF Crash
<1>4. pc' \in [Calls -> Stages] /\ job' \in [Calls -> Job] /\ \A d \in Calls : pc'[d] = "idle"
  BY NewJobTyped DEF Crash, Stages
<1>5. SingleJob' /\ JobConsistent'
  BY <1>4 DEF Crash, SingleJob, JobConsistent, Active
<1> QED
  BY <1>1, <1>2, <1>3, <1>4, <1>5 DEF IInv, TypeOK

LEMMA NextIInv == IInv /\ [Next]_vars => IInv'
<1> SUFFICES ASSUME IInv, [Next]_vars PROVE IInv'
  OBVIOUS
<1>1. CASE UNCHANGED vars
  BY <1>1 DEF vars, IInv, TypeOK, SingleJob, JobConsistent, Active, Executable
<1>2. CASE Crash
  BY <1>2, CrashIInv
<1>3. ASSUME NEW c \in Calls, RunAggregationJob(c) \/ Step(c) \/ AttemptFails(c) PROVE IInv'
  BY <1>3, RunAggregationJobIInv, StartRunnerIInv, NextPassIInv, FinishIInv, QueryIInv,
     SkipTodayIInv, DeleteIInv, WriteIInv, WakeIInv, AttemptFailsIInv DEF Step
<1> QED
  BY <1>1, <1>2, <1>3 DEF Next

\* The inductive invariant of the control holds for every graph of runners.
THEOREM Invariance == Spec => []IInv
  BY InitIInv, NextIInv, PTL DEF Spec

\* Every reachable state is well typed.
THEOREM TypeCorrect == Spec => []TypeOK
<1>1. IInv => TypeOK
  BY DEF IInv
<1> QED
  BY <1>1, Invariance, PTL

\* One job at a time, and its flag never stuck: jobInProgress in
\* runAggregationJob, over any failures and crashes.
THEOREM SingleJobCorrect == Spec => []SingleJob
<1>1. IInv => SingleJob
  BY DEF IInv
<1> QED
  BY <1>1, Invariance, PTL

-----------------------------------------------------------------------------
(* The order of the runners. *)

\* The runners of P are executed in their order, in the first pass: none of
\* them is pending once the loop has passed its position.
PassesInOrder(P) ==
  \A c \in Calls : Active(c) => \A p \in P \cap job[c].pending : job[c].at <= p

\* Until its runner returns, an invocation stays at its position.
LEMMA SamePosition ==
  ASSUME IInv, NEW c \in Calls,
         Query(c) \/ Delete(c) \/ Wake(c) \/ (AttemptFails(c) /\ pc'[c] = "sleeping")
  PROVE  /\ Active(c) /\ pc[c] # "choosing"
         /\ job'[c].at = job[c].at /\ job'[c].pending = job[c].pending
         /\ \A d \in Calls : Active(d)' <=> d = c
<1>1. Active(c) /\ pc[c] # "choosing"
  BY DEF Query, Delete, Wake, AttemptFails, Active
<1>2. job \in [Calls -> Job] /\ pc \in [Calls -> Stages]
  BY DEF IInv, TypeOK
<1>3. job'[c].at = job[c].at /\ job'[c].pending = job[c].pending
  <2>1. CASE UNCHANGED job
    BY <2>1
  <2>2. CASE Query(c)
    <3>1. job'[c] = [job[c] EXCEPT !.basis = Worst(Current(c).reads)]
      BY <1>2, <2>2 DEF Query
    <3> QED
      BY <1>2, <3>1 DEF Job
  <2>3. CASE AttemptFails(c) /\ pc'[c] = "sleeping"
    <3>1. job' = [job EXCEPT ![c].executionNumber = @ + 1]
      BY <1>2, <2>3 DEF AttemptFails, TryAgain, Release
    <3>2. job'[c] = [job[c] EXCEPT !.executionNumber = job[c].executionNumber + 1]
      BY <1>2, <3>1
    <3> QED
      BY <1>2, <3>2 DEF Job
  <2> QED
    BY <2>1, <2>2, <2>3 DEF Delete, Wake
<1>4. \A d \in Calls : Active(d)' <=> d = c
  BY <1>1, QueryIInv, DeleteIInv, WakeIInv, AttemptFailsIInv
<1> QED
  BY <1>1, <1>3, <1>4

\* A runner that has returned leaves the pending ones, and the loop goes on.
LEMMA NextPosition ==
  ASSUME IInv, NEW c \in Calls, SkipToday(c) \/ Write(c)
  PROVE  /\ Active(c) /\ pc[c] # "choosing" /\ pc'[c] = "choosing"
         /\ job'[c].at = job[c].at + 1
         /\ job'[c].pending = job[c].pending \ {job[c].at}
         /\ \A d \in Calls : Active(d)' <=> d = c
<1>1. Active(c) /\ pc[c] # "choosing"
  BY DEF SkipToday, Write, AtWrite, Active
<1>2. job[c] \in Job /\ job[c].at \in Positions
  BY <1>1, CurrentRunner DEF IInv, TypeOK
<1>3. job'[c] = Executed(job[c]) /\ pc'[c] = "choosing"
  BY DEF SkipToday, Write, IInv, TypeOK
<1>4. \A d \in Calls : Active(d)' <=> d = c
  BY SkipTodayIInv, WriteIInv
<1> QED
  BY <1>1, <1>2, <1>3, <1>4, ExecutedJob

\* A prompt runner that is pending is one the pass will execute, or waits for one.
LEMMA PromptRemains ==
  ASSUME IInv, NEW P \in SUBSET Positions, Prompt(P), PassesInOrder(P),
         NEW c \in Calls, Active(c), NEW p \in P \cap job[c].pending
  PROVE  \E q \in P \cap Remaining(c) : q <= p
<1>1. P \cap job[c].pending \in SUBSET Nat
  <2>1. Positions \subseteq Nat
    BY RunnersAssumption DEF Positions
  <2> QED
    BY <2>1
<1>2. PICK q \in P \cap job[c].pending : \A r \in P \cap job[c].pending : q <= r
  BY <1>1, Smallest
<1>3. q \in Positions /\ q >= job[c].at /\ q <= p
  BY <1>2 DEF PassesInOrder
<1>4. ASSUME NEW r \in P, r < q PROVE r \in Positions \ job[c].pending
  BY <1>2, <1>3, <1>4 DEF Positions
<1>5. job[c].filledTables = UNION {Runners[i].fills : i \in Positions \ job[c].pending}
  BY DEF IInv, JobConsistent
<1>6. Runners[q].depends \subseteq job[c].filledTables
  BY <1>2, <1>4, <1>5 DEF Prompt, FilledBy
<1>7. q \in Remaining(c)
  BY <1>2, <1>3, <1>6 DEF Remaining, Executable
<1> QED
  BY <1>2, <1>3, <1>7

LEMMA InitPassesInOrder == ASSUME NEW P PROVE Init => PassesInOrder(P)
  BY DEF Init, PassesInOrder, Active

\* The order is kept by every step.
LEMMA NextPassesInOrder ==
  ASSUME NEW P \in SUBSET Positions, Prompt(P), IInv, PassesInOrder(P), [Next]_vars
  PROVE  PassesInOrder(P)'
<1>1. CASE UNCHANGED vars
  BY <1>1 DEF vars, PassesInOrder, Active
<1>2. CASE Crash \/ \E c \in Calls : Finish(c)
  <2>1. \A d \in Calls : pc'[d] = "idle"
    BY <1>2, CrashIInv, FinishIInv
  <2> QED
    BY <2>1 DEF PassesInOrder, Active
<1>3. ASSUME NEW c \in Calls, RunAggregationJob(c) PROVE PassesInOrder(P)'
  <2>1. \A d \in Calls : pc'[d] = IF d = c THEN "choosing" ELSE "idle"
    BY <1>3 DEF RunAggregationJob, IInv, TypeOK, SingleJob, Active
  <2>2. job'[c].at = 1
    BY <1>3, NewJobTyped DEF RunAggregationJob, IInv, TypeOK
  <2> QED
    BY <2>1, <2>2 DEF PassesInOrder, Active, Positions
<1>4. ASSUME NEW c \in Calls, StartRunner(c) PROVE PassesInOrder(P)'
  <2>1. PICK i \in Remaining(c) : /\ \A k \in Remaining(c) : i <= k
                                  /\ job' = [job EXCEPT ![c] = Reach(@, i)]
    BY <1>4 DEF StartRunner
  <2>2. job[c] \in Job /\ i \in Nat /\ Remaining(c) \subseteq Nat /\ job'[c] = Reach(job[c], i)
    BY <2>1 DEF IInv, TypeOK, Remaining, Positions
  <2>3. job'[c].at = i /\ job'[c].pending = job[c].pending
    BY <2>2, ReachJob
  <2>4. Active(c) /\ \A d \in Calls : Active(d)' <=> d = c
    BY <1>4, StartRunnerIInv DEF StartRunner, Active
  <2>5. ASSUME NEW p \in P \cap job[c].pending PROVE i <= p
    <3>1. PICK q \in P \cap Remaining(c) : q <= p
      BY <2>4, PromptRemains
    <3>2. i <= q /\ q \in Nat
      BY <2>1, <2>2, <3>1
    <3>3. p \in Nat
      BY RunnersAssumption DEF Positions
    <3> QED
      BY <2>2, <3>1, <3>2, <3>3
  <2> QED
    BY <2>3, <2>4, <2>5 DEF PassesInOrder
<1>5. ASSUME NEW c \in Calls, NextPass(c) PROVE PassesInOrder(P)'
  <2>1. Active(c) /\ Remaining(c) = {} /\ job[c] \in Job /\ job'[c] = FirstPosition(job[c])
    BY <1>5 DEF NextPass, Active, IInv, TypeOK
  <2>2. job'[c].pending = job[c].pending
    BY <2>1, FirstPositionJob
  <2>3. P \cap job[c].pending = {}
    BY <2>1, PromptRemains
  <2>4. \A d \in Calls : Active(d)' <=> d = c
    BY <1>5, NextPassIInv
  <2> QED
    BY <2>2, <2>3, <2>4 DEF PassesInOrder
<1>6. ASSUME NEW c \in Calls,
             Query(c) \/ Delete(c) \/ Wake(c) \/ (AttemptFails(c) /\ pc'[c] = "sleeping")
      PROVE  PassesInOrder(P)'
  BY <1>6, SamePosition DEF PassesInOrder
<1>7. ASSUME NEW c \in Calls, SkipToday(c) \/ Write(c) PROVE PassesInOrder(P)'
  <2>1. /\ Active(c) /\ job'[c].at = job[c].at + 1
        /\ job'[c].pending = job[c].pending \ {job[c].at}
        /\ \A d \in Calls : Active(d)' <=> d = c
    BY <1>7, NextPosition
  <2>2. job[c].at \in Nat
    BY DEF IInv, TypeOK, Job
  <2>3. ASSUME NEW p \in P \cap job'[c].pending PROVE job[c].at + 1 <= p
    <3>1. job[c].at <= p /\ p # job[c].at /\ p \in Nat
      BY <2>1, <2>3 DEF PassesInOrder, Positions
    <3> QED
      BY <2>2, <3>1
  <2> QED
    BY <2>1, <2>3 DEF PassesInOrder
<1>8. ASSUME NEW c \in Calls, AttemptFails(c), ~(pc'[c] = "sleeping") PROVE PassesInOrder(P)'
  <2>1. \A d \in Calls : pc'[d] = "idle"
    BY <1>8, AttemptFailsIInv
  <2> QED
    BY <2>1 DEF PassesInOrder, Active
<1> QED
  BY <1>1, <1>2, <1>3, <1>4, <1>5, <1>6, <1>7, <1>8 DEF Next, Step

-----------------------------------------------------------------------------
(* What the tables hold, when what a runner reads is settled. *)

\* DataInv is about the only active invocation.
LEMMA DataInvOf ==
  ASSUME NEW c \in Calls, \A d \in Calls : Active(d)' => d = c,
         DoneTodayIsFresh',
         \A t \in job'[c].filledTables \ StaleTables : content'[t] = Fresh,
         pc'[c] \in {"writing", "deleted"} /\ ~(Runners[job'[c].at].fills \subseteq StaleTables)
            => job'[c].basis = Fresh
  PROVE  DataInv'
<1>1. FilledIsFresh'
  BY DEF FilledIsFresh
<1>2. BasisIsFresh'
  <2> SUFFICES ASSUME NEW d \in Calls, pc'[d] \in {"writing", "deleted"},
                      ~(Runners[job'[d].at].fills \subseteq StaleTables)
               PROVE  job'[d].basis = Fresh
    BY DEF BasisIsFresh, Current
  <2>1. d = c
    BY DEF Active
  <2> QED
    BY <2>1
<1> QED
  BY <1>1, <1>2 DEF DataInv

\* With no job in progress only the rows of the day count.
LEMMA DataInvIdle ==
  ASSUME \A d \in Calls : pc'[d] = "idle", DoneTodayIsFresh'
  PROVE  DataInv'
  BY DEF DataInv, FilledIsFresh, BasisIsFresh, Active

LEMMA DoneTodayKept ==
  ASSUME DataInv, UNCHANGED <<content, doneToday>>
  PROVE  DoneTodayIsFresh'
  BY DEF DataInv, DoneTodayIsFresh

LEMMA InitDataInv == Init => DataInv
  BY DEF Init, DataInv, BasisIsFresh, DoneTodayIsFresh, FilledIsFresh, Active

LEMMA RunAggregationJobDataInv ==
  ASSUME IInv, DataInv, NEW c \in Calls, RunAggregationJob(c)
  PROVE  DataInv'
<1>1. \A d \in Calls : pc'[d] = IF d = c THEN "choosing" ELSE "idle"
  BY DEF RunAggregationJob, IInv, TypeOK, SingleJob, Active
<1>2. job'[c].filledTables = {}
  BY NewJobTyped DEF RunAggregationJob, IInv, TypeOK
<1>3. DoneTodayIsFresh'
  BY DEF RunAggregationJob, Age, DataInv, DoneTodayIsFresh, IInv, TypeOK
<1> QED
  BY <1>1, <1>2, <1>3, DataInvOf DEF Active

\* Steps between two runners, or between two attempts of one.
LEMMA BetweenDataInv ==
  ASSUME IInv, DataInv, NEW c \in Calls, StartRunner(c) \/ NextPass(c) \/ Wake(c)
  PROVE  DataInv'
<1>1. UNCHANGED <<content, doneToday>> /\ pc'[c] \notin {"writing", "deleted"} /\ Active(c)
  BY DEF StartRunner, NextPass, Wake, IInv, TypeOK, Active
<1>2. job'[c].filledTables = job[c].filledTables /\ \A d \in Calls : Active(d)' <=> d = c
  BY StartRunnerIInv, NextPassIInv, WakeIInv DEF Wake
<1>3. \A t \in job[c].filledTables \ StaleTables : content[t] = Fresh
  BY <1>1 DEF DataInv, FilledIsFresh
<1>4. DoneTodayIsFresh'
  BY <1>1, DoneTodayKept
<1> QED
  BY <1>1, <1>2, <1>3, <1>4, DataInvOf

\* All a runner reads is filled, so that what it has read is fresh.
LEMMA QueryDataInv ==
  ASSUME NEW P \in SUBSET Positions, SettledReads(P), PassesInOrder(P),
         IInv, DataInv, NEW c \in Calls, Query(c)
  PROVE  DataInv'
<1>1. Active(c) /\ pc[c] = "querying" /\ UNCHANGED <<content, doneToday>>
  BY DEF Query, Active
<1>2. /\ job'[c].filledTables = job[c].filledTables /\ job'[c].at = job[c].at
      /\ job'[c].basis = Worst(Current(c).reads)
      /\ \A d \in Calls : Active(d)' <=> d = c
  BY QueryIInv
<1>3. /\ job[c].at \in Positions /\ Current(c) = Runners[job[c].at] /\ Current(c) \in Runner
      /\ Current(c).depends \subseteq job[c].filledTables
  BY <1>1, CurrentRunner DEF IInv
<1>4. \A t \in job[c].filledTables \ StaleTables : content[t] = Fresh
  BY <1>1 DEF DataInv, FilledIsFresh
<1>5. FilledBy({q \in P : q < job[c].at}) \subseteq job[c].filledTables
  <2>1. ASSUME NEW q \in P, q < job[c].at PROVE q \in Positions \ job[c].pending
    BY <1>1, <1>3, <2>1 DEF PassesInOrder, Positions
  <2>2. job[c].filledTables = UNION {Runners[i].fills : i \in Positions \ job[c].pending}
    BY <1>1 DEF IInv, JobConsistent
  <2> QED
    BY <2>1, <2>2 DEF FilledBy
<1>6. ASSUME ~(Current(c).fills \subseteq StaleTables) PROVE Worst(Current(c).reads) = Fresh
  <2>1. job[c].at \in TimelyRunners
    BY <1>3, <1>6 DEF TimelyRunners
  <2>2. Current(c).reads \subseteq job[c].filledTables \ StaleTables
    BY <1>3, <1>5, <2>1 DEF SettledReads
  <2>3. Current(c).reads \in SUBSET Tables
    BY <1>3 DEF Runner
  <2> QED
    BY <1>4, <2>2, <2>3, WorstVintage DEF IInv
<1>7. DoneTodayIsFresh'
  BY <1>1, DoneTodayKept
<1> QED
  BY <1>1, <1>2, <1>3, <1>4, <1>6, <1>7, DataInvOf

\* A daily runner skips the rows of today, which are fresh.
LEMMA SkipTodayDataInv ==
  ASSUME IInv, DataInv, NEW c \in Calls, SkipToday(c)
  PROVE  DataInv'
<1>1. /\ Active(c) /\ UNCHANGED <<content, doneToday>> /\ pc'[c] = "choosing"
      /\ Current(c).fills \subseteq doneToday
  BY DEF SkipToday, Active, IInv, TypeOK
<1>2. /\ job'[c].filledTables = job[c].filledTables \cup Current(c).fills
      /\ \A d \in Calls : Active(d)' <=> d = c
  BY SkipTodayIInv
<1>3. \A t \in job'[c].filledTables \ StaleTables : content'[t] = Fresh
  BY <1>1, <1>2 DEF DataInv, FilledIsFresh, DoneTodayIsFresh
<1>4. DoneTodayIsFresh'
  BY <1>1, DoneTodayKept
<1> QED
  BY <1>1, <1>2, <1>3, <1>4, DataInvOf

\* A delete empties tables that neither count as filled nor hold rows of today.
LEMMA DeleteDataInv ==
  ASSUME IInv, DataInv, NEW c \in Calls, Delete(c)
  PROVE  DataInv'
<1>1. /\ Active(c) /\ pc[c] = "writing" /\ UNCHANGED <<job, doneToday>>
      /\ Current(c).store = "replace"
  BY DEF Delete, Active
<1>2. \A d \in Calls : Active(d)' <=> d = c
  BY DeleteIInv
<1>3. /\ job[c].at \in Positions /\ Current(c) = Runners[job[c].at]
      /\ Current(c).fills \cap job[c].filledTables = {}
  BY <1>1, CurrentRunner DEF IInv
<1>4. job[c].filledTables \subseteq Tables
  BY DEF IInv, TypeOK, Job
<1>5. \A t \in job'[c].filledTables \ StaleTables : content'[t] = Fresh
  BY <1>1, <1>3, <1>4 DEF DataInv, FilledIsFresh, Delete
<1>6. DoneTodayIsFresh'
  <2> SUFFICES ASSUME NEW t \in doneToday
               PROVE  /\ \E i \in Positions : t \in Runners[i].fills /\ Runners[i].store = "daily"
                      /\ t \notin StaleTables => content'[t] = Fresh
    BY <1>1 DEF DoneTodayIsFresh
  <2>1. PICK i \in Positions : t \in Runners[i].fills /\ Runners[i].store = "daily"
    BY DEF DataInv, DoneTodayIsFresh
  <2>2. t \notin Current(c).fills
    BY <1>1, <1>3, <2>1, FillerAssumption
  <2>3. t \in Tables
    BY DEF IInv, TypeOK
  <2> QED
    BY <2>1, <2>2, <2>3 DEF DataInv, DoneTodayIsFresh, Delete
<1>7. ~(Runners[job'[c].at].fills \subseteq StaleTables) => job'[c].basis = Fresh
  BY <1>1, <1>3 DEF DataInv, BasisIsFresh
<1> QED
  BY <1>2, <1>5, <1>6, <1>7, DataInvOf

LEMMA WriteDataInv ==
  ASSUME IInv, DataInv, NEW c \in Calls, Write(c)
  PROVE  DataInv'
<1>1. Active(c) /\ pc'[c] = "choosing"
  BY DEF Write, AtWrite, Active, IInv, TypeOK
<1>2. /\ job'[c].filledTables = job[c].filledTables \cup Current(c).fills
      /\ \A d \in Calls : Active(d)' <=> d = c
  BY WriteIInv
<1>3. /\ \A t \in job[c].filledTables : content'[t] = content[t]
      /\ \A t \in Current(c).fills \ StaleTables : content'[t] = Fresh
      /\ DoneTodayIsFresh'
  BY StoreCorrect DEF Write, DataInv
<1>4. \A t \in job'[c].filledTables \ StaleTables : content'[t] = Fresh
  BY <1>1, <1>2, <1>3 DEF DataInv, FilledIsFresh
<1> QED
  BY <1>1, <1>2, <1>3, <1>4, DataInvOf

\* A write in flight may be committed although its attempt fails.
LEMMA AttemptFailsDataInv ==
  ASSUME IInv, DataInv, NEW c \in Calls, AttemptFails(c)
  PROVE  DataInv'
<1>1. Active(c)
  BY DEF AttemptFails, Active
<1>2. /\ \A t \in job[c].filledTables : content'[t] = content[t]
      /\ DoneTodayIsFresh'
  <2>1. CASE UNCHANGED <<content, doneToday>>
    BY <2>1, DoneTodayKept
  <2>2. CASE AtWrite(c) /\ Store(c)
    BY <2>2, StoreCorrect DEF DataInv
  <2> QED
    BY <2>1, <2>2 DEF AttemptFails
<1>3. CASE /\ job'[c].filledTables = job[c].filledTables /\ pc'[c] = "sleeping"
           /\ \A d \in Calls : Active(d)' <=> d = c
  <2>1. \A t \in job'[c].filledTables \ StaleTables : content'[t] = Fresh
    BY <1>1, <1>2, <1>3 DEF DataInv, FilledIsFresh
  <2> QED
    BY <1>2, <1>3, <2>1, DataInvOf
<1>4. CASE \A d \in Calls : pc'[d] = "idle"
  BY <1>2, <1>4, DataInvIdle
<1> QED
  BY <1>3, <1>4, AttemptFailsIInv

LEMMA EndDataInv ==
  ASSUME IInv, DataInv, Crash \/ \E c \in Calls : Finish(c)
  PROVE  DataInv'
<1>1. \A d \in Calls : pc'[d] = "idle"
  BY CrashIInv, FinishIInv
<1>2. DoneTodayIsFresh'
  <2>1. CASE UNCHANGED <<content, doneToday>>
    BY <2>1, DoneTodayKept
  <2>2. CASE \E c \in Calls : AtWrite(c) /\ Store(c)
    BY <2>2, StoreCorrect DEF DataInv
  <2> QED
    BY <2>1, <2>2 DEF Crash, Finish
<1> QED
  BY <1>1, <1>2, DataInvIdle

LEMMA NextDataInv ==
  ASSUME NEW P \in SUBSET Positions, SettledReads(P), PassesInOrder(P),
         IInv, DataInv, [Next]_vars
  PROVE  DataInv'
<1>1. CASE UNCHANGED vars
  BY <1>1 DEF vars, DataInv, BasisIsFresh, DoneTodayIsFresh, FilledIsFresh, Active, Current
<1>2. CASE Crash \/ \E c \in Calls : Finish(c)
  BY <1>2, EndDataInv
<1>3. ASSUME NEW c \in Calls, \/ RunAggregationJob(c) \/ StartRunner(c) \/ NextPass(c)
                              \/ Query(c) \/ SkipToday(c) \/ Delete(c) \/ Write(c) \/ Wake(c)
                              \/ AttemptFails(c)
      PROVE  DataInv'
  BY <1>3, RunAggregationJobDataInv, BetweenDataInv, QueryDataInv, SkipTodayDataInv,
     DeleteDataInv, WriteDataInv, AttemptFailsDataInv
<1> QED
  BY <1>1, <1>2, <1>3 DEF Next, Step

\* With the order of the runners, what the tables hold is invariant.
LEMMA OrderAndData ==
  ASSUME NEW P \in SUBSET Positions, Prompt(P), SettledReads(P)
  PROVE  Spec => [](IInv /\ PassesInOrder(P) /\ DataInv)
<1>1. Init => PassesInOrder(P) /\ DataInv
  BY InitPassesInOrder, InitDataInv
<1>2. IInv /\ PassesInOrder(P) /\ DataInv /\ [Next]_vars => PassesInOrder(P)' /\ DataInv'
  BY NextPassesInOrder, NextDataInv
<1> QED
  BY <1>1, <1>2, Invariance, PTL DEF Spec

\* A table the job counts as filled is of this job all the way down, for every
\* graph in which a runner declares what it reads or reads what the first pass
\* has filled before it anyway.
THEOREM FilledIsFreshCorrect ==
  ASSUME NEW P \in SUBSET Positions, Prompt(P), SettledReads(P)
  PROVE  Spec => []FilledIsFresh
<1>1. DataInv => FilledIsFresh
  BY DEF DataInv
<1> QED
  BY <1>1, OrderAndData, PTL

-----------------------------------------------------------------------------
(* What success and the tables written in a transaction mean to a reader. *)

\* A pass that executes none leaves no runner pending whose tables are to be
\* up to date, as the one of them with the least rank would be executable:
\* when the job finishes, these tables are filled.
LEMMA FinishFills ==
  ASSUME NEW rank \in [Positions -> Nat], Ranked(rank), IInv, NEW c \in Calls, Finish(c)
  PROVE  Tables \ StaleTables \subseteq job[c].filledTables
<1>1. /\ Active(c) /\ Remaining(c) = {}
      /\ job[c].pending = {} \/ job[c].executedRunners = 0
  BY DEF Finish, Active
<1>2. job[c].filledTables = UNION {Runners[k].fills : k \in Positions \ job[c].pending}
  BY <1>1 DEF IInv, JobConsistent
<1>3. job[c].at \in Nat /\ job[c].pending \in SUBSET Positions
  BY DEF IInv, TypeOK, Job
<1> DEFINE waiting == TimelyRunners \cap job[c].pending
           ranks == {rank[i] : i \in waiting}
<1>4. ASSUME waiting # {} PROVE FALSE
  <2>1. ranks \in SUBSET Nat /\ ranks # {}
    BY <1>4 DEF TimelyRunners
  <2>2. PICK n \in ranks : \A m \in ranks : n <= m
    BY <2>1, Smallest
  <2>3. PICK i \in waiting : n = rank[i]
    BY <2>2
  <2>4. i \in Positions /\ i \in TimelyRunners /\ i \in job[c].pending
    BY <1>3, <2>3
  <2>5. ASSUME NEW k \in TimelyRunners, rank[k] < rank[i] PROVE k \in Positions \ job[c].pending
    <3>1. k \in Positions /\ rank[k] \in Nat /\ rank[i] \in Nat
      BY <2>4 DEF TimelyRunners
    <3>2. k \notin waiting
      BY <2>2, <2>3, <2>5, <3>1
    <3> QED
      BY <3>1, <3>2
  <2>6. Runners[i].depends \subseteq job[c].filledTables
    BY <1>2, <2>4, <2>5 DEF Ranked, FilledBy
  <2>7. Executable(c, i)
    BY <2>4, <2>6 DEF Executable
  <2>8. CASE i >= job[c].at
    BY <1>1, <2>4, <2>7, <2>8 DEF Remaining
  <2>9. CASE i < job[c].at
    BY <1>1, <2>4, <2>7, <2>9 DEF IInv, JobConsistent
  <2> QED
    BY <1>3, <2>4, <2>8, <2>9 DEF Positions
<1>5. TimelyRunners \subseteq Positions \ job[c].pending
  BY <1>4 DEF TimelyRunners
<1> QED
  BY <1>2, <1>5 DEF Ranked, FilledBy

LEMMA NextCompletedIsFresh ==
  ASSUME NEW rank \in [Positions -> Nat], Ranked(rank),
         IInv, DataInv, CompletedIsFresh, [Next]_vars
  PROVE  CompletedIsFresh'
<1>1. CASE UNCHANGED vars
  BY <1>1 DEF vars, CompletedIsFresh
<1>2. ASSUME NEW c \in Calls, Finish(c) PROVE CompletedIsFresh'
  <2>1. Active(c) /\ healthy /\ Tables \ StaleTables \subseteq job[c].filledTables
    BY <1>2, FinishFills, OnlyJob DEF Finish, Active
  <2>2. \A t \in Tables \ StaleTables : content[t] = Fresh
    BY <2>1 DEF DataInv, FilledIsFresh
  <2> QED
    BY <1>2, <2>1, <2>2 DEF CompletedIsFresh, Finish
<1>3. CASE Crash \/ \E c \in Calls : RunAggregationJob(c)
  BY <1>3 DEF Crash, RunAggregationJob, CompletedIsFresh
<1>4. ASSUME NEW c \in Calls, \/ StartRunner(c) \/ NextPass(c) \/ Query(c) \/ SkipToday(c)
                              \/ Delete(c) \/ Write(c) \/ Wake(c) \/ AttemptFails(c)
      PROVE  CompletedIsFresh'
  <2>1. Active(c) /\ UNCHANGED completed
    BY <1>4 DEF StartRunner, NextPass, Query, SkipToday, Delete, Write, AtWrite, Wake,
                AttemptFails, Active
  <2>2. ~completed'
    BY <2>1, OnlyJob
  <2> QED
    BY <2>2 DEF CompletedIsFresh
<1> QED
  BY <1>1, <1>2, <1>3, <1>4 DEF Next, Step

\* When lastSuccess is later than lastRun, every table but the stale ones is
\* up to date and the health check is green, for every graph whose other
\* runners do not wait for themselves and fill all the other tables.
THEOREM CompletedIsFreshCorrect ==
  ASSUME NEW P \in SUBSET Positions, Prompt(P), SettledReads(P),
         NEW rank \in [Positions -> Nat], Ranked(rank)
  PROVE  Spec => []CompletedIsFresh
<1>1. Init => CompletedIsFresh
  BY DEF Init, CompletedIsFresh
<1>2. IInv /\ DataInv /\ CompletedIsFresh /\ [Next]_vars => CompletedIsFresh'
  BY NextCompletedIsFresh
<1> QED
  BY <1>1, <1>2, OrderAndData, PTL DEF Spec

-----------------------------------------------------------------------------
(* Stale tables: those of runners that wait for each other, and those whose *)
(* runner reads a table before it is filled.                                *)

\* A step changes a table as a new job begins, or as its runner is executed.
LEMMA ContentStep ==
  ASSUME IInv, [Next]_vars, NEW t \in Tables, content'[t] # content[t]
  PROVE  \/ content[t] = Fresh /\ content'[t] = Stale
         \/ \E c \in Calls :
               /\ Active(c) /\ pc[c] # "choosing" /\ t \in Runners[job[c].at].fills
               /\ content'[t] = Empty \/ (/\ pc[c] \in {"writing", "deleted"}
                                          /\ content'[t] = job[c].basis)
<1>1. CASE UNCHANGED content
  BY <1>1
<1>2. CASE \E c \in Calls : RunAggregationJob(c)
  BY <1>2 DEF RunAggregationJob, Age
<1>3. ASSUME NEW c \in Calls, Delete(c)
      PROVE  /\ Active(c) /\ pc[c] # "choosing" /\ t \in Runners[job[c].at].fills
             /\ content'[t] = Empty
  BY <1>3 DEF Delete, Active, Current
<1>4. ASSUME NEW c \in Calls, AtWrite(c), Store(c)
      PROVE  /\ Active(c) /\ pc[c] # "choosing" /\ t \in Runners[job[c].at].fills
             /\ pc[c] \in {"writing", "deleted"} /\ content'[t] = job[c].basis
  BY <1>4 DEF AtWrite, Store, Active, Current
<1> QED
  BY <1>1, <1>2, <1>3, <1>4
     DEF Next, Step, vars, Crash, StartRunner, NextPass, Finish, Query, SkipToday, Write,
         Wake, AttemptFails

\* What is pending after a step: all when a job begins, and then what was, but
\* for the runner that has been executed.
LEMMA PendingStep ==
  ASSUME IInv, [Next]_vars, NEW c \in Calls, Active(c)'
  PROVE  \/ RunAggregationJob(c)
         \/ Active(c) /\ job'[c].pending = job[c].pending
         \/ /\ Active(c) /\ pc[c] # "choosing"
            /\ job'[c].pending = job[c].pending \ {job[c].at}
<1>1. CASE UNCHANGED vars
  BY <1>1 DEF vars, Active
<1>2. CASE Crash \/ \E d \in Calls : Finish(d)
  BY <1>2, CrashIInv, FinishIInv DEF Active
<1>3. ASSUME NEW d \in Calls, RunAggregationJob(d) PROVE d = c
  BY <1>3 DEF RunAggregationJob, IInv, TypeOK, SingleJob, Active
<1>4. ASSUME NEW d \in Calls, StartRunner(d)
      PROVE  Active(c) /\ job'[c].pending = job[c].pending
  <2>1. PICK i \in Remaining(d) : job' = [job EXCEPT ![d] = Reach(@, i)]
    BY <1>4 DEF StartRunner
  <2>2. job[d] \in Job /\ i \in Nat /\ job'[d] = Reach(job[d], i)
    BY <2>1, RunnersAssumption DEF IInv, TypeOK, Remaining, Positions
  <2>3. d = c /\ Active(d)
    BY <1>4, StartRunnerIInv DEF StartRunner, Active
  <2> QED
    BY <2>2, <2>3, ReachJob
<1>5. ASSUME NEW d \in Calls, NextPass(d)
      PROVE  Active(c) /\ job'[c].pending = job[c].pending
  <2>1. d = c /\ Active(d) /\ job[d] \in Job /\ job'[d] = FirstPosition(job[d])
    BY <1>5, NextPassIInv DEF NextPass, Active, IInv, TypeOK
  <2> QED
    BY <2>1, FirstPositionJob
<1>6. ASSUME NEW d \in Calls,
             Query(d) \/ Delete(d) \/ Wake(d) \/ (AttemptFails(d) /\ pc'[d] = "sleeping")
      PROVE  Active(c) /\ job'[c].pending = job[c].pending
  <2>1. d = c
    BY <1>6, SamePosition
  <2> QED
    BY <1>6, <2>1, SamePosition
<1>7. ASSUME NEW d \in Calls, SkipToday(d) \/ Write(d)
      PROVE  /\ Active(c) /\ pc[c] # "choosing"
             /\ job'[c].pending = job[c].pending \ {job[c].at}
  <2>1. d = c
    BY <1>7, NextPosition
  <2> QED
    BY <1>7, <2>1, NextPosition
<1>8. ASSUME NEW d \in Calls, AttemptFails(d), ~(pc'[d] = "sleeping") PROVE FALSE
  BY <1>8, AttemptFailsIInv DEF Active
<1> QED
  BY <1>1, <1>2, <1>3, <1>4, <1>5, <1>6, <1>7, <1>8 DEF Next, Step

\* Runners that wait for each other stay pending, and their tables empty.
NeverExecuted(D) ==
  /\ \A c \in Calls : Active(c) => D \subseteq job[c].pending
  /\ \A t \in FilledBy(D) : content[t] = Empty

\* What an executed runner depends on is filled by one that is not pending.
LEMMA DependsOnDone ==
  ASSUME IInv, NEW c \in Calls, Active(c), pc[c] # "choosing",
         NEW j \in Positions, Runners[j].fills \cap Runners[job[c].at].depends # {}
  PROVE  j \notin job[c].pending
<1>1. /\ Current(c) = Runners[job[c].at] /\ Current(c).depends \subseteq job[c].filledTables
  BY CurrentRunner DEF IInv
<1>2. job[c].filledTables = UNION {Runners[i].fills : i \in Positions \ job[c].pending}
  BY DEF IInv, JobConsistent
<1>3. PICK t \in Runners[j].fills : t \in job[c].filledTables
  BY <1>1
<1>4. PICK i \in Positions \ job[c].pending : t \in Runners[i].fills
  BY <1>2, <1>3
<1>5. i = j
  BY <1>3, <1>4, FillerAssumption
<1> QED
  BY <1>4, <1>5

LEMMA FilledAreTables ==
  ASSUME NEW i \in Positions
  PROVE  Runners[i].fills \subseteq Tables /\ Runners[i].reads \subseteq Tables
<1>1. Runners[i] \in Runner
  BY RunnersAssumption DEF Positions
<1> QED
  BY <1>1 DEF Runner

LEMMA InitNeverExecuted ==
  ASSUME NEW D \in SUBSET Positions
  PROVE  Init => NeverExecuted(D)
  BY FilledAreTables DEF Init, NeverExecuted, Active, FilledBy

LEMMA NextNeverExecuted ==
  ASSUME NEW D \in SUBSET Positions, Deadlocked(D), IInv, NeverExecuted(D), [Next]_vars
  PROVE  NeverExecuted(D)'
<1>1. ASSUME NEW c \in Calls, Active(c), pc[c] # "choosing" PROVE job[c].at \notin D
  <2> SUFFICES ASSUME job[c].at \in D PROVE FALSE
    OBVIOUS
  <2>1. PICK t \in Runners[job[c].at].depends : t \in FilledBy(D)
    BY DEF Deadlocked
  <2>2. PICK j \in D : t \in Runners[j].fills
    BY <2>1 DEF FilledBy
  <2>3. j \notin job[c].pending
    BY <1>1, <2>1, <2>2, DependsOnDone
  <2> QED
    BY <1>1, <2>2, <2>3 DEF NeverExecuted
<1>2. ASSUME NEW c \in Calls, Active(c)' PROVE D \subseteq job'[c].pending
  <2>1. CASE RunAggregationJob(c)
    BY <2>1, NewJobTyped DEF RunAggregationJob, IInv, TypeOK
  <2>2. CASE ~RunAggregationJob(c)
    BY <1>1, <1>2, <2>2, PendingStep DEF NeverExecuted
  <2> QED
    BY <2>1, <2>2
<1>3. ASSUME NEW t \in FilledBy(D) PROVE content'[t] = Empty
  <2>1. PICK j \in D : t \in Runners[j].fills
    BY DEF FilledBy
  <2>2. t \in Tables /\ content[t] = Empty /\ Empty # Fresh
    BY <2>1, FilledAreTables DEF NeverExecuted, Empty, Fresh
  <2>3. ASSUME NEW c \in Calls, Active(c), pc[c] # "choosing", t \in Runners[job[c].at].fills
        PROVE  FALSE
    <3>1. job[c].at \in Positions
      BY <2>3, CurrentRunner DEF IInv
    <3>2. job[c].at = j
      BY <2>1, <2>3, <3>1, FillerAssumption
    <3> QED
      BY <1>1, <2>3, <3>2
  <2> QED
    BY <2>2, <2>3, ContentStep
<1> QED
  BY <1>2, <1>3 DEF NeverExecuted

\* An invocation comes to its writes by its query, or by the delete.
LEMMA StepToWriting ==
  ASSUME IInv, [Next]_vars, NEW c \in Calls, pc'[c] \in {"writing", "deleted"}
  PROVE  Query(c) \/ (pc[c] \in {"writing", "deleted"} /\ job'[c] = job[c])
<1>1. pc \in [Calls -> Stages] /\ job \in [Calls -> Job]
  BY DEF IInv, TypeOK
<1>2. CASE UNCHANGED vars
  BY <1>2 DEF vars
<1>3. CASE Crash \/ \E d \in Calls : Finish(d) \/ (AttemptFails(d) /\ ~(pc'[d] = "sleeping"))
  BY <1>3, CrashIInv, FinishIInv, AttemptFailsIInv
<1>4. ASSUME NEW d \in Calls, Delete(d) \/ Query(d)
      PROVE  d = c
  BY <1>4, QueryIInv, DeleteIInv DEF Active
<1>5. CASE Delete(c)
  BY <1>5 DEF Delete
<1>6. ASSUME NEW d \in Calls, RunAggregationJob(d) PROVE FALSE
  BY <1>1, <1>6 DEF RunAggregationJob, IInv, SingleJob, Active
<1>7. ASSUME NEW d \in Calls, \/ StartRunner(d) \/ SkipToday(d) \/ Write(d) \/ Wake(d)
                              \/ (AttemptFails(d) /\ pc'[d] = "sleeping")
      PROVE  FALSE
  <2>1. \A e \in Calls : Active(e)' <=> e = d
    BY <1>7, StartRunnerIInv, NextPosition, SamePosition
  <2>2. pc'[d] \notin {"writing", "deleted"}
    BY <1>1, <1>7 DEF StartRunner, SkipToday, Write, Wake
  <2> QED
    BY <2>1, <2>2 DEF Active
<1>8. ASSUME NEW d \in Calls, NextPass(d) PROVE FALSE
  <2>1. Active(c)' /\ pc'[d] = "choosing"
    BY <1>8 DEF Active, NextPass
  <2> QED
    BY <1>8, <2>1, NextPassIInv
<1> QED
  BY <1>2, <1>3, <1>4, <1>5, <1>6, <1>7, <1>8 DEF Next, Step

\* Runner i reads what runner k fills, before runner m has filled what k waits
\* for: what i has read is of an earlier job, and so is what it fills.
StaysEarly(i, k, m) ==
  /\ \A c \in Calls : Active(c) /\ i \in job[c].pending =>
        /\ k \in job[c].pending /\ m \in job[c].pending
        /\ \A u \in Runners[k].fills : content[u] # Fresh
  /\ \A c \in Calls : pc[c] \in {"writing", "deleted"} /\ job[c].at = i => job[c].basis # Fresh
  /\ \A t \in Runners[i].fills : content[t] # Fresh

LEMMA InitStaysEarly ==
  ASSUME NEW i \in Positions, NEW k, NEW m
  PROVE  Init => StaysEarly(i, k, m)
  BY FilledAreTables DEF Init, StaysEarly, Active, Empty, Fresh

\* While i is pending, neither k nor m is executed.
LEMMA EarlierFirst ==
  ASSUME NEW P \in SUBSET Positions, PassesInOrder(P), IInv,
         NEW i \in P, NEW k \in Positions, NEW m \in Positions, ReadsBefore(i, k, m),
         StaysEarly(i, k, m),
         NEW c \in Calls, Active(c), pc[c] # "choosing", i \in job[c].pending
  PROVE  job[c].at # k /\ job[c].at # m
<1>1. job[c].at <= i /\ i < m
  BY DEF PassesInOrder, ReadsBefore
<1>2. job[c].at \in Nat /\ i \in Nat /\ m \in Nat
  BY CurrentRunner, RunnersAssumption DEF IInv, Positions
<1>3. job[c].at # m
  BY <1>1, <1>2
<1>4. ASSUME job[c].at = k PROVE FALSE
  <2>1. m \notin job[c].pending
    BY <1>4, DependsOnDone DEF ReadsBefore
  <2> QED
    BY <2>1 DEF StaysEarly
<1> QED
  BY <1>3, <1>4

LEMMA NextStaysEarly ==
  ASSUME NEW P \in SUBSET Positions, PassesInOrder(P), IInv, DataInv, [Next]_vars,
         NEW i \in P, NEW k \in Positions, NEW m \in Positions, ReadsBefore(i, k, m),
         StaysEarly(i, k, m)
  PROVE  StaysEarly(i, k, m)'
<1>1. ASSUME NEW c \in Calls, Active(c)', i \in job'[c].pending
      PROVE  k \in job'[c].pending /\ m \in job'[c].pending
  <2>1. CASE RunAggregationJob(c)
    BY <2>1, NewJobTyped DEF RunAggregationJob, IInv, TypeOK
  <2>2. CASE Active(c) /\ job'[c].pending = job[c].pending
    BY <1>1, <2>2 DEF StaysEarly
  <2>3. CASE Active(c) /\ pc[c] # "choosing" /\ job'[c].pending = job[c].pending \ {job[c].at}
    BY <1>1, <2>3, EarlierFirst DEF StaysEarly
  <2> QED
    BY <1>1, <2>1, <2>2, <2>3, PendingStep
<1>2. ASSUME NEW c \in Calls, Active(c)', i \in job'[c].pending, NEW u \in Runners[k].fills
      PROVE  content'[u] # Fresh
  <2>1. u \in Tables
    BY FilledAreTables
  <2>2. CASE RunAggregationJob(c)
    <3>1. u \notin doneToday
      BY FillerAssumption DEF DataInv, DoneTodayIsFresh, ReadsBefore
    <3> QED
      BY <2>1, <2>2, <3>1 DEF RunAggregationJob, Age, Stale, Fresh
  <2>3. CASE ~RunAggregationJob(c)
    <3>1. Active(c) /\ i \in job[c].pending
      BY <1>2, <2>3, PendingStep
    <3>2. content[u] # Fresh
      BY <3>1 DEF StaysEarly
    <3>3. ASSUME NEW d \in Calls, Active(d), pc[d] # "choosing", u \in Runners[job[d].at].fills
          PROVE  FALSE
      <4>1. d = c /\ job[d].at \in Positions
        BY <3>1, <3>3, OnlyJob, CurrentRunner DEF IInv
      <4>2. job[c].at = k
        BY <3>3, <4>1, FillerAssumption
      <4> QED
        BY <3>1, <3>3, <4>1, <4>2, EarlierFirst
    <3> QED
      BY <2>1, <3>2, <3>3, ContentStep
  <2> QED
    BY <2>2, <2>3
<1>3. ASSUME NEW c \in Calls, pc'[c] \in {"writing", "deleted"}, job'[c].at = i
      PROVE  job'[c].basis # Fresh
  <2>1. CASE Query(c)
    <3>1. /\ Active(c) /\ pc[c] # "choosing" /\ job[c].at = i
          /\ job'[c].basis = Worst(Current(c).reads)
      BY <1>3, <2>1, QueryIInv DEF Query, Active
    <3>2. i \in job[c].pending /\ Current(c).reads = Runners[i].reads
      BY <3>1, CurrentRunner DEF IInv
    <3>3. PICK u \in Runners[k].fills : u \in Runners[i].reads
      BY DEF ReadsBefore
    <3>4. content[u] # Fresh
      BY <3>1, <3>2 DEF StaysEarly
    <3>5. Runners[i].reads \in SUBSET Tables
      BY FilledAreTables
    <3> QED
      BY <3>1, <3>2, <3>3, <3>4, <3>5, WorstVintage DEF IInv
  <2>2. Query(c) \/ (pc[c] \in {"writing", "deleted"} /\ job'[c] = job[c])
    BY <1>3, StepToWriting
  <2> QED
    BY <1>3, <2>1, <2>2 DEF StaysEarly
<1>4. ASSUME NEW t \in Runners[i].fills PROVE content'[t] # Fresh
  <2>1. t \in Tables /\ content[t] # Fresh /\ Empty # Fresh /\ Stale # Fresh
    BY FilledAreTables DEF StaysEarly, Empty, Stale, Fresh
  <2>2. ASSUME NEW c \in Calls, Active(c), pc[c] \in {"writing", "deleted"},
               t \in Runners[job[c].at].fills
        PROVE  job[c].basis # Fresh
    <3>1. job[c].at \in Positions
      BY <2>2, CurrentRunner DEF IInv
    <3>2. job[c].at = i
      BY <2>2, <3>1, FillerAssumption
    <3> QED
      BY <2>2, <3>2 DEF StaysEarly
  <2> QED
    BY <2>1, <2>2, ContentStep
<1> QED
  BY <1>1, <1>2, <1>3, <1>4 DEF StaysEarly

\* A stale table is never up to date.
StaleInv(P, D) ==
  /\ NeverExecuted(D)
  /\ \A i \in P, k, m \in Positions : ReadsBefore(i, k, m) => StaysEarly(i, k, m)

LEMMA StaleInvSuffices ==
  ASSUME NEW P \in SUBSET Positions, NEW D \in SUBSET Positions, StaleForGood(P, D),
         StaleInv(P, D)
  PROVE  StaleTablesNeverFresh
<1> SUFFICES ASSUME NEW t \in StaleTables PROVE content[t] # Fresh
  BY DEF StaleTablesNeverFresh
<1>1. PICK i \in Positions : t \in Runners[i].fills
  BY DEF StaleForGood, FilledBy
<1>2. CASE i \in D
  BY <1>1, <1>2 DEF StaleInv, NeverExecuted, FilledBy, Empty, Fresh
<1>3. CASE i \in P /\ \E k, m \in Positions : ReadsBefore(i, k, m)
  BY <1>1, <1>3 DEF StaleInv, StaysEarly
<1> QED
  BY <1>1, <1>2, <1>3 DEF StaleForGood

\* What the runners that wait for each other, and those that read too early, rely on.
LEMMA StaleInvariance ==
  ASSUME NEW P \in SUBSET Positions, NEW D \in SUBSET Positions,
         Prompt(P), SettledReads(P), Deadlocked(D)
  PROVE  Spec => []StaleInv(P, D)
<1>1. Init => StaleInv(P, D)
  BY InitNeverExecuted, InitStaysEarly DEF StaleInv
<1>2. IInv /\ PassesInOrder(P) /\ DataInv /\ StaleInv(P, D) /\ [Next]_vars => StaleInv(P, D)'
  <2> SUFFICES ASSUME IInv, PassesInOrder(P), DataInv, StaleInv(P, D), [Next]_vars
               PROVE  StaleInv(P, D)'
    OBVIOUS
  <2>1. NeverExecuted(D)'
    BY NextNeverExecuted DEF StaleInv
  <2>2. ASSUME NEW i \in P, NEW k \in Positions, NEW m \in Positions, ReadsBefore(i, k, m)
        PROVE  StaysEarly(i, k, m)'
    BY <2>2, NextStaysEarly DEF StaleInv
  <2> QED
    BY <2>1, <2>2 DEF StaleInv
<1> QED
  BY <1>1, <1>2, OrderAndData, PTL DEF Spec

\* The two sides of one graph of runners: a success leaves every table up to
\* date but the stale ones, and no order of runs, retries or restarts ever
\* brings those up to date.
THEOREM FreshButStaleTablesCorrect ==
  ASSUME NEW P \in SUBSET Positions, NEW D \in SUBSET Positions,
         NEW rank \in [Positions -> Nat],
         Prompt(P), SettledReads(P), Deadlocked(D), Ranked(rank), StaleForGood(P, D)
  PROVE  Spec => []FreshButStaleTables
<1>1. StaleInv(P, D) => StaleTablesNeverFresh
  BY StaleInvSuffices
<1>2. CompletedIsFresh /\ StaleTablesNeverFresh => FreshButStaleTables
  BY DEF FreshButStaleTables
<1> QED
  BY <1>1, <1>2, CompletedIsFreshCorrect, StaleInvariance, PTL

-----------------------------------------------------------------------------
(* Tables written in a transaction. *)

LEMMA AtomicTablesAreTables == AtomicTables \subseteq Tables
<1> SUFFICES ASSUME NEW i \in Positions PROVE Runners[i].fills \subseteq Tables
  BY DEF AtomicTables
<1>1. Runners[i] \in Runner
  BY RunnersAssumption DEF Positions
<1> QED
  BY <1>1 DEF Runner

\* A write leaves no table empty that is written in a transaction.
LEMMA StoreFills ==
  ASSUME NEW D, AtomicTables \cap StaleTables \subseteq FilledBy(D), NeverExecuted(D),
         IInv, DataInv, NEW c \in Calls, AtWrite(c), Store(c),
         NEW t \in AtomicTables, content[t] # Empty
  PROVE  content'[t] # Empty
<1>1. t \notin StaleTables
  BY DEF NeverExecuted
<1>2. CASE t \in Current(c).fills
  BY <1>1, <1>2, StoreCorrect DEF DataInv, Empty, Fresh
<1>3. CASE t \notin Current(c).fills
  <2>1. t \in Tables
    BY AtomicTablesAreTables
  <2> QED
    BY <1>3, <2>1 DEF Store
<1> QED
  BY <1>2, <1>3

\* Readers of a table that is written in a transaction never find it empty
\* once it has been filled, whatever fails.
THEOREM AtomicTablesCorrect ==
  ASSUME NEW P \in SUBSET Positions, NEW D \in SUBSET Positions,
         Prompt(P), SettledReads(P), Deadlocked(D),
         AtomicTables \cap StaleTables \subseteq FilledBy(D)
  PROVE  Spec => AtomicTablesStayFilled
<1>1. ASSUME IInv, DataInv, NeverExecuted(D), [Next]_vars, NEW t \in AtomicTables, content[t] # Empty
      PROVE  content'[t] # Empty
  <2>1. PICK i \in Positions : t \in Runners[i].fills /\ Runners[i].store = "transaction"
    BY DEF AtomicTables
  <2>2. t \in Tables
    BY AtomicTablesAreTables
  <2>3. CASE UNCHANGED content
    BY <1>1, <2>3
  <2>4. CASE \E c \in Calls : AtWrite(c) /\ Store(c)
    BY <1>1, <2>4, StoreFills
  <2>5. ASSUME NEW c \in Calls, RunAggregationJob(c) PROVE content'[t] # Empty
    BY <1>1, <2>2, <2>5 DEF RunAggregationJob, Age, Empty, Stale
  <2>6. ASSUME NEW c \in Calls, Delete(c) PROVE content'[t] # Empty
    <3>1. Active(c) /\ pc[c] # "choosing" /\ Current(c).store = "replace"
      BY <2>6 DEF Delete, Active
    <3>2. job[c].at \in Positions /\ Current(c) = Runners[job[c].at]
      BY <1>1, <3>1, CurrentRunner DEF IInv
    <3>3. t \notin Current(c).fills
      BY <2>1, <3>1, <3>2, FillerAssumption
    <3> QED
      BY <1>1, <2>2, <2>6, <3>3 DEF Delete
  <2> QED
    BY <1>1, <2>3, <2>4, <2>5, <2>6
       DEF Next, Step, vars, Crash, StartRunner, NextPass, Finish, Query, SkipToday, Write,
           Wake, AttemptFails
<1>2. ASSUME IInv, DataInv, NeverExecuted(D), [Next]_vars
      PROVE  [\A t \in AtomicTables : content[t] # Empty => content'[t] # Empty]_vars
  BY <1>1, <1>2
<1>3. StaleInv(P, D) => NeverExecuted(D)
  BY DEF StaleInv
<1> QED
  BY <1>2, <1>3, OrderAndData, StaleInvariance, PTL DEF Spec, AtomicTablesStayFilled
=============================================================================
