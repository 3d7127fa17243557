---------------------------- MODULE PoRepIndexer ----------------------------
(***************************************************************************)
(* One PoRep indexer runner (AbstractPoRepIndexerRunner): an hourly cron   *)
(* job that reads the chain head and its own last run, fetches the logs of *)
(* the next batch of blocks, turns them into table updates and commits     *)
(* them with a run record in one database transaction.                     *)
(*                                                                         *)
(* Every await of execute() is a point where the other invocations, the    *)
(* chain, a crash or a deployment may step in, so each stretch between two *)
(* awaits is one action.  The logs of a block are abstracted to the number *)
(* of times they have been applied to the tables since the last cleanup.   *)
(***************************************************************************)
EXTENDS Integers, Sequences

CONSTANTS Calls,               \* invocations of execute() that may be pending
          Origin,              \* getOriginBlock()
          BatchBlockSize,      \* getBatchBlockSize()
          ArchiveNodeThreshold,\* getArchiveNodeThreshold()
          RecentNodeWindow,    \* blocks behind the head the recent node keeps
          MaxLag,              \* how far a node's head may be behind the chain
          LenientNode,         \* does a node answer an empty (inverted) range?
          MaxBlock,            \* bound: last block of the chain
          MaxVersion,          \* bound: last version deployed
          MaxFailures          \* bound: faults of nodes, database and process

Blocks == Origin..MaxBlock
Versions == 1..MaxVersion

ASSUME ConstantsAssumption ==
  /\ Origin \in Nat \ {0}
  /\ MaxBlock \in Nat /\ Origin <= MaxBlock
  /\ BatchBlockSize \in Nat \ {0}
  /\ ArchiveNodeThreshold \in Nat
  /\ MaxLag \in Nat
  /\ RecentNodeWindow \in Nat
  /\ MaxVersion \in Nat \ {0}
  /\ MaxFailures \in Nat
  /\ LenientNode \in BOOLEAN

\* The recent node keeps what execute() asks it for.
ASSUME RecentNodeAssumption == RecentNodeWindow >= ArchiveNodeThreshold + MaxLag

\* A node that accepts inverted ranges never reports an older head.
ASSUME LenientNodeAssumption == LenientNode => MaxLag = 0

VARIABLES head,       \* the chain's last block
          version,    \* getVersion() of the deployed code
          runs,       \* po_rep_indexer_run: per version, its rows by date
          applied,    \* per block, how often its logs are in the tables
          isRunning,  \* the runner's flag
          pc,         \* per invocation, the await it is at
          req,        \* per invocation, the locals computed before getLogs
          failures    \* faults so far

vars == <<head, version, runs, applied, isRunning, pc, req, failures>>

Stages == {"idle", "reading", "fetching", "preparing", "committing"}

Row == [blockStart : Nat, blockEnd : 0..MaxBlock]

Request == [currentBlock : Nat, fromBlock : Nat, toBlock : Nat,
            versionChanged : BOOLEAN, archive : BOOLEAN]

NoRequest == [currentBlock |-> 0, fromBlock |-> 0, toBlock |-> 0,
              versionChanged |-> FALSE, archive |-> FALSE]

Active(c) == pc[c] # "idle"

\* findFirst(... orderBy date desc).blockEnd for a version that has a run.
LastBlockEnd(v) == runs[v][Len(runs[v])].blockEnd

\* Mutant: the last block of the previous run is taken again.
NextFromBlock_Inclusive(v) == IF runs[v] = <<>> THEN Origin ELSE LastBlockEnd(v)

\* Mutant: a block is skipped after each run.
NextFromBlock_Skip(v) == IF runs[v] = <<>> THEN Origin ELSE LastBlockEnd(v) + 2

\* The origin block for a version without a run, else the block after the last run.
NextFromBlock(v) == IF runs[v] = <<>> THEN Origin ELSE LastBlockEnd(v) + 1

-----------------------------------------------------------------------------
Init == /\ head = Origin
        /\ version = 1
        /\ runs = [v \in Versions |-> <<>>]
        /\ applied = [b \in Blocks |-> 0]
        /\ isRunning = FALSE
        /\ pc = [c \in Calls |-> "idle"]
        /\ req = [c \in Calls |-> NoRequest]
        /\ failures = 0

\* A new block is accepted by the chain.
GrowChain == /\ head < MaxBlock
             /\ head' = head + 1
             /\ UNCHANGED <<version, runs, applied, isRunning, pc, req, failures>>

\* The cron starts execute(); an invocation that finds isRunning set returns
\* at once and changes nothing.
Execute(c) == /\ pc[c] = "idle"
              /\ ~isRunning
              /\ isRunning' = TRUE
              /\ pc' = [pc EXCEPT ![c] = "reading"]
              /\ UNCHANGED <<head, version, runs, applied, req, failures>>

\* The batch ends after BatchBlockSize blocks or at the head the node reported.
ToBlock(from, current) == IF current - from >= BatchBlockSize
                          THEN from + BatchBlockSize - 1 ELSE current

\* Mutant: the recent node is asked for everything.
ShouldUseArchiveNode_Never(from, current) == FALSE

ShouldUseArchiveNode(from, current) == current - from >= ArchiveNodeThreshold

\* The block range and the node, from the head the node reports and the last run.
RequestFor(current) ==
  LET from == NextFromBlock(version)
  IN [currentBlock |-> current,
      fromBlock |-> from,
      toBlock |-> ToBlock(from, current),
      versionChanged |-> runs[version] = <<>>,
      archive |-> ShouldUseArchiveNode(from, current)]

\* Both answers of Promise.all are in: the node's block number and the last run.
Read(c) == /\ pc[c] = "reading"
           /\ \E current \in 0..head :
                 /\ current >= head - MaxLag
                 /\ req' = [req EXCEPT ![c] = RequestFor(current)]
           /\ pc' = [pc EXCEPT ![c] = "fetching"]
           /\ UNCHANGED <<head, version, runs, applied, isRunning, failures>>

\* A node answers a range it holds; the recent node has pruned old blocks.
Answers(r) == /\ r.fromBlock <= r.toBlock \/ LenientNode
              /\ r.archive \/ r.fromBlock >= head - RecentNodeWindow

\* getLogs returns the logs of the whole range.
Fetch(c) == /\ pc[c] = "fetching"
            /\ Answers(req[c])
            /\ pc' = [pc EXCEPT ![c] = "preparing"]
            /\ UNCHANGED <<head, version, runs, applied, isRunning, req, failures>>

\* The catch clause: the flag is released, nothing else changes.
Abandon(c) == /\ isRunning' = FALSE
              /\ pc' = [pc EXCEPT ![c] = "idle"]
              /\ req' = [req EXCEPT ![c] = NoRequest]

\* The node refuses the range: inverted, or older than what it keeps.
FetchRejected(c) == /\ pc[c] = "fetching"
                    /\ ~Answers(req[c])
                    /\ Abandon(c)
                    /\ UNCHANGED <<head, version, runs, applied, failures>>

\* prepareUpdates is done (it may have called a contract).
Prepare(c) == /\ pc[c] = "preparing"
              /\ pc' = [pc EXCEPT ![c] = "committing"]
              /\ UNCHANGED <<head, version, runs, applied, isRunning, req, failures>>

\* An awaited call fails and left no trace: the node, the database, or the
\* transaction that is rolled back.
Fail(c) == /\ Active(c)
           /\ failures < MaxFailures
           /\ failures' = failures + 1
           /\ Abandon(c)
           /\ UNCHANGED <<head, version, runs, applied>>

\* Mutant: the cleanup is left out of the transaction.
Kept_All(r, b) == applied[b]

\* Mutant: every batch starts with the cleanup.
Kept_Nothing(r, b) == 0

\* What prepareCleanup leaves of a block: it runs only when the version changed.
Kept(r, b) == IF r.versionChanged THEN 0 ELSE applied[b]

\* The transaction: cleanup when the version changed, the updates of the
\* range, the run record.
Transact(r) ==
  /\ applied' = [b \in Blocks |->
        Kept(r, b) + (IF r.fromBlock <= b /\ b <= r.toBlock THEN 1 ELSE 0)]
  /\ runs' = [runs EXCEPT ![version] = Append(@,
        [blockStart |-> r.fromBlock, blockEnd |-> r.toBlock])]

\* The transaction commits.  Short of the head it saw, execute() clears the
\* flag and calls itself, which sets it again before anything else can run.
Commit(c) == /\ pc[c] = "committing"
             /\ Transact(req[c])
             /\ LET keepRunning == req[c].currentBlock # req[c].toBlock
                IN /\ isRunning' = keepRunning
                   /\ pc' = [pc EXCEPT ![c] = IF keepRunning THEN "reading" ELSE "idle"]
             /\ req' = [req EXCEPT ![c] = NoRequest]
             /\ UNCHANGED <<head, version, failures>>

\* The transaction commits, but its acknowledgement is lost.
CommitUnacknowledged(c) == /\ pc[c] = "committing"
                           /\ failures < MaxFailures
                           /\ failures' = failures + 1
                           /\ Transact(req[c])
                           /\ Abandon(c)
                           /\ UNCHANGED <<head, version>>

\* A new process has no invocation pending and its flag clear.
FreshProcess == /\ isRunning' = FALSE
                /\ pc' = [c \in Calls |-> "idle"]
                /\ req' = [c \in Calls |-> NoRequest]

\* The process dies; a transaction it had sent may still commit.
Crash == /\ isRunning
         /\ failures < MaxFailures
         /\ failures' = failures + 1
         /\ FreshProcess
         /\ \/ UNCHANGED <<runs, applied>>
            \/ \E c \in Calls : pc[c] = "committing" /\ Transact(req[c])
         /\ UNCHANGED <<head, version>>

\* A process with an increased getVersion() replaces the old one.
Deploy == /\ version < MaxVersion
          /\ version' = version + 1
          /\ FreshProcess
          /\ UNCHANGED <<head, runs, applied, failures>>

Next == \/ GrowChain
        \/ Crash
        \/ Deploy
        \/ \E c \in Calls : \/ Execute(c)
                            \/ Read(c)
                            \/ Fetch(c)
                            \/ FetchRejected(c)
                            \/ Prepare(c)
                            \/ Fail(c)
                            \/ Commit(c)
                            \/ CommitUnacknowledged(c)

Spec == Init /\ [][Next]_vars

\* The cron keeps firing, and every awaited call returns or fails.
Step(c) == Read(c) \/ Fetch(c) \/ FetchRejected(c) \/ Prepare(c) \/ Commit(c)

FairSpec == /\ Spec
            /\ WF_vars(\E c \in Calls : Execute(c))
            /\ \A c \in Calls : WF_vars(Step(c))

-----------------------------------------------------------------------------
TypeOK == /\ head \in Blocks
          /\ version \in Versions
          /\ runs \in [Versions -> Seq(Row)]
          /\ applied \in [Blocks -> Nat]
          /\ isRunning \in BOOLEAN
          /\ pc \in [Calls -> Stages]
          /\ req \in [Calls -> Request]
          /\ failures \in 0..MaxFailures

\* isRunning is set exactly while one invocation is at work: no two of them
\* overlap (cron tick, self-call, crash), and a failure never leaves it stuck.
SingleFlight == /\ isRunning <=> \E c \in Calls : Active(c)
                /\ \A c, d \in Calls : Active(c) /\ Active(d) => c = d

\* The version whose runs built what the tables hold now.
Built(v) == /\ runs[v] # <<>>
            /\ \A w \in Versions : w > v => runs[w] = <<>>

\* The logs of every block up to the last run are in the tables exactly once,
\* and no other block's, across overlaps, failures, lost acknowledgements,
\* crashes and changes of version.
ExactlyOnce ==
  /\ \A v \in Versions : Built(v) =>
        \A b \in Blocks : applied[b] = IF b <= LastBlockEnd(v) THEN 1 ELSE 0
  /\ (\A v \in Versions : runs[v] = <<>>) => \A b \in Blocks : applied[b] = 0

\* The run records of a version tile the chain from the origin, without gap
\* or overlap.
RunsTile ==
  \A v \in Versions : \A i \in 1..Len(runs[v]) :
     /\ runs[v][i].blockStart = IF i = 1 THEN Origin ELSE runs[v][i - 1].blockEnd + 1
     /\ runs[v][i].blockEnd >= runs[v][i].blockStart - 1
     /\ runs[v][i].blockEnd <= head

\* What an invocation read before its awaits still describes the database when
\* it comes to commit: same last run, same next block, no block past the head.
RequestFresh ==
  \A c \in Calls : pc[c] \in {"fetching", "preparing", "committing"} =>
     /\ req[c].versionChanged <=> runs[version] = <<>>
     /\ req[c].fromBlock = NextFromBlock(version)
     /\ req[c].toBlock <= head
     /\ (LenientNode \/ pc[c] # "fetching") => req[c].toBlock >= req[c].fromBlock - 1

\* Code that is not deployed yet has indexed nothing.
FutureVersionsEmpty == \A v \in Versions : v > version => runs[v] = <<>>

\* The inductive invariant of the runner.
IInv == TypeOK /\ SingleFlight /\ RunsTile /\ RequestFresh /\ FutureVersionsEmpty /\ ExactlyOnce

\* A step takes logs out of the tables only when it is the first commit of a
\* version, and that commit is by the deployed code.
CleanupOnlyByNewVersion ==
  [][(\E b \in Blocks : applied'[b] < applied[b])
        => /\ runs[version] = <<>>
           /\ Len(runs'[version]) = 1]_vars

\* Every block the nodes can see is indexed by the deployed version in the end.
EventuallyIndexed ==
  \A b \in Blocks :
     (head >= b + MaxLag) ~> (runs[version] # <<>> /\ LastBlockEnd(version) >= b)

-----------------------------------------------------------------------------
\* Refinement: the runs and the tables are an IndexLedger.
Generation == IF \E v \in Versions : Built(v)
              THEN CHOOSE v \in Versions : Built(v) ELSE 0

UpTo == IF Generation = 0 THEN Origin - 1 ELSE LastBlockEnd(Generation)

Ledger == INSTANCE IndexLedger
            WITH generation <- Generation, upTo <- UpTo, content <- applied

\* The runner implements the ledger its readers rely on.
ImplementsLedger == Ledger!LedgerSpec
=============================================================================
