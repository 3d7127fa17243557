--------------------------- MODULE IndexerUpdates ---------------------------
(***************************************************************************)
(* How the PoRep indexer runners turn a batch of logs into updates of      *)
(* their tables: the order they give the logs, the update input they       *)
(* build by reducing the logs of one entity, and what the database does    *)
(* with it.  An update input maps some columns to an operation.            *)
(***************************************************************************)
EXTENDS Integers, SequencesExt

SetTo(v) == [op |-> "set", arg |-> v]
Increment(n) == [op |-> "increment", arg |-> n]
Decrement(n) == [op |-> "decrement", arg |-> n]

\* logs.sort((a, b) => a === b ? 0 : a > b ? 1 : -1).  Two different log
\* objects compare as equal strings, so a > b is false and the comparator
\* answers -1 for every pair: the engine sees one descending run, reverses it.
SortLogs(logs) == Reverse(logs)

\* The logs up to a block come first among those in chain order.
UpTo(logs, toBlock) ==
  SubSeq(logs, 1, CHOOSE n \in 0..Len(logs) :
                    \A i \in DOMAIN logs : logs[i].blockNumber <= toBlock <=> i <= n)

\* {...previous, ...update}: the columns of the later update win.
Spread(previous, update) ==
  [c \in DOMAIN previous \cup DOMAIN update |->
      IF c \in DOMAIN update THEN update[c] ELSE previous[c]]

Balance(u) == CASE u.op = "increment" -> u.arg
                [] u.op = "decrement" -> -u.arg

\* Two increments or decrements of a column are added up; the first stands alone.
MergeBigIntFieldUpdate(column, input, update) ==
  IF column \notin DOMAIN input THEN update
  ELSE LET balance == Balance(input[column]) + Balance(update)
       IN IF balance >= 0 THEN Increment(balance) ELSE Decrement(-balance)

\* What one more update of an entity adds to its input so far: some columns are
\* merged, the others overwritten.
AddUpdate(merged, previous, update) ==
  Spread(previous, [c \in DOMAIN update |->
    IF c \in merged THEN MergeBigIntFieldUpdate(c, previous, update[c]) ELSE update[c]])

\* logs.reduce(...): the input that the updates of an entity add up to, in order.
UpdateInput(merged, updates) ==
  LET input[i \in 0..Len(updates)] ==
        IF i = 0 THEN <<>> ELSE AddUpdate(merged, input[i - 1], updates[i])
  IN input[Len(updates)]

\* The database applies an update input to a row.
ApplyUpdate(row, input) ==
  [c \in DOMAIN row |->
     IF c \notin DOMAIN input THEN row[c]
     ELSE CASE input[c].op = "set" -> input[c].arg
            [] input[c].op = "increment" -> row[c] + input[c].arg
            [] input[c].op = "decrement" -> row[c] - input[c].arg]
=============================================================================
