---------------------------- MODULE IndexLedger ----------------------------
(***************************************************************************)
(* What a PoRep indexer runner promises to the readers of its tables,      *)
(* whatever the schedule of its hourly runs, its failures and restarts:    *)
(* the tables always hold the logs of one unbroken range of blocks that    *)
(* starts at the runner's origin block, every block of it exactly once,    *)
(* and were built by one version of the runner's code.                     *)
(***************************************************************************)
EXTENDS Integers

CONSTANTS Origin,        \* first block the runner indexes
          MaxBlock       \* bound: last block of the chain

VARIABLES generation,    \* version of the code that built the tables, 0 = none
          upTo,          \* last block the tables cover
          content        \* per block, how many times its logs are in the tables

ledgerVars == <<generation, upTo, content>>

\* The content of tables that cover the blocks Origin..u, each once.
OnceUpTo(u) == [b \in Origin..MaxBlock |-> IF b <= u THEN 1 ELSE 0]

LedgerInit == /\ generation = 0
              /\ upTo = Origin - 1
              /\ content = OnceUpTo(Origin - 1)

\* The next blocks are appended.
Advance == /\ generation > 0
           /\ \E u \in (upTo + 1)..MaxBlock :
                 /\ upTo' = u
                 /\ content' = OnceUpTo(u)
           /\ UNCHANGED generation

\* A newer version of the code replaces everything by its own first blocks.
Rebuild == \E u \in (Origin - 1)..MaxBlock :
              /\ upTo' = u
              /\ content' = OnceUpTo(u)
              /\ generation' \in Nat
              /\ generation' > generation

LedgerNext == Advance \/ Rebuild

LedgerSpec == LedgerInit /\ [][LedgerNext]_ledgerVars
=============================================================================
