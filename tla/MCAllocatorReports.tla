-------------------------- MODULE MCAllocatorReports --------------------------
(* An allocator with two clients, one without clients that is not of edition 6, and one
   that is not found; three scores, the first of weight zero for enterprise data. *)
EXTENDS AllocatorReports, TLC

CONSTANTS f1, f2, f3, c1, c2

MCRegistry == <<f1, f2, f3>>
MCClientsOf == [a \in Allocators |-> IF a = f1 THEN {c1, c2} ELSE {}]
MCDataType == [a \in Allocators |-> IF a = f1 THEN "enterprise" ELSE "none"]
MCWeights == [openData |-> <<3, 5, 3>>, enterprise |-> <<0, 3, 2>>]

\* Two finished reports, of one client or of both.
Done(client, recent, result) ==
  [client |-> client, recent |-> recent, open |-> FALSE,
   results |-> [k \in ClientChecks |-> IF k # Inactivity THEN result
                                      ELSE IF recent THEN "pass" ELSE "fail"]]
MCInitialClientReports ==
  {<<Done(c, r, x), Done(d, q, y)>> :
     c, d \in {c1, c2}, r, q \in BOOLEAN, x, y \in {"pass", "fail"}}
    \ {<<Done(c, TRUE, x), Done(c, FALSE, y)>> : c \in {c1, c2}, x, y \in {"pass", "fail"}}
ClientSymmetry == Permutations({c1, c2})
=============================================================================
