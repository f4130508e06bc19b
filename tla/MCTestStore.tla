----------------------------- MODULE MCTestStore -----------------------------
(***************************************************************************)
(* TestStore for TLC: two tests, and any two of four requests.             *)
(***************************************************************************)
EXTENDS TestStore

CONSTANTS t1, t2, d1, d2, g, l, a, ab, none

MCKind == [r \in Requests |-> CASE r \in {d1, d2} -> "delete"
                               [] r = g -> "get"
                               [] OTHER -> "list"]

\* The ID ab begins with the ID a.
Prefix  == [i \in IDs |-> IF i = a THEN IDs ELSE {i}]
Plain   == [i \in IDs |-> {i}]

\* Both tests have the ID a, and d2 deletes everything.
OneID == [x \in Tests \cup Requests |-> IF x = d2 THEN none ELSE a]

\* The second test has the other ID.
TwoIDs == [x \in Tests \cup Requests |-> IF x = t2 THEN ab ELSE a]
=============================================================================
