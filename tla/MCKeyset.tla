-------------------------------- MODULE MCKeyset -------------------------------
(***************************************************************************)
(* A TLC instance of Keyset: products sorted by name, then by aisle, or by *)
(* the time they were created alone.                                       *)
(***************************************************************************)
EXTENDS Keyset

CONSTANTS name, createdAt, byName, byCreatedAt

Sorts == [s \in {byName, byCreatedAt} |->
             IF s = byName THEN [primary |-> name, secondary |-> createdAt]
             ELSE [primary |-> createdAt, secondary |-> None]]

Made(id, n, t) == [id |-> id, at |-> [c \in Column |-> IF c = name THEN n ELSE t]]

\* Rows that tie in one column or in both.
Rows == {Made(1, 2, 2), Made(1, 3, 3), Made(2, 2, 2), Made(2, 2, 3),
         Made(3, 2, 2), Made(3, 3, 2), Made(4, 2, 3)}

================================================================================
