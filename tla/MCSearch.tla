------------------------------ MODULE MCSearch ------------------------------
(* The instance of Search and ZeroFrame for TLC.                           *)
EXTENDS Search

SomeHits == [q \in {"here", "nowhere"} |-> IF q = "here" THEN {"page"} ELSE {}]
=============================================================================
