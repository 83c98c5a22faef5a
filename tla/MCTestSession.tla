--------------------------- MODULE MCTestSession ---------------------------
(* A recording of the console's own kind and one of another, each with its *)
(* start lists.                                                            *)
EXTENDS TestSession
=============================================================================
