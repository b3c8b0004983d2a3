---------------------------- MODULE MCResultsTable ----------------------------
(* ResultsTable on a small instance.                                       *)
EXTENDS ResultsTable

\* An answer may be empty or not: a shorter one can follow a longer, and a longer a shorter.
MCSizes == {0, 2}
=============================================================================
