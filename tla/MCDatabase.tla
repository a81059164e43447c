----------------------------- MODULE MCDatabase -----------------------------
(* Values for the run of Teardown.                                         *)
EXTENDS Teardown

\* A file that was just created.
NewFile == <<>>

=============================================================================
