------------------------------ MODULE MCJobQueue ------------------------------
(* A small instance of JobQueue for TLC. *)
EXTENDS JobQueue, TLC

CONSTANTS j1, j2, j3

ThreeJobs == {j1, j2, j3}
=============================================================================
