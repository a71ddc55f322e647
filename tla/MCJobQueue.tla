----------------------------- MODULE MCJobQueue ------------------------------
(* JobQueue with three jobs and a process that stops and starts again.      *)
EXTENDS JobQueue
=============================================================================
