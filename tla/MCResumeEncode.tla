---------------------------- MODULE MCResumeEncode ---------------------------
(* ResumeEncode on small instances: one restart, two encoder threads.       *)
EXTENDS ResumeEncode
=============================================================================
