---------------------------- MODULE MCDecodeDevice ---------------------------
(* DecodeDevice on small instances: frames of a DCP and of an IMP, and two *)
(* display transforms (the monitor profile changes while playing).         *)
EXTENDS DecodeDevice
=============================================================================
