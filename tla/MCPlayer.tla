------------------------------ MODULE MCPlayer ------------------------------
(***************************************************************************)
(* A composition of four frames, the middle two of which may fail to       *)
(* decode, one of a single frame, and a pool of one worker, whose window   *)
(* is three frames: it runs on into the queued composition, and two        *)
(* failures fill it.                                                       *)
(***************************************************************************)
EXTENDS PlayerScheduler, TLC

CONSTANTS a, b

MCFrameCount == (a :> 4) @@ (b :> 1)
MCBad == {<<a, 1>>, <<a, 2>>}
=============================================================================
