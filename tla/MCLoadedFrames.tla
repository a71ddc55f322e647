---------------------------- MODULE MCLoadedFrames ---------------------------
(* LoadedFrames on small instances: more frames than the loaders and their  *)
(* channel hold.                                                           *)
EXTENDS LoadedFrames
=============================================================================
