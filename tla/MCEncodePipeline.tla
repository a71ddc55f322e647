--------------------------- MODULE MCEncodePipeline --------------------------
(* EncodePipeline on small instances: queues of one, so every send blocks,  *)
(* and a plugin that holds one frame back.                                  *)
EXTENDS EncodePipeline
=============================================================================
