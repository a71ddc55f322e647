----------------------------- MODULE ResumeEncode ----------------------------
(***************************************************************************)
(* An encode that is killed and started again over what it left on disk    *)
(* (src/src/grok_encoder/video_pipeline.rs                                 *)
(* encode_video_pipeline_resumable_with_mxf_feed): it skips the codestreams *)
(* that form a contiguous prefix, all but the last of them.  A resumed run *)
(* feeds no wrap.                                                          *)
(***************************************************************************)
EXTENDS EncodePipeline

CONSTANT MaxRestarts       \* bound: runs after the first

VARIABLES
  start_frame,             \* the first frame this run encodes
  restarts

resumeVars == <<start_frame, restarts>>
allVars == <<vars, resumeVars>>

ResumeInit ==
  /\ Init /\ wrap = "absent"
  /\ start_frame = 0 /\ restarts = 0

(* contiguous_encoded_frames: files 0, 1, 2, ... that exist, whatever is in *)
(* them.                                                                   *)
contiguous_encoded_frames ==
  Cardinality({f \in Frames : \A g \in 0..f : codestreams[g] # "absent"})

saturating_sub(a, b) == IF a > b THEN a - b ELSE 0

(* The process dies, or its run has returned, and a new run begins: its     *)
(* threads and queues start over, the files stay.                          *)
Restart ==
  /\ restarts < MaxRestarts /\ restarts' = restarts + 1
  /\ start_frame' = saturating_sub(contiguous_encoded_frames, 1)
  /\ producer' = "beginning" /\ in_hand' = NoFrame
  /\ source' = "open" /\ frames_produced' = 0 /\ result' = "none"
  /\ cancel' = FALSE /\ error_flag' = FALSE
  /\ input_queue' = <<>> /\ closed' = FALSE
  /\ encoder' = [e \in Encoders |-> "looping"]
  /\ encoding' = [e \in Encoders |-> NoFrame]
  /\ batch' = "none" /\ in_batch' = {}
  /\ writer_channel' = <<>> /\ writer' = "receiving" /\ writing' = NoFrame
  /\ frames_encoded' = 0
  /\ UNCHANGED <<wrapVars, codestreams>>

ResumeNext ==
  \/ Restart
  \/ /\ ProducerReads(start_frame) \/ ProducerRest \/ ProducerJoinsWriter \/ Others
     /\ UNCHANGED resumeVars

ResumeSpec == ResumeInit /\ [][ResumeNext]_allVars

-----------------------------------------------------------------------------
(* A run that reports success after reading its source to the end.          *)
EncodedToTheEnd == Ok /\ start_frame + frames_produced = FrameCount

(* video_pipeline.rs:65, "the last existing frame is always re-encoded in   *)
(* case it was truncated by the interruption": no codestream of a finished  *)
(* encode is the truncated one of an interrupted run.                       *)
NoTruncatedFrameStays ==
  EncodedToTheEnd => \A f \in Frames : codestreams[f] # "partial"

=============================================================================
