---------------------------- MODULE EncodePipeline ---------------------------
(***************************************************************************)
(* The in-process encode with its overlapped wrap                          *)
(* (src/src/grok_encoder.rs encode_pipeline_with_mxf_feed, under           *)
(* encode/stream_encode.rs encode_frames and pipeline.rs                   *)
(* run_encode_and_maybe_wrap).                                             *)
(*                                                                         *)
(* The calling thread produces frames into a bounded queue; encoder        *)
(* threads pop, prepare and compress them, or submit them to the           *)
(* accelerator's batch; a writer thread writes each codestream to disk in  *)
(* completion order and feeds it to the wrap.  Any of them may fail, and   *)
(* the host may cancel at any time.  The accelerator plugin is external.   *)
(***************************************************************************)
EXTENDS OverlappedWrap

CONSTANTS
  FrameCount,        \* bound: frames in the source
  Encoders,          \* encode_thread_count threads
  QueueCapacity,     \* of the input queue and of the writer channel
  BatchHoldsBack,    \* frames the plugin keeps until the batch ends
  Wraps              \* whether an MXF is asked for: TRUE, FALSE or either

ASSUME EncodePipelineAssumption ==
  /\ FrameCount \in Nat /\ Encoders # {} /\ IsFiniteSet(Encoders)
  /\ QueueCapacity \in Nat \ {0} /\ BatchHoldsBack \in Nat
  /\ Wraps \subseteq BOOLEAN

VARIABLES
  cancel,            \* the host's cancel flag
  error_flag,        \* a stage failed, and first_error says why
  producer,          \* where the calling thread is
  in_hand,           \* the frame it waits to push
  source,            \* the decoder: "open", "ended" or "failed"
  frames_produced,   \* frames pushed
  input_queue, closed,
  encoder,           \* where each encoder thread is
  encoding,          \* the frame it holds
  batch,             \* "none", "failed" to begin, "running", "ending", "ended"
  in_batch,          \* frames inside the plugin
  writer_channel, writer, writing,
  codestreams,       \* the j2c files: "absent", "partial", "over_cap", "whole"
  frames_encoded,    \* the writer's count
  result             \* what run_encode_and_maybe_wrap returns

flagVars == <<cancel, error_flag>>
producerVars == <<producer, in_hand, source, frames_produced, result>>
queueVars == <<input_queue, closed>>
encoderVars == <<encoder, encoding>>
batchVars == <<batch, in_batch>>
diskVars == <<codestreams, frames_encoded>>
writerVars == <<writer_channel, writer, writing>>
vars == <<wrapVars, flagVars, producerVars, queueVars, encoderVars, batchVars,
          diskVars, writerVars>>

Frames == 0..(FrameCount - 1)
NoFrame == FrameCount

ProducerStates == {"beginning", "reading", "pushing", "joining", "ending_batch",
                   "draining", "joining_writer", "wrapping", "finishing",
                   "abandoning", "dropping", "returned"}

TypeOK ==
  /\ WrapTypeOK
  /\ cancel \in BOOLEAN /\ error_flag \in BOOLEAN
  /\ producer \in ProducerStates /\ source \in {"open", "ended", "failed"}
  /\ in_hand \in Frames \cup {NoFrame}
  /\ frames_produced \in 0..FrameCount
  /\ input_queue \in Seq(Frames) /\ Len(input_queue) <= QueueCapacity
  /\ closed \in BOOLEAN
  /\ encoder \in [Encoders -> {"looping", "popping", "encoding", "sending", "done"}]
  /\ encoding \in [Encoders -> Frames \cup {NoFrame}]
  /\ batch \in {"none", "failed", "running", "ending", "ended"}
  /\ in_batch \subseteq Frames
  /\ writer_channel \in Seq(Frames) /\ Len(writer_channel) <= QueueCapacity
  /\ writer \in {"receiving", "writing", "feeding", "done"}
  /\ writing \in Frames \cup {NoFrame}
  /\ codestreams \in [Frames -> {"absent", "partial", "over_cap", "whole"}]
  /\ frames_encoded \in 0..FrameCount
  /\ result \in {"none", "ok", "error", "cancelled"}

Init ==
  /\ \E started \in Wraps : WrapInit(started)
  /\ cancel = FALSE /\ error_flag = FALSE
  /\ producer = "beginning" /\ in_hand = NoFrame
  /\ source = "open" /\ frames_produced = 0 /\ result = "none"
  /\ input_queue = <<>> /\ closed = FALSE
  /\ encoder = [e \in Encoders |-> "looping"]
  /\ encoding = [e \in Encoders |-> NoFrame]
  /\ batch = "none" /\ in_batch = {}
  /\ writer_channel = <<>> /\ writer = "receiving" /\ writing = NoFrame
  /\ codestreams = [f \in Frames |-> "absent"] /\ frames_encoded = 0

-----------------------------------------------------------------------------
(* A bug: a failure leaves the input queue open.                            *)
FailPipelineOpen == error_flag' = TRUE /\ UNCHANGED <<cancel, closed, input_queue>>

(* fail_pipeline: the flag, the first message and the close that wakes a   *)
(* producer blocked on the full queue.                                     *)
FailPipeline ==
  /\ error_flag' = TRUE /\ closed' = TRUE
  /\ UNCHANGED <<cancel, input_queue>>

Carry == UNCHANGED <<flagVars, queueVars>>

(* The host cancels.                                                       *)
Cancel ==
  /\ ~cancel /\ producer # "returned" /\ cancel' = TRUE
  /\ UNCHANGED <<wrapVars, error_flag, producerVars, queueVars, encoderVars,
                 batchVars, diskVars, writerVars>>

-----------------------------------------------------------------------------
(* The calling thread, up to the join of the encoder threads.              *)

(* Batch::begin: the plugin takes the run, declines it, or fails to start. *)
(* The frame it is shaped by stays the first to be pushed.                 *)
ProducerBegins ==
  /\ producer = "beginning"
  /\ \/ batch' = "running" /\ producer' = "reading"
     \/ batch' = "none" /\ producer' = "reading"
     \/ batch' = "failed" /\ producer' = "joining_writer"
  /\ UNCHANGED <<wrapVars, flagVars, in_hand, source, frames_produced, result,
                 queueVars, encoderVars, in_batch, diskVars, writerVars>>

(* The top of the producer loop: stop on a flag.                           *)
ProducerStops ==
  /\ producer = "reading"
  /\ cancel \/ error_flag
  /\ producer' = "joining" /\ closed' = TRUE
  /\ UNCHANGED <<wrapVars, flagVars, in_hand, source, frames_produced, result,
                 input_queue, encoderVars, batchVars, diskVars, writerVars>>

(* Otherwise the source gives it a frame, or ends, early or with a failure. *)
ProducerTakes(f) ==
  /\ producer = "reading" /\ ~cancel /\ ~error_flag
  /\ producer' = "pushing" /\ in_hand' = f
  /\ UNCHANGED <<wrapVars, flagVars, source, frames_produced, result, queueVars,
                 encoderVars, batchVars, diskVars, writerVars>>

SourceEnds(how) ==
  /\ producer = "reading" /\ ~cancel /\ ~error_flag
  /\ source' = how
  /\ producer' = "joining" /\ closed' = TRUE
  /\ UNCHANGED <<wrapVars, flagVars, in_hand, frames_produced, result,
                 input_queue, encoderVars, batchVars, diskVars, writerVars>>

(* encode_frames' source: the decoder, in order from the first frame it     *)
(* does not skip.                                                          *)
ProducerReads(first) ==
  \/ /\ first + frames_produced < FrameCount
     /\ ProducerTakes(first + frames_produced)
  \/ \E how \in {"ended", "failed"} : SourceEnds(how)

(* BoundedQueue::push.                                                     *)
ProducerPushes ==
  /\ producer = "pushing" /\ in_hand' = NoFrame
  /\ \/ /\ closed /\ producer' = "joining"
        /\ UNCHANGED <<input_queue, frames_produced>>
     \/ /\ ~closed /\ Len(input_queue) < QueueCapacity
        /\ input_queue' = Append(input_queue, in_hand)
        /\ frames_produced' = frames_produced + 1
        /\ producer' = "reading"
  /\ UNCHANGED <<wrapVars, flagVars, source, result, closed, encoderVars,
                 batchVars, diskVars, writerVars>>

(* The scope ends once every encoder thread has.                           *)
ProducerJoins ==
  /\ producer = "joining" /\ \A e \in Encoders : encoder[e] = "done"
  /\ producer' = "ending_batch"
  /\ batch' = IF batch = "running" THEN "ending" ELSE batch
  /\ UNCHANGED <<wrapVars, flagVars, in_hand, source, frames_produced, result,
                 queueVars, encoderVars, in_batch, diskVars, writerVars>>

-----------------------------------------------------------------------------
(* Encoder threads.                                                        *)

EncoderAt(e, from, to) ==
  encoder[e] = from /\ encoder' = [encoder EXCEPT ![e] = to]

(* A cancelled encoder thread closes the queue as it leaves.               *)
EncoderLoops(e) ==
  /\ producer # "beginning" /\ batch # "failed"
  /\ \/ /\ cancel \/ error_flag
        /\ EncoderAt(e, "looping", "done")
        /\ closed' = (closed \/ cancel)
     \/ /\ ~cancel /\ ~error_flag
        /\ EncoderAt(e, "looping", "popping") /\ UNCHANGED closed
  /\ UNCHANGED <<wrapVars, flagVars, producerVars, input_queue, encoding,
                 batchVars, diskVars, writerVars>>

EncoderPops(e) ==
  /\ \/ /\ input_queue # <<>>
        /\ EncoderAt(e, "popping", "encoding")
        /\ encoding' = [encoding EXCEPT ![e] = Head(input_queue)]
        /\ input_queue' = Tail(input_queue)
     \/ /\ input_queue = <<>> /\ closed
        /\ EncoderAt(e, "popping", "done")
        /\ UNCHANGED <<encoding, input_queue>>
  /\ UNCHANGED <<wrapVars, flagVars, producerVars, closed, batchVars, diskVars,
                 writerVars>>

(* Prepare and compress the frame, or submit it to the batch, which blocks  *)
(* while the plugin's pipeline is full.                                    *)
EncoderEncodes(e) ==
  /\ \/ /\ batch # "running"
        /\ EncoderAt(e, "encoding", "sending")
        /\ UNCHANGED <<encoding, in_batch>> /\ Carry
     \/ /\ batch = "running" /\ Cardinality(in_batch) <= BatchHoldsBack
        /\ EncoderAt(e, "encoding", "looping")
        /\ in_batch' = in_batch \cup {encoding[e]}
        /\ encoding' = [encoding EXCEPT ![e] = NoFrame] /\ Carry
     \/ /\ EncoderAt(e, "encoding", "done")
        /\ encoding' = [encoding EXCEPT ![e] = NoFrame]
        /\ FailPipeline /\ UNCHANGED in_batch
  /\ UNCHANGED <<wrapVars, producerVars, batch, diskVars, writerVars>>

(* Bugs: an unbounded channel, and one that drops what does not fit.        *)
SendsUnbounded(f) ==
  writer # "done" /\ writer_channel' = Append(writer_channel, f)

SendsOrDrops(f) ==
  /\ writer # "done"
  /\ writer_channel' = IF Len(writer_channel) < QueueCapacity
                       THEN Append(writer_channel, f) ELSE writer_channel

(* SyncSender::send to the writer: it blocks while the channel is full.    *)
SendsToWriter(f) ==
  /\ writer # "done" /\ Len(writer_channel) < QueueCapacity
  /\ writer_channel' = Append(writer_channel, f)

EncoderSends(e) ==
  /\ \/ /\ SendsToWriter(encoding[e])
        /\ EncoderAt(e, "sending", "looping") /\ UNCHANGED closed
     \/ /\ writer = "done" /\ UNCHANGED writer_channel
        /\ EncoderAt(e, "sending", "done") /\ closed' = (closed \/ cancel)
  /\ encoding' = [encoding EXCEPT ![e] = NoFrame]
  /\ UNCHANGED <<wrapVars, flagVars, producerVars, input_queue, batchVars,
                 diskVars, writer, writing>>

(* batch_frame_callback, on a plugin thread: the tail comes back only when *)
(* the batch ends.                                                         *)
BatchReturns(f) ==
  /\ f \in in_batch
  /\ batch = "ending" \/ Cardinality(in_batch) > BatchHoldsBack
  /\ in_batch' = in_batch \ {f}
  /\ \/ SendsToWriter(f) /\ Carry
     \/ writer = "done" /\ UNCHANGED writer_channel /\ Carry
     \/ FailPipeline /\ UNCHANGED writer_channel
  /\ UNCHANGED <<wrapVars, producerVars, encoderVars, batch, diskVars, writer,
                 writing>>

-----------------------------------------------------------------------------
(* The writer thread.                                                      *)

(* It owns the feed, so the feed goes when it ends.                        *)
WriterLeaves ==
  /\ writer' = "done" /\ writer_channel' = <<>> /\ FeedDrops

(* File creation: fs::write truncates before it writes.                    *)
WriterReceives ==
  /\ writer = "receiving" /\ writer_channel # <<>>
  /\ writing' = Head(writer_channel) /\ writer_channel' = Tail(writer_channel)
  /\ codestreams' = [codestreams EXCEPT ![Head(writer_channel)] = "partial"]
  /\ writer' = "writing"
  /\ UNCHANGED <<wrapVars, flagVars, producerVars, queueVars, encoderVars,
                 batchVars, frames_encoded>>

(* The write may fail, and a codestream over the byte cap is a failure that *)
(* leaves its file behind.                                                 *)
WriterWrites ==
  /\ writer = "writing"
  /\ \/ /\ codestreams' = [codestreams EXCEPT ![writing] = "whole"]
        /\ frames_encoded' = frames_encoded + 1
        /\ writer' = IF feed THEN "feeding" ELSE "receiving"
        /\ Carry /\ UNCHANGED <<wrapVars, writer_channel>>
     \/ /\ \E left \in {"partial", "over_cap"} :
             codestreams' = [codestreams EXCEPT ![writing] = left]
        /\ FailPipeline /\ WriterLeaves /\ UNCHANGED frames_encoded
  /\ UNCHANGED <<producerVars, encoderVars, batchVars, writing>>

WriterFeeds ==
  /\ writer = "feeding"
  /\ \/ /\ FeedSends(writing)
        /\ writer' = "receiving" /\ Carry /\ UNCHANGED writer_channel
     \/ /\ ~WrapTakesMessages /\ FailPipeline /\ WriterLeaves
  /\ UNCHANGED <<producerVars, encoderVars, batchVars, diskVars, writing>>

(* The channel is empty and every sender has gone: the encoder threads, the *)
(* calling thread's own and the batch's collector.                         *)
SendersGone ==
  \/ batch = "failed"
  \/ batch \in {"none", "ended"} /\ \A e \in Encoders : encoder[e] = "done"

WriterHangsUp ==
  /\ writer = "receiving" /\ writer_channel = <<>> /\ SendersGone
  /\ WriterLeaves
  /\ UNCHANGED <<flagVars, producerVars, queueVars, encoderVars, batchVars,
                 diskVars, writing>>

-----------------------------------------------------------------------------
(* The calling thread, from the end of the batch to its return.            *)

(* Batch::end returns after every frame has reached the callback, and may   *)
(* report that the plugin failed to drain.                                 *)
ProducerEndsBatch ==
  /\ producer = "ending_batch" /\ in_batch = {} /\ producer' = "draining"
  /\ \/ batch = "none" /\ UNCHANGED batch /\ Carry
     \/ batch = "ending" /\ batch' = "ended" /\ Carry
     \/ batch = "ending" /\ batch' = "ended" /\ FailPipeline
  /\ UNCHANGED <<wrapVars, in_hand, source, frames_produced, result, encoderVars,
                 in_batch, diskVars, writerVars>>

ProducerDrains ==
  /\ producer = "draining"
  /\ frames_encoded >= frames_produced \/ error_flag \/ cancel
  /\ producer' = "joining_writer"
  /\ UNCHANGED <<wrapVars, flagVars, in_hand, source, frames_produced, result,
                 queueVars, encoderVars, batchVars, diskVars, writerVars>>

(* A bug: only a decode that gave nothing is a failure.                     *)
DecodeGaveNothing == frames_encoded = 0 /\ FrameCount > 0

(* decode_failure.                                                         *)
DecodeFailure == source = "failed" \/ (frames_encoded = 0 /\ FrameCount > 0)

(* The pipeline's result, merged with its source's: an encode that          *)
(* succeeded goes on to its wrap, any other gives the wrap up.             *)
PipelineReturns(source_failed) ==
  /\ producer = "joining_writer" /\ writer = "done"
  /\ IF batch = "failed" \/ cancel \/ error_flag \/ source_failed
     THEN /\ result' = IF cancel /\ batch # "failed" THEN "cancelled" ELSE "error"
          /\ producer' = "abandoning" /\ OwnerDrops
     ELSE producer' = "wrapping" /\ UNCHANGED <<result, wrapVars>>
  /\ UNCHANGED <<flagVars, in_hand, source, frames_produced, queueVars,
                 encoderVars, batchVars, diskVars, writerVars>>

ProducerJoinsWriter == PipelineReturns(DecodeFailure)

(* A cancel seen after the encode drops the wrap; else the wrap is asked to *)
(* finish with the count the encoder reports.                              *)
ProducerWraps ==
  /\ producer = "wrapping"
  /\ \/ cancel /\ result' = "cancelled" /\ producer' = "dropping" /\ OwnerDrops
     \/ /\ ~cancel /\ wrap = "absent"
        /\ result' = "ok" /\ producer' = "returned" /\ UNCHANGED wrapVars
     \/ /\ ~cancel /\ OwnerFinalizes(frames_encoded)
        /\ producer' = "finishing" /\ UNCHANGED result
  /\ UNCHANGED <<flagVars, in_hand, source, frames_produced, queueVars, encoderVars,
                 batchVars, diskVars, writerVars>>

(* join: a wrap that failed first explains more than the encoder's error.   *)
ProducerJoinsWrap ==
  /\ producer \in {"finishing", "abandoning", "dropping"} /\ WrapEnded
  /\ producer' = "returned"
  /\ result' = IF producer = "finishing" /\ wrap = "finished" THEN "ok"
               ELSE IF producer # "dropping" /\ wrap # "unfinished" /\ wrap # "absent"
               THEN "error"
               ELSE result
  /\ UNCHANGED <<wrapVars, flagVars, in_hand, source, frames_produced, queueVars,
                 encoderVars, batchVars, diskVars, writerVars>>

-----------------------------------------------------------------------------
(* All of the calling thread but where it takes its frames from.           *)
ProducerRest ==
  \/ ProducerBegins \/ ProducerStops \/ ProducerPushes \/ ProducerJoins
  \/ ProducerEndsBatch \/ ProducerDrains \/ ProducerWraps \/ ProducerJoinsWrap

Producer == ProducerReads(0) \/ ProducerRest \/ ProducerJoinsWriter

EncoderThread(e) ==
  EncoderLoops(e) \/ EncoderPops(e) \/ EncoderEncodes(e) \/ EncoderSends(e)

Writer == WriterReceives \/ WriterWrites \/ WriterFeeds \/ WriterHangsUp

Wrap ==
  /\ WrapThread
  /\ UNCHANGED <<flagVars, producerVars, queueVars, encoderVars, batchVars,
                 diskVars, writerVars>>

Plugin == \E f \in in_batch : BatchReturns(f)

Returned == producer = "returned" /\ UNCHANGED vars

(* Everyone but the calling thread.                                        *)
Others ==
  \/ Cancel \/ Writer \/ Wrap \/ Plugin
  \/ \E e \in Encoders : EncoderThread(e)

Next == Producer \/ Others \/ Returned

(* Every thread runs, the decoder answers and the plugin returns what it    *)
(* was given; nobody has to cancel.                                        *)
OthersFairness ==
  /\ WF_vars(Writer) /\ WF_vars(Wrap) /\ WF_vars(Plugin)
  /\ \A e \in Encoders : WF_vars(EncoderThread(e))

Fairness == WF_vars(Producer) /\ OthersFairness

Spec == Init /\ [][Next]_vars /\ Fairness

-----------------------------------------------------------------------------
(* Properties.                                                             *)

Ok == producer = "returned" /\ result = "ok"

(* A run that reports success has every frame the decoder gave on disk and, *)
(* if it wraps, all of them in order in a published MXF, and no stage       *)
(* failed on the way: no frame is lost between threads, no error is         *)
(* swallowed by the join order.                                            *)
SuccessIsComplete ==
  Ok =>
    /\ ~error_flag /\ source # "failed"
    /\ \A f \in 0..(frames_produced - 1) : codestreams[f] = "whole"
    /\ wrap # "absent" =>
         /\ mxf = "final"
         /\ Len(frames_written) = frames_produced

(* OverlappedJ2kWrap: "finish is the only path that leaves an MXF behind":  *)
(* when the run returns, whatever failed or was cancelled, nothing is left  *)
(* half-written and a published MXF comes with a success.                  *)
NothingHalfLeft ==
  producer = "returned" => mxf = IF result = "ok" /\ wrap # "absent"
                                 THEN "final" ELSE "none"

(* Where every frame that entered the queue is.                            *)
FramePlaces ==
  <<{input_queue[i] : i \in DOMAIN input_queue},
    {encoding[e] : e \in Encoders} \ {NoFrame},
    in_batch,
    {writer_channel[i] : i \in DOMAIN writer_channel},
    IF writer \in {"writing", "feeding"} THEN {writing} ELSE {},
    {f \in Frames : codestreams[f] = "whole"}
      \ (IF writer = "feeding" THEN {writing} ELSE {})>>

(* Until something fails or is cancelled, each frame is in exactly one      *)
(* place between the queue and the disk.                                   *)
FramesConserved ==
  ~error_flag /\ ~cancel =>
    LET places == FramePlaces IN
    /\ 0..(frames_produced - 1) = UNION {places[n] : n \in DOMAIN places}
    /\ \A m, n \in DOMAIN places : m < n => places[m] \cap places[n] = {}

(* The essence grows in presentation order whatever order the encoders      *)
(* finish in, and the file is published once or discarded.                 *)
WrapKeepsItsPromise == Track!Spec

(* The run always returns: no failure, cancel or full queue leaves a thread *)
(* waiting for another for good.                                           *)
RunReturns == <>(producer = "returned")

=============================================================================
