------------------------- MODULE EncodePipelineProofs ------------------------
(***************************************************************************)
(* Proofs about the encode and its overlapped wrap, for any number of      *)
(* frames and encoders and any size of the queues: the wrap implements the *)
(* abstract track, and no run leaves a file half written.                  *)
(***************************************************************************)
EXTENDS EncodePipeline, SequenceTheorems, TLAPS

(* The steps of an encode, whatever gives it its frames: the decoder of    *)
(* encode_frames, or the loaders of encode_loaded_frames.                  *)
CallerStep ==
  \/ ProducerRest
  \/ \E f \in Frames : ProducerTakes(f)
  \/ \E how \in {"ended", "failed"} : SourceEnds(how)
  \/ \E source_failed \in BOOLEAN : PipelineReturns(source_failed)

AnyStep == CallerStep \/ Others \/ UNCHANGED vars

(* The wrap thread's file, seen from outside: what the senders never touch. *)
threadVars == <<wrap, bufferVars, fileVars>>

ThreadStep == WrapThread \/ UNCHANGED threadVars

(* What the file is at each position of the wrap thread, and that the      *)
(* reorder buffer's next frame is the one the file ends before.            *)
TrackInv ==
  /\ wrap \in WrapStates
  /\ next_index \in Nat /\ frames_written \in Seq(Nat)
  /\ wrap \in {"receiving", "releasing"} => Len(frames_written) = next_index
  /\ wrap \in {"receiving", "releasing", "finishing"} =>
       mxf = IF frames_written = <<>> THEN "none" ELSE "part"
  /\ wrap = "renaming" => mxf = "part"
  /\ wrap \in {"failing", "leaving"} => mxf \in {"none", "part"}
  /\ wrap \in {"absent", "failed", "unfinished"} => mxf = "none"
  /\ wrap = "finished" => mxf = "final"

-----------------------------------------------------------------------------
(* Only the wrap thread moves its position, its buffer and its file.        *)
LEMMA FeedSideLeavesThread ==
  /\ \A index : FeedSends(index) \/ OwnerFinalizes(index) => UNCHANGED threadVars
  /\ FeedDrops \/ OwnerDrops => UNCHANGED threadVars
BY DEF FeedSends, OwnerFinalizes, FeedDrops, OwnerDrops, threadVars

LEMMA AnyStepIsThreadStep == AnyStep => ThreadStep
<1> USE DEF threadVars, wrapVars, bufferVars, fileVars
<1>1. CallerStep => UNCHANGED threadVars
  <2>1. \A f : ProducerTakes(f) \/ SourceEnds(f) => UNCHANGED threadVars
    BY DEF ProducerTakes, SourceEnds
  <2>2. ProducerBegins \/ ProducerStops \/ ProducerPushes \/ ProducerJoins
          => UNCHANGED threadVars
    BY DEF ProducerBegins, ProducerStops, ProducerPushes, ProducerJoins
  <2>3. ProducerEndsBatch \/ ProducerDrains \/ ProducerJoinsWrap
          => UNCHANGED threadVars
    BY DEF ProducerEndsBatch, ProducerDrains, ProducerJoinsWrap
  <2>4. ProducerWraps => UNCHANGED threadVars
    BY FeedSideLeavesThread DEF ProducerWraps
  <2>5. \A source_failed : PipelineReturns(source_failed) => UNCHANGED threadVars
    BY FeedSideLeavesThread DEF PipelineReturns
  <2>6. QED
    BY <2>1, <2>2, <2>3, <2>4, <2>5 DEF CallerStep, ProducerRest
<1>2. Cancel => UNCHANGED threadVars
  BY DEF Cancel
<1>3. Writer => UNCHANGED threadVars
  <2>1. WriterReceives => UNCHANGED threadVars
    BY DEF WriterReceives
  <2>2. WriterLeaves => UNCHANGED threadVars
    BY FeedSideLeavesThread DEF WriterLeaves
  <2>3. WriterWrites \/ WriterFeeds \/ WriterHangsUp => UNCHANGED threadVars
    BY <2>2, FeedSideLeavesThread DEF WriterWrites, WriterFeeds, WriterHangsUp
  <2>4. QED
    BY <2>1, <2>3 DEF Writer
<1>4. Wrap => ThreadStep
  BY DEF Wrap, ThreadStep
<1>5. ASSUME NEW f \in in_batch, BatchReturns(f)
      PROVE  UNCHANGED threadVars
  BY <1>5 DEF BatchReturns
<1>6. ASSUME NEW e \in Encoders, EncoderThread(e)
      PROVE  UNCHANGED threadVars
  BY <1>6 DEF EncoderThread, EncoderLoops, EncoderPops, EncoderEncodes, EncoderSends
<1>7. UNCHANGED vars => UNCHANGED threadVars
  BY DEF vars
<1>8. QED
  BY <1>1, <1>2, <1>3, <1>4, <1>5, <1>6, <1>7
  DEF AnyStep, Others, Plugin, ThreadStep

-----------------------------------------------------------------------------
(* The wrap thread keeps its file in step with its buffer, and every step  *)
(* it takes is one of the abstract track's or none.                        *)
trackFile == IF wrap \in {"failed", "unfinished"} THEN "discarded" ELSE mxf

LEMMA ThreadImplementsTrack ==
  ASSUME TrackInv, ThreadStep
  PROVE  TrackInv' /\ [Track!Next]_<<frames_written, trackFile>>
<1> USE DEF trackFile, bufferVars, fileVars
<1> DEFINE TrackStep == [Track!Next]_<<frames_written, trackFile>>
<1>1. CASE UNCHANGED threadVars
  BY <1>1 DEF threadVars, TrackInv
<1>2. CASE WrapReceives
  <2>1. /\ wrap' \in {"releasing", "failing", "finishing"} /\ wrap = "receiving"
        /\ UNCHANGED <<next_index, frames_written, mxf>>
    BY <1>2 DEF WrapReceives
  <2>2. QED
    BY <2>1 DEF TrackInv, WrapStates
<1>3. CASE WrapReleasedAll
  BY <1>3 DEF WrapReleasedAll, TrackInv, WrapStates
<1>4. CASE WrapWrites
  <2>1. CASE wrap' = wrap
    <3>1. /\ wrap = "releasing" /\ mxf' = "part" /\ next_index' = next_index + 1
          /\ frames_written' = Append(frames_written, next_index)
      BY <1>4, <2>1 DEF WrapWrites
    <3>2. /\ frames_written' \in Seq(Nat) /\ frames_written' # <<>>
          /\ Len(frames_written') = Len(frames_written) + 1
      BY <3>1 DEF TrackInv
    <3>3. TrackInv'
      BY <2>1, <3>1, <3>2 DEF TrackInv, WrapStates
    <3>4. Track!WriteNextFrame
      BY <2>1, <3>1 DEF TrackInv, Track!WriteNextFrame
    <3>5. QED
      BY <3>3, <3>4 DEF Track!Next
  <2>2. CASE wrap' # wrap
    <3>1. /\ wrap = "releasing" /\ wrap' = "failing"
          /\ next_index' = next_index + 1 /\ mxf' \in {mxf, "part"}
          /\ UNCHANGED frames_written
      BY <1>4, <2>2 DEF WrapWrites
    <3>2. TrackInv'
      BY <3>1 DEF TrackInv, WrapStates
    <3>3. CASE mxf' = mxf
      BY <3>1, <3>2, <3>3
    <3>4. CASE mxf' = "part" /\ mxf = "none"
      <4>1. Track!Create
        BY <3>1, <3>4 DEF Track!Create
      <4>2. QED BY <4>1, <3>2 DEF Track!Next
    <3>5. QED
      BY <3>1, <3>3, <3>4 DEF TrackInv
  <2>3. QED BY <2>1, <2>2
<1>5. CASE WrapIsAbandoned
  BY <1>5 DEF WrapIsAbandoned, TrackInv, WrapStates
<1>6. CASE WrapFinalizes
  BY <1>6 DEF WrapFinalizes, TrackInv, WrapStates
<1>7. CASE WrapRenames
  <2>1. wrap = "renaming" /\ mxf = "part" /\ UNCHANGED <<frames_written, next_index>>
    BY <1>7 DEF WrapRenames, TrackInv
  <2>2. CASE mxf' = "final" /\ wrap' = "finished"
    <3>1. Track!Publish
      BY <2>1, <2>2 DEF Track!Publish
    <3>2. QED BY <2>1, <2>2, <3>1 DEF Track!Next, TrackInv, WrapStates
  <2>3. CASE UNCHANGED mxf /\ wrap' = "failing"
    BY <2>1, <2>3 DEF TrackInv, WrapStates
  <2>4. QED BY <1>7, <2>2, <2>3 DEF WrapRenames
<1>8. CASE WrapRemovesPart
  <2>1. /\ wrap \in {"failing", "leaving"} /\ mxf \in {"none", "part"}
        /\ wrap' \in {"failed", "unfinished"} /\ mxf' = "none"
        /\ UNCHANGED <<frames_written, next_index>>
    BY <1>8 DEF WrapRemovesPart, TrackInv
  <2>2. Track!Discard
    BY <2>1 DEF Track!Discard
  <2>3. QED
    BY <2>1, <2>2 DEF Track!Next, TrackInv, WrapStates
<1>9. QED
  BY <1>1, <1>2, <1>3, <1>4, <1>5, <1>6, <1>7, <1>8 DEF ThreadStep, WrapThread

LEMMA InitTrack == Init => TrackInv /\ Track!Init
<1> SUFFICES ASSUME Init PROVE TrackInv /\ Track!Init
  OBVIOUS
<1>1. PICK started \in Wraps : WrapInit(started)
  BY DEF Init
<1>2. QED
  BY <1>1 DEF WrapInit, TrackInv, WrapStates, Track!Init

-----------------------------------------------------------------------------
(* Whatever holds a frame holds one of the source's, and the channels are   *)
(* sequences: what the encode's steps need to know of their data.           *)
FramesTyped ==
  /\ producer \in ProducerStates
  /\ producer = "pushing" => in_hand \in Frames
  /\ frames_produced \in Nat /\ frames_encoded \in Nat
  /\ input_queue \in Seq(Frames)
  /\ encoder \in [Encoders -> {"looping", "popping", "encoding", "sending", "done"}]
  /\ encoding \in [Encoders -> Frames \cup {NoFrame}]
  /\ \A e \in Encoders : encoder[e] \in {"encoding", "sending"} => encoding[e] \in Frames
  /\ in_batch \subseteq Frames
  /\ writer_channel \in Seq(Frames)
  /\ writer \in {"writing", "feeding"} => writing \in Frames
  /\ wrap_channel \in Seq(Messages)

LEMMA NoFrameIsNoFrame == FrameCount \in Nat /\ Frames \subseteq Nat /\ NoFrame \notin Frames
BY EncodePipelineAssumption DEF Frames, NoFrame

LEMMA CallerKeepsTypes ==
  ASSUME FramesTyped, CallerStep
  PROVE  FramesTyped'
<1> USE NoFrameIsNoFrame DEF FramesTyped, ProducerStates, wrapVars, queueVars,
                             encoderVars, batchVars, diskVars, writerVars
<1>1. CASE ProducerBegins
  BY <1>1 DEF ProducerBegins
<1>2. CASE ProducerStops
  BY <1>2 DEF ProducerStops
<1>3. CASE \/ \E f \in Frames : ProducerTakes(f)
           \/ \E how \in {"ended", "failed"} : SourceEnds(how)
  BY <1>3 DEF ProducerTakes, SourceEnds
<1>4. CASE ProducerPushes
  <2>1. Append(input_queue, in_hand) \in Seq(Frames)
    BY <1>4, AppendProperties DEF ProducerPushes
  <2>2. QED
    <3>1. /\ producer' \in {"joining", "reading"}
          /\ input_queue' = input_queue \/ input_queue' = Append(input_queue, in_hand)
          /\ frames_produced' \in Nat
          /\ UNCHANGED <<encoderVars, in_batch, frames_encoded, writerVars, wrap_channel>>
      BY <1>4 DEF ProducerPushes
    <3>2. QED
      BY <2>1, <3>1
<1>5. CASE ProducerJoins
  BY <1>5 DEF ProducerJoins
<1>6. CASE ProducerEndsBatch
  BY <1>6 DEF ProducerEndsBatch, Carry, FailPipeline
<1>7. CASE ProducerDrains
  BY <1>7 DEF ProducerDrains
<1>8. CASE \E source_failed \in BOOLEAN : PipelineReturns(source_failed)
  BY <1>8 DEF PipelineReturns, OwnerDrops
<1>9. CASE ProducerWraps
  <2>1. ASSUME OwnerFinalizes(frames_encoded)
        PROVE  wrap_channel' \in Seq(Messages)
    <3>1. FinalizeMessage(frames_encoded) \in Messages
      BY DEF FinalizeMessage, Messages
    <3>2. Append(wrap_channel, FinalizeMessage(frames_encoded)) \in Seq(Messages)
      BY <3>1, AppendProperties
    <3>3. QED
      BY <2>1, <3>2 DEF OwnerFinalizes, WrapSend
  <2>2. QED
    BY <1>9, <2>1 DEF ProducerWraps, OwnerDrops
<1>10. CASE ProducerJoinsWrap
  BY <1>10 DEF ProducerJoinsWrap
<1>11. QED
  BY <1>1, <1>2, <1>3, <1>4, <1>5, <1>6, <1>7, <1>8, <1>9, <1>10
  DEF CallerStep, ProducerRest

LEMMA EncodersKeepTypes ==
  ASSUME FramesTyped, NEW e \in Encoders, EncoderThread(e)
  PROVE  FramesTyped'
<1> USE NoFrameIsNoFrame DEF FramesTyped, EncoderAt, wrapVars, producerVars,
                             diskVars
<1>1. CASE EncoderLoops(e)
  BY <1>1 DEF EncoderLoops, batchVars, writerVars
<1>2. CASE EncoderPops(e)
  <2>1. input_queue # <<>> =>
          Head(input_queue) \in Frames /\ Tail(input_queue) \in Seq(Frames)
    BY HeadTailProperties
  <2>2. QED
    BY <1>2, <2>1 DEF EncoderPops, batchVars, writerVars
<1>3. CASE EncoderEncodes(e)
  BY <1>3 DEF EncoderEncodes, Carry, FailPipeline, queueVars, writerVars
<1>4. CASE EncoderSends(e)
  <2>1. Append(writer_channel, encoding[e]) \in Seq(Frames)
    BY <1>4, AppendProperties DEF EncoderSends
  <2>2. QED
    BY <1>4, <2>1 DEF EncoderSends, SendsToWriter, batchVars
<1>5. QED
  BY <1>1, <1>2, <1>3, <1>4 DEF EncoderThread

LEMMA WriterKeepsTypes ==
  ASSUME FramesTyped, Writer
  PROVE  FramesTyped'
<1> USE NoFrameIsNoFrame DEF FramesTyped, producerVars, encoderVars, batchVars
<1>1. CASE WriterReceives
  BY <1>1 DEF WriterReceives, wrapVars, queueVars
<1>2. CASE WriterWrites
  <2>1. /\ writer' \in {"receiving", "feeding", "done"} /\ UNCHANGED <<wrap_channel, writing>>
        /\ writer_channel' = writer_channel \/ writer_channel' = <<>>
        /\ UNCHANGED input_queue
        /\ frames_encoded' \in Nat
        /\ UNCHANGED <<producerVars, encoderVars, in_batch>>
    BY <1>2 DEF WriterWrites, WriterLeaves, FeedDrops, Carry, FailPipeline,
                wrapVars, queueVars
  <2>2. writer = "writing" /\ <<>> \in Seq(Frames)
    BY <1>2, EmptySeq DEF WriterWrites
  <2>3. QED
    BY <2>1, <2>2
<1>3. CASE WriterFeeds
  <2>1. CASE FeedSends(writing) /\ writer' = "receiving" /\ Carry
             /\ UNCHANGED writer_channel
    <3>1. wrap_channel' = Append(wrap_channel, FrameMessage(writing))
      BY <2>1 DEF FeedSends, WrapSend
    <3>2. FrameMessage(writing) \in Messages
      BY <1>3 DEF WriterFeeds, FrameMessage, Messages
    <3>3. wrap_channel' \in Seq(Messages)
      BY <3>1, <3>2
    <3>4. QED
      BY <1>3, <2>1, <3>3 DEF WriterFeeds, Carry, queueVars, diskVars
  <2>2. CASE FailPipeline /\ WriterLeaves
    BY <1>3, <2>2 DEF WriterFeeds, WriterLeaves, FeedDrops, FailPipeline, diskVars
  <2>3. QED
    BY <1>3, <2>1, <2>2 DEF WriterFeeds
<1>4. CASE WriterHangsUp
  BY <1>4 DEF WriterHangsUp, WriterLeaves, FeedDrops, queueVars, diskVars
<1>5. QED
  BY <1>1, <1>2, <1>3, <1>4 DEF Writer

LEMMA WrapAndPluginKeepTypes ==
  ASSUME FramesTyped, Wrap \/ Plugin
  PROVE  FramesTyped'
<1> USE DEF FramesTyped, producerVars, encoderVars
<1>1. CASE Wrap
  <2>1. \/ wrap_channel' = wrap_channel
        \/ wrap_channel' = <<>>
        \/ wrap_channel # <<>> /\ wrap_channel' = Tail(wrap_channel)
    BY <1>1 DEF Wrap, WrapThread, WrapReceives, WrapReleasedAll, WrapWrites,
                WrapIsAbandoned, WrapFinalizes, WrapRenames, WrapRemovesPart
  <2>2. wrap_channel' \in Seq(Messages)
    <3>1. wrap_channel # <<>> => Tail(wrap_channel) \in Seq(Messages)
      BY HeadTailProperties
    <3>2. QED
      BY <2>1, <3>1, EmptySeq
  <2>3. QED
    BY <1>1, <2>2 DEF Wrap, queueVars, batchVars, diskVars, writerVars
<1>2. ASSUME NEW f \in in_batch, BatchReturns(f)
      PROVE  FramesTyped'
  <2>1. /\ writer_channel' \in {writer_channel, Append(writer_channel, f)}
        /\ in_batch' = in_batch \ {f} /\ UNCHANGED input_queue
        /\ UNCHANGED <<producerVars, encoderVars, wrap_channel, frames_encoded,
                       writer, writing>>
    BY <1>2 DEF BatchReturns, SendsToWriter, Carry, FailPipeline, wrapVars,
                queueVars, diskVars
  <2>2. Append(writer_channel, f) \in Seq(Frames)
    BY AppendProperties
  <2>3. QED
    BY <2>1, <2>2
<1>3. QED
  BY <1>1, <1>2 DEF Plugin

LEMMA InitTyped == Init => FramesTyped
BY DEF Init, WrapInit, FramesTyped, ProducerStates, Messages

LEMMA AnyStepKeepsTypes ==
  ASSUME FramesTyped, AnyStep
  PROVE  FramesTyped'
<1>1. CASE Cancel
  BY <1>1 DEF Cancel, FramesTyped, wrapVars, producerVars, queueVars,
              encoderVars, batchVars, diskVars, writerVars
<1>2. CASE UNCHANGED vars
  BY <1>2 DEF vars, FramesTyped, wrapVars, producerVars, queueVars,
              encoderVars, batchVars, diskVars, writerVars
<1>3. QED
  BY <1>1, <1>2, CallerKeepsTypes, EncodersKeepTypes, WriterKeepsTypes,
     WrapAndPluginKeepTypes
  DEF AnyStep, Others

LEMMA NextIsAnyStep == FramesTyped /\ [Next]_vars => AnyStep
<1>1. FramesTyped /\ ProducerReads(0) => CallerStep
  <2>1. FramesTyped /\ 0 + frames_produced < FrameCount => 0 + frames_produced \in Frames
    BY NoFrameIsNoFrame DEF FramesTyped, Frames
  <2>2. QED
    BY <2>1 DEF ProducerReads, CallerStep
<1>2. ProducerJoinsWriter => CallerStep
  BY DEF ProducerJoinsWriter, DecodeFailure, CallerStep
<1>3. QED
  BY <1>1, <1>2 DEF Next, Producer, CallerStep, AnyStep, Returned

(* The overlapped wrap implements the abstract track whatever the encode   *)
(* around it does: frames enter the file in presentation order without a   *)
(* gap, and it is published once or discarded (mxf_wrap.rs).               *)
THEOREM WrapImplementsTrack == Spec => WrapKeepsItsPromise
<1>1. FramesTyped /\ [Next]_vars => FramesTyped'
  BY NextIsAnyStep, AnyStepKeepsTypes
<1>2. FramesTyped /\ TrackInv /\ [Next]_vars
        => TrackInv' /\ [Track!Next]_<<frames_written, trackFile>>
  BY NextIsAnyStep, AnyStepIsThreadStep, ThreadImplementsTrack
<1>3. QED
  BY <1>1, <1>2, InitTyped, InitTrack, PTL DEF Spec, WrapKeepsItsPromise, Track!Spec, trackFile

-----------------------------------------------------------------------------
(* Nobody has asked for the file yet, so the wrap cannot be on its way to   *)
(* publishing it.                                                          *)
NotAskedToFinish ==
  /\ wrap \notin {"finishing", "renaming", "finished"}
  /\ \A i \in 1..Len(wrap_channel) : wrap_channel[i].kind = "frame"
  /\ result # "ok"

(* A success is reported only once the wrap has ended, and exactly for a    *)
(* wrap that published its file.                                           *)
FinishInv ==
  /\ producer \notin {"finishing", "returned"} => NotAskedToFinish
  /\ producer = "finishing" => result # "ok"
  /\ producer = "returned" =>
       /\ WrapEnded
       /\ result = "ok" => wrap \in {"absent", "finished"}
       /\ wrap = "finished" => result = "ok"

HalfLeftInv == FramesTyped /\ TrackInv /\ FinishInv

finishVars == <<producer, result, wrap, wrap_channel>>

LEMMA FinishInvStutters ==
  ASSUME FinishInv, UNCHANGED finishVars
  PROVE  FinishInv'
BY DEF FinishInv, NotAskedToFinish, WrapEnded, finishVars

LEMMA CallerKeepsFinishInv ==
  ASSUME FinishInv, CallerStep
  PROVE  FinishInv'
<1> USE DEF FinishInv, NotAskedToFinish, WrapEnded, wrapVars
<1>1. CASE \/ \E f : ProducerTakes(f) \/ SourceEnds(f)
           \/ ProducerBegins \/ ProducerStops \/ ProducerPushes
           \/ ProducerJoins \/ ProducerEndsBatch \/ ProducerDrains
  <2>1. /\ producer \notin {"finishing", "returned"}
        /\ producer' \notin {"finishing", "returned"}
        /\ UNCHANGED <<result, wrap, wrap_channel>>
    BY <1>1 DEF ProducerTakes, SourceEnds, ProducerBegins,
                ProducerStops, ProducerPushes, ProducerJoins, ProducerEndsBatch,
                ProducerDrains
  <2>2. QED
    BY <2>1
<1>2. CASE \E source_failed \in BOOLEAN : PipelineReturns(source_failed)
  <2>1. /\ producer = "joining_writer" /\ producer' \in {"abandoning", "wrapping"}
        /\ UNCHANGED <<wrap, wrap_channel>>
        /\ result' \in {result, "cancelled", "error"}
    BY <1>2 DEF PipelineReturns, OwnerDrops
  <2>2. QED
    BY <2>1
<1>3. CASE ProducerWraps
  <2>1. CASE result' = "cancelled" /\ producer' = "dropping" /\ OwnerDrops
    BY <1>3, <2>1 DEF ProducerWraps, OwnerDrops
  <2>2. CASE wrap = "absent" /\ result' = "ok" /\ producer' = "returned"
             /\ UNCHANGED wrapVars
    BY <1>3, <2>2 DEF ProducerWraps
  <2>3. CASE OwnerFinalizes(frames_encoded) /\ producer' = "finishing"
             /\ UNCHANGED result
    BY <1>3, <2>3 DEF ProducerWraps, OwnerFinalizes
  <2>4. QED
    BY <1>3, <2>1, <2>2, <2>3 DEF ProducerWraps
<1>4. CASE ProducerJoinsWrap
  <2>1. /\ WrapEnded /\ producer' = "returned" /\ UNCHANGED wrap
        /\ producer \in {"finishing", "abandoning", "dropping"}
    BY <1>4 DEF ProducerJoinsWrap
  <2>2. CASE producer = "finishing" /\ wrap = "finished"
    BY <1>4, <2>1, <2>2 DEF ProducerJoinsWrap
  <2>3. CASE ~(producer = "finishing" /\ wrap = "finished")
    <3>1. wrap # "finished" /\ result # "ok"
      BY <2>1, <2>3
    <3>2. result' \in {"error", result}
      BY <1>4, <2>3 DEF ProducerJoinsWrap
    <3>3. QED
      BY <2>1, <3>1, <3>2
  <2>4. QED
    BY <2>2, <2>3
<1>5. QED
  BY <1>1, <1>2, <1>3, <1>4 DEF CallerStep, ProducerRest

LEMMA WrapKeepsFinishInv ==
  ASSUME FramesTyped, FinishInv, Wrap
  PROVE  FinishInv'
<1> USE DEF FinishInv, NotAskedToFinish, WrapEnded
<1>1. UNCHANGED <<producer, result>> /\ WrapThread
  BY DEF Wrap, producerVars
<1>2. CASE producer = "returned"
  BY <1>1, <1>2 DEF WrapThread, WrapReceives, WrapReleasedAll, WrapWrites,
                    WrapIsAbandoned, WrapFinalizes, WrapRenames, WrapRemovesPart
<1>3. CASE producer = "finishing"
  BY <1>1, <1>3
<1>4. CASE producer \notin {"finishing", "returned"}
  <2>1. CASE WrapReceives
    <3>1. wrap_channel \in Seq(Messages) /\ wrap_channel # <<>>
      BY <2>1 DEF WrapReceives, FramesTyped
    <3>2. /\ Tail(wrap_channel) \in Seq(Messages)
          /\ \A i \in 1..Len(Tail(wrap_channel)) : Tail(wrap_channel)[i] = wrap_channel[i + 1]
          /\ Len(Tail(wrap_channel)) = Len(wrap_channel) - 1
      BY <3>1, HeadTailProperties
    <3>3. /\ Len(wrap_channel) \in Nat \ {0}
          /\ Head(wrap_channel) = wrap_channel[1]
      BY <3>1, EmptySeq
    <3>4. Head(wrap_channel).kind = "frame"
      BY <1>4, <3>3
    <3>5. \A i \in 1..Len(Tail(wrap_channel)) : Tail(wrap_channel)[i].kind = "frame"
      <4>1. ASSUME NEW i \in 1..Len(Tail(wrap_channel))
            PROVE  i + 1 \in 1..Len(wrap_channel)
        BY <3>2, <3>3
      <4>2. QED
        BY <1>4, <3>2, <4>1
    <3>6. /\ wrap' \in {"releasing", "failing"}
          /\ wrap_channel' = Tail(wrap_channel) \/ wrap_channel' = <<>>
      BY <2>1, <3>4 DEF WrapReceives
    <3>7. \A i \in 1..Len(wrap_channel') : wrap_channel'[i].kind = "frame"
      <4>1. CASE wrap_channel' = <<>>
        BY <4>1
      <4>2. CASE wrap_channel' = Tail(wrap_channel)
        BY <3>5, <4>2
      <4>3. QED
        BY <3>6, <4>1, <4>2
    <3>8. QED
      BY <1>1, <1>4, <3>6, <3>7
  <2>2. CASE WrapWrites
    <3>1. /\ wrap' = wrap \/ wrap' = "failing"
          /\ wrap_channel' = wrap_channel \/ wrap_channel' = <<>>
      BY <2>2 DEF WrapWrites
    <3>2. QED
      BY <1>1, <1>4, <3>1
  <2>3. CASE WrapReleasedAll \/ WrapIsAbandoned \/ WrapRemovesPart
    <3>1. /\ wrap' \in {"receiving", "leaving", "failed", "unfinished"}
          /\ UNCHANGED wrap_channel
      BY <2>3 DEF WrapReleasedAll, WrapIsAbandoned, WrapRemovesPart
    <3>2. QED
      BY <1>1, <1>4, <3>1
  <2>4. CASE WrapFinalizes \/ WrapRenames
    BY <1>4, <2>4 DEF WrapFinalizes, WrapRenames
  <2>5. QED
    BY <1>1, <2>1, <2>2, <2>3, <2>4 DEF WrapThread
<1>5. QED
  BY <1>2, <1>3, <1>4

LEMMA WriterKeepsFinishInv ==
  ASSUME FramesTyped, FinishInv, Writer
  PROVE  FinishInv'
<1>1. UNCHANGED <<producer, result, wrap>>
  BY DEF Writer, WriterReceives, WriterWrites, WriterFeeds, WriterHangsUp,
         WriterLeaves, FeedDrops, FeedSends, producerVars, wrapVars
<1>2. CASE UNCHANGED wrap_channel
  BY <1>1, <1>2, FinishInvStutters DEF finishVars
<1>3. CASE WriterFeeds /\ FeedSends(writing)
  <2>1. /\ wrap_channel \in Seq(Messages) /\ FrameMessage(writing) \in Messages
        /\ wrap_channel' = Append(wrap_channel, FrameMessage(writing))
        /\ wrap \in {"receiving", "releasing"}
    BY <1>3, NoFrameIsNoFrame DEF FramesTyped, WriterFeeds, FeedSends, WrapSend,
                                  FrameMessage, Messages, WrapTakesMessages
  <2>2. /\ Len(wrap_channel') = Len(wrap_channel) + 1
        /\ \A i \in 1..Len(wrap_channel) : wrap_channel'[i] = wrap_channel[i]
        /\ wrap_channel'[Len(wrap_channel) + 1] = FrameMessage(writing)
        /\ Len(wrap_channel) \in Nat
    BY <2>1, AppendProperties, LenProperties
  <2>3. ASSUME \A i \in 1..Len(wrap_channel) : wrap_channel[i].kind = "frame"
        PROVE  \A i \in 1..Len(wrap_channel') : wrap_channel'[i].kind = "frame"
    <3> SUFFICES ASSUME NEW i \in 1..Len(wrap_channel')
                 PROVE  wrap_channel'[i].kind = "frame"
      OBVIOUS
    <3>1. CASE i = Len(wrap_channel) + 1
      BY <2>2, <3>1 DEF FrameMessage
    <3>2. CASE i # Len(wrap_channel) + 1
      <4>1. i \in 1..Len(wrap_channel)
        BY <2>2, <3>2
      <4>2. QED
        BY <2>2, <2>3, <4>1
    <3>3. QED
      BY <3>1, <3>2
  <2>4. QED
    BY <1>1, <2>3 DEF FinishInv, NotAskedToFinish, WrapEnded
<1>4. QED
  BY <1>2, <1>3 DEF Writer, WriterReceives, WriterWrites, WriterFeeds, WriterHangsUp,
                    WriterLeaves, FeedDrops, wrapVars

LEMMA InitFinish == Init => FinishInv
BY DEF Init, WrapInit, FinishInv, NotAskedToFinish

LEMMA AnyStepKeepsFinishInv ==
  ASSUME FramesTyped, FinishInv, AnyStep
  PROVE  FinishInv'
<1>1. CASE Cancel \/ Plugin
  BY <1>1, FinishInvStutters DEF Cancel, Plugin, BatchReturns, finishVars,
                                 producerVars, wrapVars
<1>2. ASSUME NEW e \in Encoders, EncoderThread(e)
      PROVE  FinishInv'
  BY <1>2, FinishInvStutters
  DEF EncoderThread, EncoderLoops, EncoderPops, EncoderEncodes, EncoderSends,
      finishVars, producerVars, wrapVars
<1>3. CASE UNCHANGED vars
  BY <1>3, FinishInvStutters DEF vars, finishVars, producerVars, wrapVars
<1>4. QED
  BY <1>1, <1>2, <1>3, CallerKeepsFinishInv, WrapKeepsFinishInv, WriterKeepsFinishInv
  DEF AnyStep, Others

LEMMA HalfLeftInvInductive ==
  /\ Init => HalfLeftInv
  /\ HalfLeftInv /\ AnyStep => HalfLeftInv'
BY InitFinish, InitTrack, InitTyped, AnyStepKeepsTypes, AnyStepKeepsFinishInv,
   AnyStepIsThreadStep, ThreadImplementsTrack
DEF HalfLeftInv

(* When the run returns, whatever failed or was cancelled on the way, the   *)
(* MXF is there under its final name exactly when the run reports success  *)
(* with a wrap, and nothing is left under the part name (mxf_wrap.rs Drop, *)
(* pipeline.rs run_encode_and_maybe_wrap).                                 *)
THEOREM NoRunLeavesHalfAFile == Spec => []NothingHalfLeft
<1>1. HalfLeftInv => NothingHalfLeft
  BY DEF HalfLeftInv, TrackInv, FinishInv, WrapEnded, NothingHalfLeft
<1>2. HalfLeftInv /\ [Next]_vars => HalfLeftInv'
  BY HalfLeftInvInductive, NextIsAnyStep DEF HalfLeftInv
<1>3. QED
  BY <1>1, <1>2, HalfLeftInvInductive, PTL DEF Spec

=============================================================================
