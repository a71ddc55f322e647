---------------------------- MODULE OverlappedWrap ---------------------------
(***************************************************************************)
(* The picture MXF written on its own thread while the encode still runs   *)
(* (src/src/mxf_wrap.rs: IncrementalJ2kWrap, FrameReorderBuffer,           *)
(* J2kFrameSender, OverlappedJ2kWrap).  Frames come in any order over a    *)
(* bounded channel; a reorder buffer releases them in index order; finish  *)
(* is the only way to leave a file behind.                                 *)
(***************************************************************************)
EXTENDS Naturals, Sequences, FiniteSets

CONSTANTS
  WrapQueueFrames,   \* WRAP_QUEUE_FRAMES
  HeldLimit          \* REORDER_HELD_BYTES_LIMIT, in frames

ASSUME OverlappedWrapAssumption ==
  WrapQueueFrames \in Nat \ {0} /\ HeldLimit \in Nat \ {0}

VARIABLES
  wrap_channel,      \* the messages between the senders and the wrap thread
  feed,              \* the encoder still has its J2kFrameSender
  owner,             \* OverlappedJ2kWrap still has its sender
  wrap,              \* where the wrap thread is
  pending,           \* FrameReorderBuffer.pending
  next_index,        \* FrameReorderBuffer.next_index
  frames_written,    \* the frames in the MXF, in file order
  expected_frames,   \* the count of the Finalize message
  mxf                \* the file: "none", "part" or "final"

wrapVars == <<wrap_channel, feed, owner, wrap, pending, next_index,
              frames_written, expected_frames, mxf>>
bufferVars == <<pending, next_index>>
fileVars == <<frames_written, mxf>>

FrameMessage(index) == [kind |-> "frame", count |-> index]
FinalizeMessage(n) == [kind |-> "finalize", count |-> n]
Messages == [kind : {"frame", "finalize"}, count : Nat]

(* "absent": the run wraps nothing.  "failing" and "leaving" have dropped   *)
(* the receiver and still have to remove the part-written file.             *)
WrapStates == {"absent", "receiving", "releasing", "finishing", "renaming",
               "failing", "leaving", "failed", "unfinished", "finished"}

WrapTypeOK ==
  /\ wrap_channel \in Seq(Messages) /\ Len(wrap_channel) <= WrapQueueFrames
  /\ feed \in BOOLEAN /\ owner \in BOOLEAN
  /\ wrap \in WrapStates
  /\ pending \subseteq Nat /\ next_index \in Nat
  /\ frames_written \in Seq(Nat)
  /\ expected_frames \in Nat
  /\ mxf \in {"none", "part", "final"}

(* OverlappedJ2kWrap::start and sender; or no wrap was asked for.           *)
WrapInit(started) ==
  /\ wrap_channel = <<>>
  /\ feed = started /\ owner = started
  /\ wrap = IF started THEN "receiving" ELSE "absent"
  /\ pending = {} /\ next_index = 0
  /\ frames_written = <<>> /\ expected_frames = 0
  /\ mxf = "none"

(* The receiver lives until the thread stops reading its channel.           *)
WrapTakesMessages == wrap \in {"receiving", "releasing"}
WrapEnded == wrap \in {"absent", "failed", "unfinished", "finished"}

-----------------------------------------------------------------------------
(* The sending side.                                                       *)

(* SyncSender::send: it blocks on a full channel and fails on a dead one.   *)
WrapSend(message) ==
  /\ WrapTakesMessages /\ Len(wrap_channel) < WrapQueueFrames
  /\ wrap_channel' = Append(wrap_channel, message)

(* J2kFrameSender::send.                                                   *)
FeedSends(index) ==
  /\ feed /\ WrapSend(FrameMessage(index))
  /\ UNCHANGED <<feed, owner, wrap, bufferVars, fileVars, expected_frames>>

(* The encoder's side is dropped.                                          *)
FeedDrops ==
  /\ feed' = FALSE
  /\ UNCHANGED <<wrap_channel, owner, wrap, bufferVars, fileVars,
                 expected_frames>>

(* finish: the last message, then the sender goes.                         *)
OwnerFinalizes(n) ==
  /\ owner /\ owner' = FALSE
  /\ \/ WrapSend(FinalizeMessage(n))
     \/ ~WrapTakesMessages /\ UNCHANGED wrap_channel
  /\ UNCHANGED <<feed, wrap, bufferVars, fileVars, expected_frames>>

(* abandon and Drop: the sender goes without a message.                    *)
OwnerDrops ==
  /\ owner' = FALSE
  /\ UNCHANGED <<wrap_channel, feed, wrap, bufferVars, fileVars,
                 expected_frames>>

-----------------------------------------------------------------------------
(* The wrap thread.                                                        *)

Refuses(index) ==
  \/ index < next_index
  \/ index \in pending
  \/ Cardinality(pending) + 1 > HeldLimit

(* One message: FrameReorderBuffer::accept, or the request to finish.       *)
WrapReceives ==
  /\ wrap = "receiving" /\ wrap_channel # <<>>
  /\ LET message == Head(wrap_channel) IN
     \/ /\ message.kind = "frame" /\ ~Refuses(message.count)
        /\ pending' = pending \cup {message.count}
        /\ wrap' = "releasing" /\ wrap_channel' = Tail(wrap_channel)
        /\ UNCHANGED expected_frames
     \/ /\ message.kind = "frame" /\ Refuses(message.count)
        /\ wrap' = "failing" /\ wrap_channel' = <<>>
        /\ UNCHANGED <<pending, expected_frames>>
     \/ /\ message.kind = "finalize"
        /\ expected_frames' = message.count
        /\ wrap' = "finishing" /\ wrap_channel' = <<>>
        /\ UNCHANGED pending
  /\ UNCHANGED <<feed, owner, next_index, fileVars>>

(* take_next gives nothing: back to the channel.                           *)
WrapReleasedAll ==
  /\ wrap = "releasing" /\ next_index \notin pending
  /\ wrap' = "receiving"
  /\ UNCHANGED <<wrap_channel, feed, owner, bufferVars, fileVars,
                 expected_frames>>

(* A bug: a held frame is written before the ones it waits for.             *)
WrapWritesAnyHeld ==
  /\ wrap = "releasing" /\ mxf' = "part"
  /\ \E index \in pending :
       /\ pending' = pending \ {index} /\ next_index' = index + 1
       /\ frames_written' = Append(frames_written, index)
  /\ UNCHANGED <<wrap_channel, feed, owner, wrap, expected_frames>>

(* take_next and write_frame.  The first frame opens the part-written      *)
(* file; a failure may come before or after that.                          *)
WrapWrites ==
  /\ wrap = "releasing" /\ next_index \in pending
  /\ pending' = pending \ {next_index}
  /\ next_index' = next_index + 1
  /\ \/ /\ frames_written' = Append(frames_written, next_index)
        /\ mxf' = "part"
        /\ UNCHANGED <<wrap, wrap_channel>>
     \/ /\ wrap' = "failing" /\ wrap_channel' = <<>>
        /\ mxf' \in {mxf, "part"}
        /\ UNCHANGED frames_written
  /\ UNCHANGED <<feed, owner, expected_frames>>

(* Every sender has gone and nobody asked for the file.                    *)
WrapIsAbandoned ==
  /\ wrap = "receiving" /\ wrap_channel = <<>> /\ ~feed /\ ~owner
  /\ wrap' = "leaving"
  /\ UNCHANGED <<wrap_channel, feed, owner, bufferVars, fileVars,
                 expected_frames>>

StalledOn == pending # {}

(* After the loop: nothing may be held, the count has to be the encoder's, *)
(* there has to be a file, and its footer has to be written.               *)
WrapFinalizes ==
  /\ wrap = "finishing"
  /\ \/ /\ ~StalledOn /\ Len(frames_written) = expected_frames
        /\ frames_written # <<>>
        /\ wrap' = "renaming"
     \/ wrap' = "failing"
  /\ UNCHANGED <<wrap_channel, feed, owner, bufferVars, fileVars,
                 expected_frames>>

WrapRenames ==
  /\ wrap = "renaming"
  /\ \/ mxf' = "final" /\ wrap' = "finished"
     \/ UNCHANGED mxf /\ wrap' = "failing"
  /\ UNCHANGED <<wrap_channel, feed, owner, bufferVars, frames_written,
                 expected_frames>>

(* A bug: an abandoned wrap keeps its part-written file.                    *)
WrapRemovesFailedPart ==
  /\ wrap \in {"failing", "leaving"}
  /\ mxf' = IF wrap = "failing" THEN "none" ELSE mxf
  /\ wrap' = IF wrap = "failing" THEN "failed" ELSE "unfinished"
  /\ UNCHANGED <<wrap_channel, feed, owner, bufferVars, frames_written,
                 expected_frames>>

(* Drop for IncrementalJ2kWrap, after which the thread has ended.           *)
WrapRemovesPart ==
  /\ wrap \in {"failing", "leaving"}
  /\ mxf' = "none"
  /\ wrap' = IF wrap = "failing" THEN "failed" ELSE "unfinished"
  /\ UNCHANGED <<wrap_channel, feed, owner, bufferVars, frames_written,
                 expected_frames>>

WrapThread ==
  \/ WrapReceives \/ WrapReleasedAll \/ WrapWrites \/ WrapIsAbandoned
  \/ WrapFinalizes \/ WrapRenames \/ WrapRemovesPart

(* Everything the wrap's two ends may do.                                  *)
WrapStep ==
  \/ WrapThread
  \/ \E index \in Nat : FeedSends(index) \/ OwnerFinalizes(index)
  \/ FeedDrops \/ OwnerDrops

-----------------------------------------------------------------------------
(* The promise.  A removed file, and a wrap that ended without one, is a    *)
(* discarded track.                                                        *)
Track == INSTANCE PictureTrack WITH
  essence <- frames_written,
  file <- IF wrap \in {"failed", "unfinished"} THEN "discarded" ELSE mxf

=============================================================================
