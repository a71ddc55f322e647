-------------------------- MODULE CompositeFrames --------------------------
(***************************************************************************)
(* CompositeFrames of src/composite.rs: the picture layers of a composite, *)
(* a base and its overlays, each decoded by a FrameDecoder of its own      *)
(* (FfmpegDecode), read frame by frame by the encode's producer, which may *)
(* stop at any frame, and finished in order.                               *)
(*                                                                         *)
(* A base that is held or black and an overlay that is a held still have   *)
(* no decoder and are left out; so is the mixing of the samples.           *)
(***************************************************************************)
EXTENDS FfmpegDecode

CONSTANTS
  Order,       \* the layers, the base first
  FrameCount   \* the frames of the composite

ASSUME CompositeAssumption ==
  /\ Order \in Seq(Layers) /\ Order # <<>>
  /\ Range(Order) = Layers /\ IsInjective(Order)
  /\ FrameCount \in Nat

VARIABLES
  reader,      \* what the producer does, and on which layer of the order
  frames_read, \* the whole frames handed to the encode
  early,       \* the layer that ended early: CompositeFrames::failure
  verdict      \* the failure finish returns

readerVars == <<reader, frames_read, early, verdict>>
vars == <<decodeVars, readerVars>>

Init ==
  /\ DecodeInit
  /\ reader = [pc |-> "read", at |-> 1]
  /\ frames_read = 0
  /\ early = None
  /\ verdict = None

Layer == Order[reader.at]

\* The end of the frames: the encode goes on to finish.
ToFinish == reader' = [pc |-> "finish", at |-> 1]

ReadIsWhole ==
  /\ reader.pc = "read" /\ reader.at = 1
  /\ frames_read = FrameCount
  /\ ToFinish
  /\ UNCHANGED <<decodeVars, frames_read, early, verdict>>

\* The encode was cancelled, or failed.
EncodeStops ==
  /\ reader.pc = "read" /\ reader.at = 1
  /\ ToFinish
  /\ UNCHANGED <<decodeVars, frames_read, early, verdict>>

Reading == reader.pc = "read" /\ frames_read < FrameCount

ReadLayer ==
  /\ Reading
  /\ ReaderTakes(Layer)
  /\ IF reader.at = Len(Order)
       THEN /\ reader' = [reader EXCEPT !.at = 1]
            /\ frames_read' = frames_read + 1
       ELSE /\ reader' = [reader EXCEPT !.at = @ + 1]
            /\ UNCHANGED frames_read
  /\ UNCHANGED <<early, verdict>>

LayerEnds ==
  /\ Reading
  /\ ReaderSeesTheEnd(Layer)
  /\ early' = Layer
  /\ ToFinish
  /\ UNCHANGED <<decodeVars, frames_read, verdict>>

\* A frame of another size: its decoder is stopped at once, and has ended.
LayerIsRefused ==
  /\ Reading
  /\ ReaderRefuses(Layer)
  /\ reader' = [reader EXCEPT !.pc = "refused"]
  /\ UNCHANGED <<frames_read, early, verdict>>

-----------------------------------------------------------------------------
(* stop_threads, from read_into or from finish, and finish itself.         *)
Stopping == {"refused", "finish"}

FlagIsSet ==
  /\ reader.pc \in Stopping /\ ~stop[Layer]
  /\ SetStop(Layer)
  /\ UNCHANGED readerVars

ReceiverGoes ==
  /\ reader.pc \in Stopping /\ stop[Layer] /\ frames[Layer]
  /\ DropReceiver(Layer)
  /\ reader' = [reader EXCEPT !.pc = IF @ = "refused" THEN "join" ELSE "take"]
  /\ UNCHANGED <<frames_read, early, verdict>>

\* A decoder read_into stopped has nothing left to stop.
AlreadyStopped ==
  /\ reader.pc = "finish" /\ stop[Layer] /\ ~frames[Layer]
  /\ reader' = [reader EXCEPT !.pc = "take"]
  /\ UNCHANGED <<decodeVars, frames_read, early, verdict>>

RefusedEnds ==
  /\ reader.pc = "join"
  /\ Joined(Layer)
  /\ early' = Layer
  /\ ToFinish
  /\ UNCHANGED <<decodeVars, frames_read, verdict>>

(* A bug: that a layer ended early hides why it did.                       *)
EarlyFirst(found, last) ==
  IF last /\ early # None THEN <<early, "early">> ELSE found

\* A decoder's own failure says why it ended early.
EarlyLast(found, last) ==
  IF last /\ early # None /\ found = None THEN <<early, "early">> ELSE found

\* The base's failure, or the first overlay's, says more than that a layer
\* ended early.
TakeFailure ==
  /\ reader.pc = "take"
  /\ Joined(Layer)
  /\ LET found == IF verdict # None \/ failure[Layer] = None
                    THEN verdict ELSE <<Layer, failure[Layer]>>
         last == reader.at = Len(Order)
     IN /\ verdict' = EarlyLast(found, last)
        /\ reader' = IF last THEN [reader EXCEPT !.pc = "done"]
                     ELSE [pc |-> "finish", at |-> reader.at + 1]
  /\ failure' = [failure EXCEPT ![Layer] = None]
  /\ UNCHANGED <<source, graph, decoded, filtered, frames, stop,
                 frames_read, early>>

Reader ==
  \/ ReadIsWhole \/ ReadLayer \/ LayerEnds \/ LayerIsRefused
  \/ FlagIsSet \/ ReceiverGoes \/ AlreadyStopped \/ RefusedEnds \/ TakeFailure

Next ==
  \/ \E l \in Layers : Threads(l) /\ UNCHANGED readerVars
  \/ Reader
  \/ EncodeStops

(* Threads run, and the producer reads or finishes; it need never stop     *)
(* before the end of the frames.                                           *)
Fairness ==
  /\ \A l \in Layers : WF_vars(Threads(l) /\ UNCHANGED readerVars)
  /\ WF_vars(Reader)

Spec == Init /\ [][Next]_vars /\ Fairness

-----------------------------------------------------------------------------
\* Every variable keeps its type and no channel holds more than its bound.
DecodeTypeOK ==
  /\ \A l \in Layers :
       /\ source[l].packets \in 0..Total[l]
       /\ source[l].decoded \in 0..source[l].packets
       /\ graph[l].sent \in 0..Limit[l]
       /\ Len(decoded[l]) <= Queue /\ Len(filtered[l]) <= Queue
       /\ failure[l] \in Reporters \cup {None}
  /\ reader.at \in 1..Len(Order)
  /\ frames_read \in 0..FrameCount
  /\ early \in Layers \cup {None}

(* When a decoder that nobody stopped has hung up, either it came to the   *)
(* end of its frames or to its limit, or the reason is there for the       *)
(* reader to find: the threads store their failure before their senders    *)
(* go.  skip reads it at once, and a window cut short would else pass for  *)
(* whole.                                                                  *)
EndIsExplained ==
  \A l \in Layers : graph[l].pc = "done" /\ ~stop[l]
                      => graph[l].ended \/ failure[l] # None

(* "a decoder's own failure says why it ended early": finish says that a   *)
(* layer ended early only of one that has no frames left.                  *)
VerdictNamesTheCause ==
  reader.pc = "done" /\ verdict # None /\ verdict[2] = "early"
    => graph[early].ended

(* No failure comes after finish has taken the outcome, whatever the       *)
(* threads were doing when they were stopped.                              *)
NoFailureIsLost ==
  reader.pc = "done" => \A l \in Layers : failure[l] = None

(* Reading ends and finish returns, wherever the encode stops, whichever   *)
(* frame fails and however full the channels are: no thread that is joined *)
(* waits for room or for a frame.                                          *)
DecodeReturns == <>(reader.pc = "done")
=============================================================================
