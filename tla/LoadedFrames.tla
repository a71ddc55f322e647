----------------------------- MODULE LoadedFrames ----------------------------
(***************************************************************************)
(* The encode of frames the caller loads itself (src/src/encode.rs         *)
(* encode_loaded_frames): a few loader threads run ahead of the pipeline   *)
(* over a bounded channel, inside a thread scope that ends only when every *)
(* loader has.                                                             *)
(***************************************************************************)
EXTENDS EncodePipeline

CONSTANT Loaders      \* loader_thread_count threads, and the channel's size

ASSUME LoadedFramesAssumption == Loaders # {} /\ IsFiniteSet(Loaders)

VARIABLES
  loader,             \* where each loader is
  loading,            \* the frame it has loaded
  next_frame,         \* the next index a loader takes
  load_error,         \* a loader has recorded an error
  loaded              \* the channel

loaderVars == <<loader, loading, next_frame, load_error, loaded>>
allVars == <<vars, loaderVars>>

LoadedTypeOK ==
  /\ TypeOK
  /\ loader \in [Loaders -> {"opening", "looping", "sending", "done"}]
  /\ loading \in [Loaders -> Frames \cup {NoFrame}]
  /\ next_frame \in 0..(FrameCount + Cardinality(Loaders))
  /\ load_error \in BOOLEAN
  /\ loaded \in Seq(Frames) /\ Len(loaded) <= Cardinality(Loaders)

LoadedInit ==
  /\ Init
  /\ loader = [l \in Loaders |-> "opening"]
  /\ loading = [l \in Loaders |-> NoFrame]
  /\ next_frame = 0 /\ load_error = FALSE /\ loaded = <<>>

LoaderAt(l, from, to) ==
  loader[l] = from /\ loader' = [loader EXCEPT ![l] = to]

(* open_loader, which may fail.                                            *)
LoaderOpens(l) ==
  /\ \/ LoaderAt(l, "opening", "looping") /\ UNCHANGED load_error
     \/ LoaderAt(l, "opening", "done") /\ load_error' = TRUE
  /\ UNCHANGED <<vars, loading, next_frame, loaded>>

(* One turn of the loop up to the send: stop on a cancel or on any loader's *)
(* error, take the next index, load it.                                    *)
LoaderLoads(l) ==
  /\ \/ /\ cancel \/ load_error
        /\ LoaderAt(l, "looping", "done")
        /\ UNCHANGED <<loading, next_frame, load_error>>
     \/ /\ ~cancel /\ ~load_error /\ next_frame >= FrameCount
        /\ LoaderAt(l, "looping", "done")
        /\ next_frame' = next_frame + 1
        /\ UNCHANGED <<loading, load_error>>
     \/ /\ ~cancel /\ ~load_error /\ next_frame < FrameCount
        /\ next_frame' = next_frame + 1
        /\ \/ /\ LoaderAt(l, "looping", "sending")
              /\ loading' = [loading EXCEPT ![l] = next_frame]
              /\ UNCHANGED load_error
           \/ /\ LoaderAt(l, "looping", "done")
              /\ load_error' = TRUE /\ UNCHANGED loading
  /\ UNCHANGED <<vars, loaded>>

(* A bug: the loaders run ahead without bound.                              *)
LoaderSendsUnbounded(l) ==
  /\ LoaderAt(l, "sending", "looping")
  /\ loaded' = Append(loaded, loading[l])
  /\ loading' = [loading EXCEPT ![l] = NoFrame]
  /\ UNCHANGED <<vars, next_frame, load_error>>

(* loaded_tx.send: the receiver is a local of encode_loaded_frames that     *)
(* outlives the scope, so a send into a full channel never fails.          *)
LoaderSends(l) ==
  /\ LoaderAt(l, "sending", "looping")
  /\ Len(loaded) < Cardinality(Loaders)
  /\ loaded' = Append(loaded, loading[l])
  /\ loading' = [loading EXCEPT ![l] = NoFrame]
  /\ UNCHANGED <<vars, next_frame, load_error>>

LoadersDone == \A l \in Loaders : loader[l] = "done"

(* A bug: the caller keeps a sender of its own, and recv never ends.        *)
ProducerReceivesOnly ==
  /\ loaded # <<>> /\ ProducerTakes(Head(loaded))
  /\ loaded' = Tail(loaded)
  /\ UNCHANGED <<loader, loading, next_frame, load_error>>

(* The pipeline's frame producer: loaded_rx.recv, which ends once every     *)
(* loader has gone and the channel is empty.                               *)
ProducerReceives ==
  \/ /\ loaded # <<>> /\ ProducerTakes(Head(loaded))
     /\ loaded' = Tail(loaded)
     /\ UNCHANGED <<loader, loading, next_frame, load_error>>
  \/ /\ loaded = <<>> /\ LoadersDone /\ SourceEnds("ended")
     /\ UNCHANGED loaderVars

(* A bug: the loaders' error is not merged in.                              *)
ScopeEndsUnmerged ==
  LoadersDone /\ PipelineReturns(FALSE) /\ UNCHANGED loaderVars

(* The end of the scope and the merge of the loaders' error into the       *)
(* pipeline's result.                                                      *)
ScopeEnds ==
  LoadersDone /\ PipelineReturns(load_error) /\ UNCHANGED loaderVars

Caller ==
  ProducerReceives \/ ScopeEnds \/ (ProducerRest /\ UNCHANGED loaderVars)

Loader(l) == LoaderOpens(l) \/ LoaderLoads(l) \/ LoaderSends(l)

LoadedNext ==
  \/ Caller
  \/ Others /\ UNCHANGED loaderVars
  \/ \E l \in Loaders : Loader(l)
  \/ Returned /\ UNCHANGED loaderVars

LoadedSpec ==
  /\ LoadedInit /\ [][LoadedNext]_allVars
  /\ WF_allVars(Caller)
  /\ \A l \in Loaders : WF_allVars(Loader(l))
  /\ WF_allVars(Writer /\ UNCHANGED loaderVars)
  /\ WF_allVars(Wrap /\ UNCHANGED loaderVars)
  /\ WF_allVars(Plugin /\ UNCHANGED loaderVars)
  /\ \A e \in Encoders : WF_allVars(EncoderThread(e) /\ UNCHANGED loaderVars)

-----------------------------------------------------------------------------
(* A load that fails on any loader fails the run: success means every frame *)
(* was loaded, encoded, written and, with a wrap, published in order,      *)
(* though the loaders hand them over in any order.                         *)
EveryLoadedFrameIsEncoded ==
  Ok =>
    /\ ~load_error /\ ~error_flag
    /\ frames_produced = FrameCount
    /\ \A f \in Frames : codestreams[f] = "whole"
    /\ wrap # "absent" =>
         mxf = "final" /\ frames_written = [n \in 1..FrameCount |-> n - 1]

(* A run that meets no trouble returns: the loaders, the pipeline and the   *)
(* wrap never wait for one another for good.                               *)
Troubled == cancel \/ error_flag \/ load_error \/ batch = "failed"

UntroubledRunReturns == <>(Troubled \/ producer = "returned")

(* encode.rs:1059, "a loader blocked on a full channel exits when the       *)
(* receiver drops": the scope ends and the run returns.                    *)
LoadedRunReturns == <>(producer = "returned")

=============================================================================
