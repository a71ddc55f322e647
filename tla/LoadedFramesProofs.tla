------------------------- MODULE LoadedFramesProofs -------------------------
(***************************************************************************)
(* Proofs about the encode of frames the caller loads itself: whatever the *)
(* order its loaders hand them over in, a run that reports success has     *)
(* loaded, encoded and published every one of them.                        *)
(***************************************************************************)
EXTENDS LoadedFrames, EncodeFramesProofs

\* A step of the calling thread or of the pipeline that takes no frame.
RestStep ==
  \/ loaded = <<>> /\ LoadersDone /\ SourceEnds("ended")
  \/ LoadersDone /\ PipelineReturns(load_error)
  \/ ProducerRest \/ Others \/ UNCHANGED vars

TakeStep ==
  /\ loaded # <<>> /\ ProducerTakes(Head(loaded)) /\ loaded' = Tail(loaded)
  /\ UNCHANGED <<loader, loading, next_frame, load_error>>

LEMMA LoadedSteps ==
  [LoadedNext]_allVars =>
    \/ TakeStep
    \/ RestStep /\ UNCHANGED loaderVars
    \/ UNCHANGED vars /\ \E l \in Loaders : Loader(l)
<1>1. \A l \in Loaders : Loader(l) => UNCHANGED vars
  BY DEF Loader, LoaderOpens, LoaderLoads, LoaderSends
<1>2. Caller => TakeStep \/ (RestStep /\ UNCHANGED loaderVars)
  BY DEF Caller, ProducerReceives, ScopeEnds, TakeStep, RestStep
<1>3. QED
  BY <1>1, <1>2 DEF LoadedNext, Returned, RestStep, allVars

-----------------------------------------------------------------------------
(* The loaders' own state.                                                 *)

LoaderStates == {"opening", "looping", "sending", "done"}

LoaderTyped ==
  /\ loader \in [Loaders -> LoaderStates]
  /\ loading \in [Loaders -> Frames \cup {NoFrame}]
  /\ \A l \in Loaders : IF loader[l] = "sending" THEN loading[l] \in Frames
                                                 ELSE loading[l] = NoFrame
  /\ next_frame \in Nat /\ load_error \in BOOLEAN
  /\ loaded \in Seq(Frames) /\ Len(loaded) <= Cardinality(Loaders)

LEMMA LoadersAreFinite == \A T \in SUBSET Loaders :
  IsFiniteSet(T) /\ Cardinality(T) \in Nat /\ Cardinality(T) <= Cardinality(Loaders)
<1>1. ASSUME NEW T \in SUBSET Loaders
      PROVE  IsFiniteSet(T) /\ Cardinality(T) <= Cardinality(Loaders)
  BY LoadedFramesAssumption, FS_Subset
<1>2. QED
  BY <1>1, FS_CardinalityType

LEMMA RoomForLoaders == Cardinality(Loaders) \in Nat
BY LoadersAreFinite

LEMMA LoaderKeepsTypes ==
  ASSUME LoaderTyped, NEW l \in Loaders, Loader(l)
  PROVE  LoaderTyped'
<1> USE NoFrameIsNoFrame DEF LoaderTyped, LoaderStates
<1>1. CASE LoaderOpens(l)
  <2>1. /\ loader' \in {[loader EXCEPT ![l] = "looping"], [loader EXCEPT ![l] = "done"]}
        /\ loader[l] = "opening" /\ UNCHANGED <<loading, next_frame, loaded>>
        /\ load_error' = load_error \/ load_error' = TRUE
    BY <1>1 DEF LoaderOpens, LoaderAt
  <2>2. load_error' \in BOOLEAN
    BY <2>1
  <2>3. QED
    BY <2>1, <2>2
<1>2. CASE LoaderLoads(l)
  <2>1. /\ loader[l] = "looping" /\ next_frame' \in Nat /\ UNCHANGED loaded
        /\ load_error' = load_error \/ load_error' = TRUE
        /\ \/ loader' = [loader EXCEPT ![l] = "done"] /\ UNCHANGED loading
           \/ /\ next_frame < FrameCount /\ loader' = [loader EXCEPT ![l] = "sending"]
              /\ loading' = [loading EXCEPT ![l] = next_frame]
    BY <1>2 DEF LoaderLoads, LoaderAt
  <2>2. load_error' \in BOOLEAN
    BY <2>1
  <2>3. next_frame < FrameCount => next_frame \in Frames
    BY DEF Frames
  <2>4. QED
    BY <2>1, <2>2, <2>3
<1>3. CASE LoaderSends(l)
  <2>1. /\ loader[l] = "sending" /\ loader' = [loader EXCEPT ![l] = "looping"]
        /\ loading' = [loading EXCEPT ![l] = NoFrame] /\ UNCHANGED <<next_frame, load_error>>
        /\ Len(loaded) < Cardinality(Loaders) /\ loaded' = Append(loaded, loading[l])
    BY <1>3 DEF LoaderSends, LoaderAt
  <2>2. loaded' \in Seq(Frames)
    BY <2>1, AppendProperties
  <2>3. Len(loaded') <= Cardinality(Loaders)
    BY <2>1, RoomForLoaders, LengthAppended
  <2>4. QED
    BY <2>1, <2>2, <2>3
<1>4. QED
  BY <1>1, <1>2, <1>3 DEF Loader

LEMMA TakingKeepsTypes ==
  ASSUME LoaderTyped, TakeStep
  PROVE  LoaderTyped'
<1>1. loaded' \in Seq(Frames) /\ Len(loaded') <= Cardinality(Loaders)
  BY RoomForLoaders, LengthOfTail, HeadTailProperties DEF LoaderTyped, TakeStep
<1>2. QED
  BY <1>1 DEF LoaderTyped, TakeStep

-----------------------------------------------------------------------------
(* A frame a loader took is in one place, up to the pipeline and inside it. *)

LoadingIn(g) == {g[l] : l \in Loaders} \ {NoFrame}
LoadedOnce(g) == \A k, l \in Loaders : g[k] = g[l] /\ k # l => g[k] = NoFrame
InHandAt(at, f) == IF at = "pushing" THEN {f} ELSE {}

LoadPlaces ==
  <<LoadingIn(loading), Elements(loaded), InHandAt(producer, in_hand),
    Everywhere(FramePlaces), {}, {}>>

FlowInv ==
  /\ Apart(LoadPlaces) /\ Everywhere(LoadPlaces) \subseteq 0..(next_frame - 1)
  /\ Once(loaded) /\ LoadedOnce(loading)

LEMMA LoadPlacesAre ==
  ASSUME NEW P, NEW Q, P = LoadPlaces, Q = LoadPlaces'
  PROVE  /\ P[1] = LoadingIn(loading) /\ Q[1] = LoadingIn(loading')
         /\ P[2] = Elements(loaded) /\ Q[2] = Elements(loaded')
         /\ P[3] = InHandAt(producer, in_hand) /\ Q[3] = InHandAt(producer', in_hand')
         /\ P[4] = Everywhere(FramePlaces) /\ Q[4] = Everywhere(FramePlaces)'
         /\ Q[5] = P[5] /\ Q[6] = P[6]
BY DEF LoadPlaces, LoadingIn, Elements, InHandAt

LEMMA LoaderGivesFrame ==
  ASSUME NEW g \in [Loaders -> Frames \cup {NoFrame}], LoadedOnce(g), NEW l \in Loaders,
         NEW h, h = [g EXCEPT ![l] = NoFrame]
  PROVE  LoadingIn(h) = LoadingIn(g) \ {g[l]} /\ LoadedOnce(h)
<1>1. h[l] = NoFrame /\ (\A k \in Loaders \ {l} : h[k] = g[k])
  OBVIOUS
<1>2. QED
  BY <1>1 DEF LoadingIn, LoadedOnce

LEMMA LoaderMovesFrames ==
  ASSUME LoaderTyped, FlowInv, UNCHANGED vars, NEW l \in Loaders, Loader(l)
  PROVE  FlowInv'
<1>1. PICK P, Q : P = LoadPlaces /\ Q = LoadPlaces'
  OBVIOUS
<1>2. FramePlaces' = FramePlaces /\ UNCHANGED <<producer, in_hand>>
  BY DEF FramePlaces, vars, queueVars, encoderVars, batchVars, writerVars, diskVars,
         producerVars
<1>3. Everywhere(FramePlaces)' = Everywhere(FramePlaces)
  BY <1>2 DEF Everywhere
<1>4. Q[3] = P[3] /\ Q[4] = P[4] /\ Q[5] = P[5] /\ Q[6] = P[6]
  BY <1>1, <1>2, <1>3, LoadPlacesAre
<1>5. /\ Apart(P) /\ Everywhere(P) \subseteq 0..(next_frame - 1)
      /\ Once(loaded) /\ LoadedOnce(loading)
      /\ next_frame \in Nat /\ loaded \in Seq(Frames)
      /\ loading \in [Loaders -> Frames \cup {NoFrame}]
  BY <1>1 DEF FlowInv, LoaderTyped
<1>6. CASE UNCHANGED <<loading, loaded>> /\ next_frame' \in {next_frame, next_frame + 1}
  <2>1. Q[1] = P[1] /\ Q[2] = P[2]
    BY <1>1, <1>6, LoadPlacesAre
  <2>2. Apart(Q) /\ Everywhere(Q) = Everywhere(P)
    BY <1>4, <1>5, <2>1, SixPlaces, SamePlaces
  <2>3. QED
    BY <1>1, <1>5, <1>6, <2>2 DEF FlowInv
<1>7. CASE /\ next_frame < FrameCount /\ next_frame' = next_frame + 1
           /\ loader[l] = "looping"
           /\ loading' = [loading EXCEPT ![l] = next_frame] /\ UNCHANGED loaded
  <2>1. next_frame \in Frames /\ next_frame \notin Everywhere(P) /\ loading[l] = NoFrame
    BY <1>5, <1>7, NoFrameIsNoFrame DEF Frames, LoaderTyped
  <2>2. next_frame \notin LoadingIn(loading)
    BY <1>1, <2>1, LoadPlacesAre DEF Everywhere
  <2>3. LoadingIn(loading') = LoadingIn(loading) \cup {next_frame} /\ LoadedOnce(loading')
    <3>1. /\ loading'[l] = next_frame /\ \A k \in Loaders \ {l} : loading'[k] = loading[k]
          /\ next_frame # NoFrame /\ \A k \in Loaders : loading[k] # next_frame
      BY <1>5, <1>7, <2>1, <2>2, NoFrameIsNoFrame DEF LoadingIn
    <3>2. PICK g, h : g = loading /\ h = loading'
      OBVIOUS
    <3>3. LoadingIn(h) = LoadingIn(g) \cup {next_frame} /\ LoadedOnce(h)
      BY <1>5, <2>1, <3>1, <3>2 DEF LoadingIn, LoadedOnce
    <3>4. QED
      BY <3>2, <3>3
  <2>4. Q[1] = P[1] \cup {next_frame} /\ Q[2] = P[2]
    BY <1>1, <1>7, <2>3, LoadPlacesAre
  <2>5. \A n \in 2..6 : Q[n] = P[n]
    BY <1>4, <2>4, SixPlaces
  <2>6. Apart(Q) /\ Everywhere(Q) = Everywhere(P) \cup {next_frame}
    BY <1>5, <2>1, <2>4, <2>5, FrameEnters
  <2>7. Everywhere(Q) \subseteq 0..(next_frame' - 1)
    BY <1>5, <1>7, <2>6
  <2>8. QED
    BY <1>1, <1>5, <1>7, <2>3, <2>6, <2>7 DEF FlowInv
<1>8. CASE LoaderSends(l)
  <2>1. /\ loader[l] = "sending" /\ loading' = [loading EXCEPT ![l] = NoFrame]
        /\ loaded' = Append(loaded, loading[l]) /\ UNCHANGED next_frame
    BY <1>8 DEF LoaderSends, LoaderAt
  <2>2. PICK f : f = loading[l]
    OBVIOUS
  <2>3. f \in Frames /\ f \in LoadingIn(loading)
    BY <2>1, <2>2, NoFrameIsNoFrame DEF LoaderTyped, LoadingIn
  <2>4. LoadingIn(loading') = LoadingIn(loading) \ {f} /\ LoadedOnce(loading')
    BY <1>5, <2>1, <2>2, LoaderGivesFrame
  <2>5. f \in P[1] /\ Q[1] = P[1] \ {f} /\ P[2] = Elements(loaded)
    BY <1>1, <2>3, <2>4, LoadPlacesAre
  <2>6. f \notin Elements(loaded)
    BY <1>5, <2>5 DEF Apart
  <2>7. Elements(loaded') = Elements(loaded) \cup {f} /\ Once(loaded')
    BY <1>5, <2>1, <2>2, <2>3, <2>6, AppendOnce
  <2>8. Q[2] = P[2] \cup {f}
    BY <1>1, <2>7, LoadPlacesAre
  <2>9. \A n \in 1..6 : n # 1 /\ n # 2 => Q[n] = P[n]
    BY <1>4, SixPlaces
  <2>10. Apart(Q) /\ Everywhere(Q) = Everywhere(P)
    BY <1>5, <2>5, <2>8, <2>9, FrameMoves
  <2>11. QED
    BY <1>1, <1>5, <2>1, <2>4, <2>7, <2>10 DEF FlowInv
<1>9. QED
  BY <1>6, <1>7, <1>8 DEF Loader, LoaderOpens, LoaderLoads, LoaderAt

LEMMA TakingMovesFrames ==
  ASSUME LoaderTyped, PlacesInv, FlowInv, TakeStep
  PROVE  FlowInv'
<1>1. PICK P, Q : P = LoadPlaces /\ Q = LoadPlaces'
  OBVIOUS
<1>2. PICK f : f = Head(loaded)
  OBVIOUS
<1>3. /\ producer = "reading" /\ producer' = "pushing" /\ in_hand' = f
      /\ loaded # <<>> /\ loaded' = Tail(loaded) /\ UNCHANGED <<loading, next_frame>>
      /\ UNCHANGED <<input_queue, encoderVars, in_batch, diskVars, writerVars, frames_produced>>
  BY <1>2 DEF TakeStep, ProducerTakes, queueVars, batchVars
<1>4. Everywhere(FramePlaces)' = Everywhere(FramePlaces)
  BY <1>3, PlacesUnchanged DEF FramesStay
<1>5. /\ Apart(P) /\ Everywhere(P) \subseteq 0..(next_frame - 1)
      /\ Once(loaded) /\ LoadedOnce(loading) /\ loaded \in Seq(Frames)
  BY <1>1 DEF FlowInv, LoaderTyped
<1>6. f \in Elements(loaded) /\ Elements(loaded') = Elements(loaded) \ {f} /\ Once(loaded')
  BY <1>2, <1>3, <1>5, TailOnce
<1>7. /\ Q[1] = P[1] /\ f \in P[2] /\ Q[2] = P[2] \ {f} /\ Q[3] = P[3] \cup {f}
      /\ Q[4] = P[4] /\ Q[5] = P[5] /\ Q[6] = P[6]
  BY <1>1, <1>3, <1>4, <1>6, LoadPlacesAre DEF InHandAt
<1>8. \A n \in 1..6 : n # 2 /\ n # 3 => Q[n] = P[n]
  BY <1>7, SixPlaces
<1>9. Apart(Q) /\ Everywhere(Q) = Everywhere(P)
  BY <1>5, <1>7, <1>8, FrameMoves
<1>10. QED
  BY <1>1, <1>3, <1>5, <1>6, <1>9 DEF FlowInv

(* What a step that takes no frame does to the calling thread's place.     *)
LEMMA RestMoves ==
  ASSUME RestStep
  PROVE  \/ /\ producer = "pushing" /\ producer' = "reading"
            /\ frames_produced' = frames_produced + 1
         \/ /\ producer = "pushing" /\ producer' = "joining" /\ closed
            /\ UNCHANGED frames_produced
         \/ /\ producer' = "pushing" <=> producer = "pushing"
            /\ UNCHANGED <<in_hand, frames_produced>>
<1>1. CASE ProducerPushes
  BY <1>1 DEF ProducerPushes
<1>2. CASE SourceEnds("ended") \/ PipelineReturns(load_error)
  BY <1>2 DEF SourceEnds, PipelineReturns
<1>3. CASE \/ ProducerBegins \/ ProducerStops \/ ProducerJoins \/ ProducerEndsBatch
           \/ ProducerDrains \/ ProducerWraps \/ ProducerJoinsWrap
  BY <1>3 DEF ProducerBegins, ProducerStops, ProducerJoins, ProducerEndsBatch,
     ProducerDrains, ProducerWraps, ProducerJoinsWrap
<1>4. CASE Others \/ UNCHANGED vars
  <2>1. UNCHANGED producerVars
    BY <1>4 DEF vars, Others, Cancel, Wrap, Plugin, BatchReturns, Writer, WriterReceives,
       WriterWrites, WriterFeeds, WriterHangsUp, EncoderThread, EncoderLoops, EncoderPops,
       EncoderEncodes, EncoderSends
  <2>2. QED
    BY <2>1 DEF producerVars
<1>5. QED
  BY <1>1, <1>2, <1>3, <1>4 DEF RestStep, ProducerRest

LEMMA RestMovesFrames ==
  ASSUME LoaderTyped, FlowInv, RestStep, UNCHANGED loaderVars,
         FramesStay \/ FramesLost \/ FramePushed
  PROVE  FlowInv'
<1>1. PICK P, Q : P = LoadPlaces /\ Q = LoadPlaces'
  OBVIOUS
<1>2. UNCHANGED <<loading, loaded, next_frame>>
  BY DEF loaderVars
<1>3. /\ Apart(P) /\ Everywhere(P) \subseteq 0..(next_frame - 1)
      /\ Once(loaded) /\ LoadedOnce(loading)
  BY <1>1 DEF FlowInv
<1>4. /\ Q[1] = P[1] /\ Q[2] = P[2] /\ Q[5] = P[5] /\ Q[6] = P[6]
      /\ P[3] = InHandAt(producer, in_hand) /\ Q[3] = InHandAt(producer', in_hand')
      /\ P[4] = Everywhere(FramePlaces) /\ Q[4] = Everywhere(FramePlaces)'
  BY <1>1, <1>2, LoadPlacesAre
<1>5. CASE FramePushed
  <2>1. /\ in_hand \in P[3] /\ Q[3] = P[3] \ {in_hand}
        /\ Q[4] = P[4] \cup {in_hand}
    BY <1>4, <1>5 DEF FramePushed, InHandAt
  <2>2. \A n \in 1..6 : n # 3 /\ n # 4 => Q[n] = P[n]
    BY <1>4, SixPlaces
  <2>3. Apart(Q) /\ Everywhere(Q) = Everywhere(P)
    BY <1>3, <2>1, <2>2, FrameMoves
  <2>4. QED
    BY <1>1, <1>2, <1>3, <2>3 DEF FlowInv
<1>6. CASE FramesStay \/ FramesLost
  <2>1. Q[3] \subseteq P[3]
    BY <1>4, RestMoves DEF InHandAt
  <2>2. Q[4] \subseteq P[4]
    BY <1>4, <1>6 DEF FramesStay, FramesLost
  <2>3. Apart(Q) /\ Everywhere(Q) \subseteq Everywhere(P)
    BY <1>3, <1>4, <2>1, <2>2, SixPlaces, FramesLeave
  <2>4. QED
    BY <1>1, <1>2, <1>3, <2>3 DEF FlowInv
<1>7. QED
  BY <1>5, <1>6

LEMMA HandIsApart ==
  ASSUME FlowInv, producer = "pushing"
  PROVE  in_hand \notin Everywhere(FramePlaces)
<1>1. PICK P : P = LoadPlaces
  OBVIOUS
<1>2. P[3] = {in_hand} /\ P[4] = Everywhere(FramePlaces)
  BY <1>1 DEF LoadPlaces, InHandAt
<1>3. QED
  BY <1>1, <1>2 DEF FlowInv, Apart

-----------------------------------------------------------------------------
(* How many frames were taken, and who has them.                           *)

LoadersAt(g, at) == {l \in Loaders : g[l] = at}
CountAt(g, at) == Cardinality(LoadersAt(g, at))

LEMMA CountEnters ==
  ASSUME NEW g \in [Loaders -> LoaderStates], NEW l \in Loaders, NEW at \in LoaderStates,
         g[l] # at, NEW h, h = [g EXCEPT ![l] = at]
  PROVE  CountAt(h, at) = CountAt(g, at) + 1
<1>1. LoadersAt(h, at) = LoadersAt(g, at) \cup {l} /\ l \notin LoadersAt(g, at)
  BY DEF LoadersAt
<1>2. IsFiniteSet(LoadersAt(g, at))
  BY LoadersAreFinite DEF LoadersAt
<1>3. QED
  BY <1>1, <1>2, FS_AddElement DEF CountAt

LEMMA CountLeaves ==
  ASSUME NEW g \in [Loaders -> LoaderStates], NEW l \in Loaders, NEW at \in LoaderStates,
         g[l] = at, NEW to \in LoaderStates, to # at, NEW h, h = [g EXCEPT ![l] = to]
  PROVE  CountAt(h, at) = CountAt(g, at) - 1
<1>1. LoadersAt(h, at) = LoadersAt(g, at) \ {l} /\ l \in LoadersAt(g, at)
  BY DEF LoadersAt
<1>2. IsFiniteSet(LoadersAt(g, at))
  BY LoadersAreFinite DEF LoadersAt
<1>3. QED
  BY <1>1, <1>2, FS_RemoveElement DEF CountAt

LEMMA CountStays ==
  ASSUME NEW g \in [Loaders -> LoaderStates], NEW l \in Loaders, NEW at \in LoaderStates,
         g[l] # at, NEW to \in LoaderStates, to # at, NEW h, h = [g EXCEPT ![l] = to]
  PROVE  CountAt(h, at) = CountAt(g, at)
<1>1. LoadersAt(h, at) = LoadersAt(g, at)
  BY DEF LoadersAt
<1>2. QED
  BY <1>1 DEF CountAt

LEMMA CountIsNat ==
  ASSUME NEW g, NEW at
  PROVE  CountAt(g, at) \in Nat /\ CountAt(g, at) <= Cardinality(Loaders)
BY LoadersAreFinite DEF CountAt, LoadersAt

(* Frames handed to the pipeline, or on their way to it.                   *)
Pushing == IF producer = "pushing" THEN 1 ELSE 0
Handed == frames_produced + Pushing + Len(loaded) + CountAt(loader, "sending")

Untroubled == ~cancel /\ ~error_flag /\ ~load_error

(* No frame is handed over twice, none is left out until something fails,  *)
(* and a loader takes no more than one index past the end.                 *)
CountInv ==
  /\ Handed <= next_frame /\ Handed <= FrameCount
  /\ Untroubled => Handed >= FrameCount \/ Handed = next_frame
  /\ next_frame <= FrameCount + CountAt(loader, "done")

\* The frame lists only what it came through, in order.
OrderInv == \A n \in 1..Len(frames_written) : frames_written[n] = n - 1

EarlyStates == {"beginning", "reading", "pushing"}

(* The input queue closes early only on a failure or a cancel; otherwise   *)
(* the calling thread stops once the loaders have gone and left nothing,   *)
(* and none goes before the frames run out.                                *)
EndInv ==
  /\ closed /\ producer \in EarlyStates => error_flag \/ cancel
  /\ producer \notin EarlyStates =>
       cancel \/ error_flag \/ batch = "failed" \/ (loaded = <<>> /\ LoadersDone)
  /\ \A l \in Loaders : loader[l] = "done" => load_error \/ cancel \/ next_frame >= FrameCount
  /\ Succeeding => LoadersDone /\ ~load_error /\ frames_produced = FrameCount

LEMMA HandedTypes ==
  ASSUME FramesTyped, LoaderTyped
  PROVE  /\ Pushing \in Nat /\ Len(loaded) \in Nat /\ frames_produced \in Nat
         /\ next_frame \in Nat /\ FrameCount \in Nat
         /\ CountAt(loader, "sending") \in Nat /\ CountAt(loader, "done") \in Nat
BY CountIsNat, NoFrameIsNoFrame DEF FramesTyped, LoaderTyped, Pushing

LEMMA LoaderKeepsCount ==
  ASSUME FramesTyped, LoaderTyped, CountInv, UNCHANGED vars, NEW l \in Loaders, Loader(l)
  PROVE  CountInv'
<1>1. /\ Pushing \in Nat /\ Len(loaded) \in Nat /\ frames_produced \in Nat
      /\ next_frame \in Nat /\ FrameCount \in Nat
      /\ CountAt(loader, "sending") \in Nat /\ CountAt(loader, "done") \in Nat
  BY HandedTypes
<1>2. UNCHANGED <<Pushing, frames_produced, cancel, error_flag>>
  BY DEF vars, producerVars, flagVars, Pushing
<1>3. loader \in [Loaders -> LoaderStates]
  BY DEF LoaderTyped
<1>4. /\ Handed <= next_frame /\ Handed <= FrameCount
      /\ Untroubled => Handed >= FrameCount \/ Handed = next_frame
      /\ next_frame <= FrameCount + CountAt(loader, "done")
  BY DEF CountInv
<1>5. PICK K, L : K = Handed /\ L = Handed'
  OBVIOUS
<1>6. /\ K = frames_produced + Pushing + Len(loaded) + CountAt(loader, "sending")
      /\ L = frames_produced + Pushing + Len(loaded') + CountAt(loader', "sending")
  BY <1>2, <1>5 DEF Handed
<1>7. CASE loader' = [loader EXCEPT ![l] = "looping"] /\ loader[l] = "opening"
           /\ UNCHANGED <<next_frame, load_error, loaded>>
  <2>1. CountAt(loader', "sending") = CountAt(loader, "sending")
    BY <1>3, <1>7, CountStays DEF LoaderStates
  <2>2. CountAt(loader', "done") = CountAt(loader, "done")
    BY <1>3, <1>7, CountStays DEF LoaderStates
  <2>3. QED
    BY <1>1, <1>2, <1>4, <1>5, <1>6, <1>7, <2>1, <2>2 DEF CountInv, Untroubled
<1>8. CASE /\ loader' = [loader EXCEPT ![l] = "done"] /\ loader[l] \in {"opening", "looping"}
           /\ UNCHANGED loaded
           /\ \/ UNCHANGED next_frame /\ (load_error' = load_error \/ load_error' = TRUE)
              \/ /\ next_frame >= FrameCount /\ next_frame' = next_frame + 1
                 /\ UNCHANGED load_error
              \/ /\ next_frame < FrameCount /\ next_frame' = next_frame + 1
                 /\ load_error' = TRUE
  <2>1. CountAt(loader', "sending") = CountAt(loader, "sending")
    BY <1>3, <1>8, CountStays DEF LoaderStates
  <2>2. CountAt(loader', "done") = CountAt(loader, "done") + 1
    BY <1>3, <1>8, CountEnters DEF LoaderStates
  <2>3. K = L
    BY <1>6, <1>8, <2>1
  <2>4. /\ L <= next_frame' /\ L <= FrameCount
        /\ next_frame' <= FrameCount + CountAt(loader', "done")
    BY <1>1, <1>4, <1>5, <1>6, <1>8, <2>2, <2>3
  <2>5. Untroubled' => L >= FrameCount \/ L = next_frame'
    BY <1>1, <1>2, <1>4, <1>5, <1>6, <1>8, <2>3 DEF Untroubled
  <2>6. QED
    BY <1>5, <2>4, <2>5 DEF CountInv
<1>9. CASE /\ loader' = [loader EXCEPT ![l] = "sending"] /\ loader[l] = "looping"
           /\ next_frame < FrameCount /\ next_frame' = next_frame + 1
           /\ UNCHANGED <<load_error, loaded>>
  <2>1. CountAt(loader', "sending") = CountAt(loader, "sending") + 1
    BY <1>3, <1>9, CountEnters DEF LoaderStates
  <2>2. CountAt(loader', "done") = CountAt(loader, "done")
    BY <1>3, <1>9, CountStays DEF LoaderStates
  <2>3. L = K + 1
    BY <1>1, <1>6, <1>9, <2>1
  <2>4. QED
    BY <1>1, <1>2, <1>4, <1>5, <1>6, <1>9, <2>2, <2>3 DEF CountInv, Untroubled
<1>10. CASE LoaderSends(l)
  <2>1. /\ loader[l] = "sending" /\ loader' = [loader EXCEPT ![l] = "looping"]
        /\ loaded' = Append(loaded, loading[l]) /\ UNCHANGED <<next_frame, load_error>>
    BY <1>10 DEF LoaderSends, LoaderAt
  <2>2. CountAt(loader', "sending") = CountAt(loader, "sending") - 1
    BY <1>3, <2>1, CountLeaves DEF LoaderStates
  <2>3. CountAt(loader', "done") = CountAt(loader, "done")
    BY <1>3, <2>1, CountStays DEF LoaderStates
  <2>4. Len(loaded') = Len(loaded) + 1
    BY <2>1 DEF LoaderTyped
  <2>5. L = K
    BY <1>1, <1>6, <2>2, <2>4
  <2>6. QED
    BY <1>2, <1>4, <1>5, <2>1, <2>3, <2>5 DEF CountInv, Untroubled
<1>11. QED
  BY <1>7, <1>8, <1>9, <1>10 DEF Loader, LoaderOpens, LoaderLoads, LoaderAt

LEMMA TakingKeepsCount ==
  ASSUME FramesTyped, LoaderTyped, CountInv, TakeStep
  PROVE  CountInv'
<1>1. /\ Pushing = 0 /\ Pushing' = 1 /\ Len(loaded') = Len(loaded) - 1
      /\ UNCHANGED <<frames_produced, loader, next_frame, load_error, cancel, error_flag>>
  <2>1. Len(loaded') = Len(loaded) - 1
    BY HeadTailProperties DEF TakeStep, LoaderTyped
  <2>2. QED
    BY <2>1 DEF TakeStep, ProducerTakes, Pushing, flagVars
<1>2. Handed' = Handed
  BY <1>1, HandedTypes DEF Handed
<1>3. QED
  BY <1>1, <1>2 DEF CountInv, Untroubled

LEMMA RestKeepsCount ==
  ASSUME FramesTyped, LoaderTyped, CountInv, EndInv, AnyStep, RestStep, UNCHANGED loaderVars
  PROVE  CountInv'
<1>1. /\ Pushing \in Nat /\ Len(loaded) \in Nat /\ frames_produced \in Nat
      /\ next_frame \in Nat /\ FrameCount \in Nat
      /\ CountAt(loader, "sending") \in Nat /\ CountAt(loader, "done") \in Nat
  BY HandedTypes
<1>2. UNCHANGED <<loader, loaded, next_frame, load_error>>
  BY DEF loaderVars
<1>3. (error_flag => error_flag') /\ (cancel => cancel')
  BY FlagsStay
<1>4. Handed' = frames_produced' + Pushing' + Len(loaded) + CountAt(loader, "sending")
  BY <1>2 DEF Handed
<1>5. Handed' = Handed \/ (Handed' = Handed - 1 /\ producer = "pushing" /\ closed)
  <2>1. CASE /\ producer = "pushing" /\ producer' = "reading"
             /\ frames_produced' = frames_produced + 1
    BY <1>1, <1>4, <2>1 DEF Handed, Pushing
  <2>2. CASE /\ producer = "pushing" /\ producer' = "joining" /\ closed
             /\ UNCHANGED frames_produced
    BY <1>1, <1>4, <2>2 DEF Handed, Pushing
  <2>3. CASE /\ producer' = "pushing" <=> producer = "pushing"
             /\ UNCHANGED <<in_hand, frames_produced>>
    BY <1>1, <1>4, <2>3 DEF Handed, Pushing
  <2>4. QED
    BY <2>1, <2>2, <2>3, RestMoves
<1>6. Handed \in Nat
  BY <1>1 DEF Handed
<1>7. Handed' # Handed => ~Untroubled'
  BY <1>3, <1>5, <1>6 DEF EndInv, Untroubled, EarlyStates
<1>8. QED
  BY <1>1, <1>2, <1>3, <1>5, <1>6, <1>7 DEF CountInv, Untroubled

-----------------------------------------------------------------------------
(* How the run ends.                                                       *)

LEMMA LoaderKeepsEnd ==
  ASSUME LoaderTyped, EndInv, UNCHANGED vars, NEW l \in Loaders, Loader(l)
  PROVE  EndInv'
<1>1. loader[l] # "done" /\ ~LoadersDone
  BY DEF Loader, LoaderOpens, LoaderLoads, LoaderSends, LoaderAt, LoadersDone
<1>2. UNCHANGED <<closed, producer, error_flag, cancel, batch, result, frames_produced>>
  BY DEF vars, queueVars, producerVars, flagVars, batchVars
<1>3. ~Succeeding /\ ~Succeeding'
  BY <1>1, <1>2 DEF EndInv, Succeeding
<1>4. /\ next_frame \in Nat /\ FrameCount \in Nat /\ next_frame' \in {next_frame, next_frame + 1}
      /\ load_error => load_error'
      /\ \A k \in Loaders \ {l} : loader'[k] = loader[k]
      /\ loader'[l] = "done" => load_error' \/ cancel \/ next_frame >= FrameCount
  BY NoFrameIsNoFrame
  DEF Loader, LoaderOpens, LoaderLoads, LoaderSends, LoaderAt, LoaderTyped, LoaderStates
<1>5. \A k \in Loaders : loader'[k] = "done" => load_error' \/ cancel' \/ next_frame' >= FrameCount
  BY <1>2, <1>4 DEF EndInv
<1>6. QED
  BY <1>1, <1>2, <1>3, <1>5 DEF EndInv

LEMMA TakingKeepsEnd ==
  ASSUME FinishInv, EndInv, TakeStep
  PROVE  EndInv'
<1>1. /\ producer = "reading" /\ producer' = "pushing"
      /\ UNCHANGED <<closed, error_flag, cancel, batch, result, frames_produced>>
      /\ UNCHANGED <<loader, next_frame, load_error>>
  BY DEF TakeStep, ProducerTakes, queueVars, flagVars, batchVars
<1>2. ~Succeeding'
  BY <1>1 DEF Succeeding, FinishInv, NotAskedToFinish
<1>3. QED
  BY <1>1, <1>2 DEF EndInv, EarlyStates

LEMMA RestEnds ==
  ASSUME ControlInv, RestStep
  PROVE  /\ closed' => closed \/ error_flag' \/ cancel' \/ producer' \notin EarlyStates
         /\ producer' \in EarlyStates => producer \in EarlyStates
         /\ producer' \notin EarlyStates /\ producer \in EarlyStates =>
              cancel \/ error_flag \/ batch' = "failed" \/ closed \/ (loaded = <<>> /\ LoadersDone)
         /\ batch = "failed" => batch' = "failed"
<1> USE DEF EarlyStates
<1>1. CASE loaded = <<>> /\ LoadersDone /\ SourceEnds("ended")
  BY <1>1 DEF SourceEnds, batchVars
<1>2. CASE ProducerPushes \/ ProducerStops
  BY <1>2 DEF ProducerPushes, ProducerStops, batchVars
<1>3. CASE ProducerBegins
  BY <1>3 DEF ProducerBegins, ControlInv, queueVars
<1>4. CASE ProducerJoins \/ ProducerEndsBatch
  BY <1>4 DEF ProducerJoins, ProducerEndsBatch, Carry, FailPipeline, queueVars
<1>5. CASE ProducerDrains \/ ProducerWraps \/ ProducerJoinsWrap \/ PipelineReturns(load_error)
  BY <1>5 DEF ProducerDrains, ProducerWraps, ProducerJoinsWrap, PipelineReturns, queueVars,
              batchVars
<1>6. CASE Others \/ UNCHANGED vars
  <2>1. UNCHANGED <<producer, batch>>
    BY <1>6 DEF vars, Others, Cancel, Wrap, Plugin, BatchReturns, Writer, WriterReceives,
       WriterWrites, WriterFeeds, WriterHangsUp, EncoderThread, EncoderLoops, EncoderPops,
       EncoderEncodes, EncoderSends, producerVars, batchVars
  <2>2. closed' => closed \/ error_flag' \/ cancel'
    <3>1. ASSUME NEW e \in Encoders, EncoderThread(e)
          PROVE  closed' => closed \/ error_flag' \/ cancel'
      <4>1. CASE EncoderLoops(e)
        BY <4>1 DEF EncoderLoops, flagVars
      <4>2. CASE EncoderPops(e)
        BY <4>2 DEF EncoderPops
      <4>3. CASE EncoderEncodes(e)
        BY <4>3 DEF EncoderEncodes, Carry, FailPipeline, queueVars
      <4>4. CASE EncoderSends(e)
        BY <4>4 DEF EncoderSends, flagVars
      <4>5. QED
        BY <3>1, <4>1, <4>2, <4>3, <4>4 DEF EncoderThread
    <3>2. CASE Writer
      BY <3>2 DEF Writer, WriterReceives, WriterWrites, WriterFeeds, WriterHangsUp, Carry,
                  FailPipeline, queueVars
    <3>3. CASE Cancel \/ Wrap \/ Plugin \/ UNCHANGED vars
      BY <3>3 DEF Cancel, Wrap, Plugin, BatchReturns, vars, Carry, FailPipeline, queueVars
    <3>4. QED
      BY <1>6, <3>1, <3>2, <3>3 DEF Others
  <2>3. QED
    BY <2>1, <2>2
<1>7. QED
  BY <1>1, <1>2, <1>3, <1>4, <1>5, <1>6 DEF RestStep, ProducerRest

LEMMA RestSucceeds ==
  ASSUME FinishInv, RestStep, Succeeding'
  PROVE  \/ Succeeding
         \/ /\ producer = "joining_writer" /\ LoadersDone /\ ~load_error
            /\ ~cancel /\ ~error_flag /\ batch # "failed"
<1>1. CASE SourceEnds("ended") \/ ProducerBegins \/ ProducerStops \/ ProducerPushes
           \/ ProducerJoins \/ ProducerEndsBatch \/ ProducerDrains
  <2>1. /\ producer \notin {"finishing", "returned"} /\ UNCHANGED result
        /\ producer' \notin {"wrapping", "finishing"}
    BY <1>1 DEF SourceEnds, ProducerBegins, ProducerStops, ProducerPushes,
       ProducerJoins, ProducerEndsBatch, ProducerDrains
  <2>2. QED
    BY <2>1 DEF FinishInv, NotAskedToFinish, Succeeding
<1>2. CASE LoadersDone /\ PipelineReturns(load_error)
  <2>1. producer = "joining_writer" /\ result # "ok"
    BY <1>2 DEF PipelineReturns, FinishInv, NotAskedToFinish
  <2>2. /\ result' \in {result, "cancelled", "error"} /\ producer' \in {"wrapping", "abandoning"}
        /\ producer' = "wrapping" => ~(batch = "failed" \/ cancel \/ error_flag \/ load_error)
    BY <1>2 DEF PipelineReturns
  <2>3. QED
    BY <1>2, <2>1, <2>2 DEF Succeeding
<1>3. CASE ProducerWraps \/ ProducerJoinsWrap
  BY <1>3 DEF ProducerWraps, ProducerJoinsWrap, Succeeding
<1>4. CASE Others \/ UNCHANGED vars
  <2>1. UNCHANGED producerVars
    BY <1>4 DEF vars, Others, Cancel, Wrap, Plugin, BatchReturns, Writer, WriterReceives,
       WriterWrites, WriterFeeds, WriterHangsUp, EncoderThread, EncoderLoops, EncoderPops,
       EncoderEncodes, EncoderSends
  <2>2. QED
    BY <2>1 DEF producerVars, Succeeding
<1>5. QED
  BY <1>1, <1>2, <1>3, <1>4 DEF RestStep, ProducerRest

(* A run that goes on to its wrap handed over every frame: nothing went    *)
(* wrong, so the loaders ran to the end and left nothing on the way.       *)
LEMMA AllWereHanded ==
  ASSUME FramesTyped, LoaderTyped, CountInv, EndInv, producer = "joining_writer",
         LoadersDone, ~load_error, ~cancel, ~error_flag, batch # "failed"
  PROVE  frames_produced = FrameCount
<1>1. loaded = <<>> /\ Pushing = 0
  BY DEF EndInv, EarlyStates, Pushing
<1>2. CountAt(loader, "sending") = 0
  <2>1. LoadersAt(loader, "sending") = {}
    BY DEF LoadersAt, LoadersDone
  <2>2. QED
    BY <2>1, FS_EmptySet DEF CountAt
<1>3. Handed = frames_produced
  BY <1>1, <1>2, HandedTypes DEF Handed
<1>4. next_frame >= FrameCount
  BY LoadedFramesAssumption DEF EndInv, LoadersDone
<1>5. QED
  BY <1>3, <1>4, HandedTypes DEF CountInv, Untroubled

LEMMA RestKeepsEnd ==
  ASSUME FramesTyped, LoaderTyped, FinishInv, ControlInv, CountInv, EndInv,
         AnyStep, RestStep, UNCHANGED loaderVars
  PROVE  EndInv'
<1>1. UNCHANGED <<loader, next_frame, load_error, loaded, LoadersDone>>
  BY DEF loaderVars, LoadersDone
<1>2. (error_flag => error_flag') /\ (cancel => cancel')
  BY FlagsStay
<1>3. closed' /\ producer' \in EarlyStates => error_flag' \/ cancel'
  BY <1>2, RestEnds DEF EndInv
<1>4. producer' \notin EarlyStates =>
        cancel' \/ error_flag' \/ batch' = "failed" \/ (loaded' = <<>> /\ LoadersDone')
  BY <1>1, <1>2, RestEnds DEF EndInv
<1>5. ASSUME Succeeding'
      PROVE  LoadersDone' /\ ~load_error' /\ frames_produced' = FrameCount
  <2>1. LoadersDone /\ ~load_error /\ frames_produced = FrameCount
    BY <1>5, RestSucceeds, AllWereHanded DEF EndInv
  <2>2. producer # "pushing"
    BY <1>5, RestSucceeds DEF Succeeding, FinishInv, NotAskedToFinish
  <2>3. QED
    BY <1>1, <2>1, <2>2, RestMoves
<1>6. QED
  BY <1>1, <1>2, <1>3, <1>4, <1>5 DEF EndInv

LEMMA ThreadKeepsOrder ==
  ASSUME TrackInv, OrderInv, ThreadStep
  PROVE  OrderInv'
<1>1. CASE UNCHANGED frames_written
  BY <1>1 DEF OrderInv
<1>2. CASE WrapWrites /\ frames_written' = Append(frames_written, next_index)
  <2>1. Len(frames_written) = next_index /\ frames_written \in Seq(Nat) /\ next_index \in Nat
    BY <1>2 DEF WrapWrites, TrackInv
  <2>2. /\ Len(frames_written') = next_index + 1 /\ frames_written'[next_index + 1] = next_index
        /\ \A n \in 1..next_index : frames_written'[n] = frames_written[n]
    BY <1>2, <2>1
  <2>3. \A n \in 1..(next_index + 1) : n \in 1..next_index \/ n = next_index + 1
    BY <2>1
  <2>4. QED
    BY <2>1, <2>2, <2>3 DEF OrderInv
<1>3. QED
  BY <1>1, <1>2 DEF ThreadStep, threadVars, fileVars, bufferVars, WrapThread, WrapReceives,
     WrapReleasedAll, WrapWrites, WrapIsAbandoned, WrapFinalizes, WrapRenames, WrapRemovesPart

LoadedInv ==
  PipelineInv /\ LoaderTyped /\ FlowInv /\ CountInv /\ EndInv /\ OrderInv

LEMMA InitLoaded == LoadedInit => LoadedInv
<1> SUFFICES ASSUME LoadedInit PROVE LoadedInv
  OBVIOUS
<1>1. PipelineInv
  BY InitPipeline DEF LoadedInit
<1>2. /\ producer = "beginning" /\ closed = FALSE /\ frames_produced = 0 /\ result = "none"
      /\ frames_written = <<>> /\ FrameCount \in Nat
  BY NoFrameIsNoFrame DEF LoadedInit, Init, WrapInit
<1>3. /\ loader = [l \in Loaders |-> "opening"] /\ loading = [l \in Loaders |-> NoFrame]
      /\ next_frame = 0 /\ load_error = FALSE /\ loaded = <<>>
  BY DEF LoadedInit
<1>4. LoaderTyped
  <2>1. loaded \in Seq(Frames) /\ Len(loaded) <= Cardinality(Loaders)
    BY <1>3, RoomForLoaders, Bounds
  <2>2. load_error \in BOOLEAN
    BY <1>3
  <2>3. QED
    BY <1>3, <2>1, <2>2 DEF LoaderTyped, LoaderStates
<1>5. FlowInv
  <2>1. PICK P, R : P = LoadPlaces /\ R = FramePlaces
    OBVIOUS
  <2>2. R = <<{}, {}, {}, {}, {}, {}>>
    BY <2>1 DEF LoadedInit, Init, FramePlaces
  <2>3. Everywhere(R) = {}
    BY <2>2, SixPlaces DEF Everywhere
  <2>4. P = <<{}, {}, {}, {}, {}, {}>>
    BY <1>2, <1>3, <2>1, <2>3, NothingSent DEF LoadPlaces, LoadingIn, InHandAt
  <2>5. Apart(P) /\ Everywhere(P) = {}
    BY <2>4, SixPlaces DEF Apart, Everywhere
  <2>6. QED
    BY <1>3, <2>1, <2>5, NothingSent DEF FlowInv, LoadedOnce
<1>6. CountInv
  <2>1. LoadersAt(loader, "sending") = {} /\ LoadersAt(loader, "done") = {}
    BY <1>3 DEF LoadersAt
  <2>2. CountAt(loader, "sending") = 0 /\ CountAt(loader, "done") = 0
    BY <2>1, FS_EmptySet DEF CountAt
  <2>3. QED
    BY <1>2, <1>3, <2>2 DEF CountInv, Handed, Pushing
<1>7. EndInv
  BY <1>2, <1>3 DEF EndInv, EarlyStates, Succeeding
<1>8. OrderInv
  BY <1>2 DEF OrderInv
<1>9. QED
  BY <1>1, <1>4, <1>5, <1>6, <1>7, <1>8 DEF LoadedInv

LEMMA NextKeepsLoaded ==
  ASSUME LoadedInv, [LoadedNext]_allVars
  PROVE  LoadedInv'
<1>1. /\ PipelineInv /\ LoaderTyped /\ FlowInv /\ CountInv /\ EndInv /\ OrderInv
      /\ FramesTyped /\ TrackInv /\ FinishInv /\ ControlInv /\ PlacesInv
  BY DEF LoadedInv, PipelineInv, HalfLeftInv
<1>2. AnyStep
  <2>1. TakeStep => AnyStep
    <3>1. TakeStep => Head(loaded) \in Frames
      BY <1>1, HeadTailProperties DEF TakeStep, LoaderTyped
    <3>2. QED
      BY <3>1 DEF TakeStep, AnyStep, CallerStep
  <2>2. RestStep => AnyStep
    BY <1>1 DEF RestStep, AnyStep, CallerStep, LoaderTyped
  <2>3. QED
    BY <2>1, <2>2, LoadedSteps DEF AnyStep
<1>3. PipelineInv' /\ OrderInv' /\ (FramesStay \/ FramesLost \/ FramePushed)
  BY <1>1, <1>2, HandIsApart, AnyStepKeepsPipeline, AnyStepMovesFrames, AnyStepIsThreadStep,
     ThreadKeepsOrder
<1>4. CASE TakeStep
  BY <1>1, <1>3, <1>4, TakingKeepsTypes, TakingMovesFrames, TakingKeepsCount, TakingKeepsEnd
  DEF LoadedInv
<1>5. CASE RestStep /\ UNCHANGED loaderVars
  <2>1. LoaderTyped'
    BY <1>1, <1>5 DEF LoaderTyped, loaderVars
  <2>2. QED
    BY <1>1, <1>2, <1>3, <1>5, <2>1, RestMovesFrames, RestKeepsCount, RestKeepsEnd
    DEF LoadedInv
<1>6. ASSUME UNCHANGED vars, NEW l \in Loaders, Loader(l)
      PROVE  LoadedInv'
  BY <1>1, <1>3, <1>6, LoaderKeepsTypes, LoaderMovesFrames, LoaderKeepsCount, LoaderKeepsEnd
  DEF LoadedInv
<1>7. QED
  BY <1>4, <1>5, <1>6, LoadedSteps

LEMMA AlwaysLoadedInv == LoadedSpec => []LoadedInv
<1>1. LoadedInv /\ [LoadedNext]_allVars => LoadedInv'
  BY NextKeepsLoaded
<1>2. QED
  BY <1>1, InitLoaded, PTL DEF LoadedSpec

(* The pipeline and its loaders keep their types: the channel stays within *)
(* its size, and the loaders run past the end by an index each at most     *)
(* (encode.rs encode_loaded_frames).                                       *)
THEOREM LoadedTypes == LoadedSpec => []LoadedTypeOK
<1>1. ASSUME LoadedInv PROVE LoadedTypeOK
  <2>1. /\ PipelineInv /\ LoaderTyped /\ CountInv /\ FramesTyped
    BY <1>1 DEF LoadedInv, PipelineInv, HalfLeftInv
  <2>2. frames_produced <= FrameCount
    <3>1. frames_produced <= Handed /\ Handed \in Nat
      BY <2>1, HandedTypes DEF Handed
    <3>2. QED
      BY <2>1, <3>1, HandedTypes DEF CountInv
  <2>3. next_frame \in 0..(FrameCount + Cardinality(Loaders))
    <3>1. CountAt(loader, "done") <= Cardinality(Loaders)
      BY CountIsNat
    <3>2. QED
      BY <2>1, <3>1, HandedTypes, RoomForLoaders DEF CountInv
  <2>4. QED
    BY <2>1, <2>2, <2>3, PipelineTypes DEF LoadedTypeOK, LoaderTyped, LoaderStates
<1>2. QED
  BY <1>1, AlwaysLoadedInv, PTL

(* Success means that every frame was loaded, encoded, written and, with a *)
(* wrap, published in order, for any number of frames, of loaders and of   *)
(* encoders, though the loaders hand the frames over in any order.         *)
THEOREM EveryLoadedFrameArrives == LoadedSpec => []EveryLoadedFrameIsEncoded
<1>1. ASSUME LoadedInv, Ok
      PROVE  /\ ~load_error /\ ~error_flag /\ frames_produced = FrameCount
             /\ \A f \in Frames : codestreams[f] = "whole"
             /\ wrap # "absent" =>
                  mxf = "final" /\ frames_written = [n \in 1..FrameCount |-> n - 1]
  <2> DEFINE whole == WholeIn(codestreams)
  <2>1. /\ ~error_flag /\ frames_encoded >= frames_produced
        /\ IsFiniteSet(whole) /\ Cardinality(whole) = frames_encoded
        /\ wrap # "absent" => mxf = "final" /\ Len(frames_written) = frames_encoded
    BY <1>1, SuccessCounts DEF LoadedInv
  <2>2. ~load_error /\ frames_produced = FrameCount
    BY <1>1 DEF LoadedInv, EndInv, Ok, Succeeding
  <2>3. whole \subseteq Frames /\ FrameCount \in Nat /\ IsFiniteSet(Frames)
        /\ Cardinality(Frames) = FrameCount
    BY NoFrameIsNoFrame, FS_Interval DEF WholeIn, Frames
  <2> HIDE DEF whole
  <2>4. Cardinality(whole) <= Cardinality(Frames)
        /\ (Cardinality(Frames) = Cardinality(whole) => Frames = whole)
    BY <2>3, FS_Subset
  <2>5. frames_encoded = FrameCount /\ Frames = whole
    BY <1>1, <2>1, <2>2, <2>3, <2>4 DEF LoadedInv, PipelineInv, HalfLeftInv, FramesTyped
  <2>6. \A f \in Frames : codestreams[f] = "whole"
    BY <2>5 DEF whole, WholeIn
  <2>7. Len(frames_written) = FrameCount => frames_written = [n \in 1..FrameCount |-> n - 1]
    BY <1>1 DEF LoadedInv, OrderInv, PipelineInv, HalfLeftInv, TrackInv
  <2>8. QED
    BY <2>1, <2>2, <2>5, <2>6, <2>7
<1>2. LoadedInv => EveryLoadedFrameIsEncoded
  BY <1>1 DEF EveryLoadedFrameIsEncoded
<1>3. QED
  BY <1>2, AlwaysLoadedInv, PTL

=============================================================================
