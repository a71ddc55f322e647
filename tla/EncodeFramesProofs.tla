------------------------- MODULE EncodeFramesProofs -------------------------
(***************************************************************************)
(* Proofs about the frames of an encode: no frame is lost or doubled on    *)
(* its way through the threads, and a run that reports success has them    *)
(* all.  The invariants of the pipeline hold whatever gives it its frames, *)
(* a frame at a time: the lemmas about AnyStep are also those of           *)
(* LoadedFramesProofs.                                                     *)
(***************************************************************************)
EXTENDS EncodePipelineProofs, FiniteSetTheorems

-----------------------------------------------------------------------------
(* Where the frames are.                                                   *)

Elements(s) == {s[i] : i \in DOMAIN s}
Once(s) == \A i, j \in DOMAIN s : s[i] = s[j] => i = j

HeldIn(g) == {g[e] : e \in Encoders} \ {NoFrame}
OnceIn(g) == \A d, e \in Encoders : g[d] = g[e] /\ d # e => g[d] = NoFrame

\* The files that are whole, apart from the one the writer still feeds.
WholeIn(files) == {f \in Frames : files[f] = "whole"}

Apart(P) == \A m, n \in 1..6 : m < n => P[m] \cap P[n] = {}
Everywhere(P) == UNION {P[n] : n \in 1..6}

LEMMA AppendOnce ==
  ASSUME NEW S, NEW s \in Seq(S), NEW x \in S
  PROVE  /\ Elements(Append(s, x)) = Elements(s) \cup {x}
         /\ Once(s) /\ x \notin Elements(s) => Once(Append(s, x))
<1> DEFINE t == Append(s, x)
           n == Len(s)
<1>1. /\ n \in Nat /\ DOMAIN s = 1..n /\ t \in Seq(S) /\ Len(t) = n + 1
      /\ \A i \in 1..n : t[i] = s[i]
      /\ t[n + 1] = x
  BY AppendProperties, LenProperties
<1>2. DOMAIN t = 1..(n + 1)
  BY <1>1, LenProperties
<1> HIDE DEF t, n
<1>3. \A i \in 1..(n + 1) : i \in 1..n \/ i = n + 1
  BY <1>1
<1>4. 1..n \subseteq 1..(n + 1) /\ n + 1 \in 1..(n + 1)
  BY <1>1
<1>5. Elements(t) = Elements(s) \cup {x}
  BY <1>1, <1>2, <1>3, <1>4 DEF Elements
<1>6. ASSUME Once(s), x \notin Elements(s)
      PROVE  Once(t)
  <2> SUFFICES ASSUME NEW i \in 1..(n + 1), NEW j \in 1..(n + 1), t[i] = t[j]
               PROVE  i = j
    BY <1>2 DEF Once
  <2>1. \A k \in 1..n : t[k] \in Elements(s)
    BY <1>1 DEF Elements
  <2>2. CASE i \in 1..n /\ j \in 1..n
    BY <1>1, <1>6, <2>2 DEF Once
  <2>3. CASE i = n + 1 /\ j = n + 1
    BY <2>3
  <2>4. QED
    BY <1>1, <1>3, <1>6, <2>1, <2>2, <2>3
<1>7. QED
  BY <1>5, <1>6 DEF t

LEMMA TailOnce ==
  ASSUME NEW S, NEW s \in Seq(S), s # <<>>, Once(s)
  PROVE  /\ Head(s) \in Elements(s)
         /\ Elements(Tail(s)) = Elements(s) \ {Head(s)}
         /\ Once(Tail(s))
<1> DEFINE t == Tail(s)
           n == Len(s)
<1>1. /\ n \in Nat \ {0} /\ DOMAIN s = 1..n /\ Head(s) = s[1]
      /\ t \in Seq(S) /\ Len(t) = n - 1
      /\ \A i \in 1..(n - 1) : t[i] = s[i + 1]
  BY HeadTailProperties, LenProperties, EmptySeq
<1>2. DOMAIN t = 1..(n - 1)
  BY <1>1, LenProperties
<1> HIDE DEF t, n
<1>3. \A i \in 1..(n - 1) : i + 1 \in 1..n /\ i + 1 # 1
  BY <1>1
<1>4. \A i \in 1..n : i # 1 => i - 1 \in 1..(n - 1) /\ (i - 1) + 1 = i
  BY <1>1
<1>5. 1 \in 1..n
  BY <1>1
<1>6. Elements(t) \subseteq Elements(s) \ {s[1]}
  BY <1>1, <1>2, <1>3, <1>5 DEF Elements, Once
<1>7. Elements(s) \ {s[1]} \subseteq Elements(t)
  <2> SUFFICES ASSUME NEW i \in 1..n, i # 1
               PROVE  s[i] \in Elements(t)
    BY <1>1 DEF Elements
  <2>1. i - 1 \in 1..(n - 1) /\ t[i - 1] = s[i]
    BY <1>1, <1>4
  <2>2. QED
    BY <1>2, <2>1 DEF Elements
<1>8. Once(t)
  <2> SUFFICES ASSUME NEW i \in 1..(n - 1), NEW j \in 1..(n - 1), t[i] = t[j]
               PROVE  i = j
    BY <1>2 DEF Once
  <2>1. i + 1 = j + 1
    BY <1>1, <1>3 DEF Once
  <2>2. QED
    BY <2>1
<1>9. QED
  BY <1>1, <1>5, <1>6, <1>7, <1>8 DEF Elements, t

LEMMA TakesFrame ==
  ASSUME NEW g \in [Encoders -> Frames \cup {NoFrame}], OnceIn(g), NEW e \in Encoders,
         g[e] = NoFrame, NEW f \in Frames \ HeldIn(g),
         NEW h, h = [g EXCEPT ![e] = f]
  PROVE  HeldIn(h) = HeldIn(g) \cup {f} /\ OnceIn(h)
<1>1. h[e] = f /\ (\A d \in Encoders \ {e} : h[d] = g[d]) /\ f # NoFrame
  BY NoFrameIsNoFrame
<1>2. \A d \in Encoders : g[d] # f
  BY <1>1 DEF HeldIn
<1>3. QED
  BY <1>1, <1>2 DEF HeldIn, OnceIn

LEMMA GivesFrame ==
  ASSUME NEW g \in [Encoders -> Frames \cup {NoFrame}], OnceIn(g), NEW e \in Encoders,
         NEW h, h = [g EXCEPT ![e] = NoFrame]
  PROVE  HeldIn(h) = HeldIn(g) \ {g[e]} /\ OnceIn(h)
<1>1. h[e] = NoFrame /\ (\A d \in Encoders \ {e} : h[d] = g[d])
  OBVIOUS
<1>2. QED
  BY <1>1 DEF HeldIn, OnceIn

LEMMA FrameMoves ==
  ASSUME NEW P, NEW Q, Apart(P), NEW a \in 1..6, NEW b \in 1..6, a # b,
         NEW f \in P[a], Q[a] = P[a] \ {f}, Q[b] = P[b] \cup {f},
         \A n \in 1..6 : n # a /\ n # b => Q[n] = P[n]
  PROVE  Apart(Q) /\ Everywhere(Q) = Everywhere(P)
<1>1. \A m, n \in 1..6 : m # n => P[m] \cap P[n] = {}
  BY DEF Apart
<1>2. \A n \in 1..6 : n # a => f \notin P[n]
  BY <1>1
<1>3. \A n \in 1..6 : n # b => Q[n] \subseteq P[n] \ {f}
  BY <1>2
<1>4. \A m, n \in 1..6 : m # n => Q[m] \cap Q[n] = {}
  BY <1>1, <1>3
<1>5. Everywhere(Q) = Everywhere(P)
  BY <1>3 DEF Everywhere
<1>6. QED
  BY <1>4, <1>5 DEF Apart

LEMMA FramesLeave ==
  ASSUME NEW P, NEW Q, Apart(P), \A n \in 1..6 : Q[n] \subseteq P[n]
  PROVE  Apart(Q) /\ Everywhere(Q) \subseteq Everywhere(P)
BY DEF Apart, Everywhere

LEMMA FrameEnters ==
  ASSUME NEW P, NEW Q, Apart(P), NEW f, f \notin Everywhere(P),
         Q[1] = P[1] \cup {f}, \A n \in 2..6 : Q[n] = P[n]
  PROVE  Apart(Q) /\ Everywhere(Q) = Everywhere(P) \cup {f}
<1>1. \A n \in 1..6 : f \notin P[n] /\ (n = 1 \/ n \in 2..6)
  BY DEF Everywhere
<1>2. Apart(Q)
  BY <1>1 DEF Apart
<1>3. QED
  BY <1>1, <1>2 DEF Everywhere

-----------------------------------------------------------------------------
(* The order the threads end in.                                           *)

Begun == {"beginning", "reading", "pushing", "joining"}
AllDone == \A e \in Encoders : encoder[e] = "done"

(* The encoder threads end before the batch, the batch before the writer,  *)
(* unless a failure is recorded; and a batch that did not begin encodes    *)
(* nothing.                                                                *)
ControlInv ==
  /\ batch \in {"none", "failed", "ended"} => in_batch = {}
  /\ producer = "beginning" => batch = "none"
  /\ producer \in Begun => batch \in {"none", "running"}
  /\ producer = "ending_batch" => batch \in {"none", "ending"}
  /\ producer = "draining" => batch \in {"none", "ended"}
  /\ producer \notin Begun \cup {"ending_batch"} => batch \in {"none", "failed", "ended"}
  /\ producer \notin Begun => AllDone \/ batch = "failed"
  /\ producer = "beginning" \/ batch = "failed" => \A e \in Encoders : encoder[e] = "looping"
  /\ writer = "done" /\ ~error_flag => SendersGone

LEMMA SomeEncoder == \E e \in Encoders : TRUE
BY EncodePipelineAssumption

LEMMA CallerKeepsControl ==
  ASSUME FramesTyped, ControlInv, CallerStep
  PROVE  ControlInv'
<1> USE SomeEncoder DEF ControlInv, SendersGone, AllDone, Begun, encoderVars
<1>1. CASE \/ \E f : ProducerTakes(f) \/ SourceEnds(f)
           \/ ProducerStops \/ ProducerPushes
  <2>1. /\ producer \in {"reading", "pushing"} /\ producer' \in {"reading", "pushing", "joining"}
        /\ UNCHANGED <<batch, in_batch, encoder, writer, error_flag>>
    BY <1>1 DEF ProducerTakes, SourceEnds, ProducerStops, ProducerPushes,
                flagVars, batchVars, writerVars
  <2>2. QED
    BY <2>1
<1>2. CASE ProducerBegins
  <2>1. /\ producer = "beginning" /\ UNCHANGED <<in_batch, encoder, writer, error_flag>>
        /\ \/ batch' \in {"none", "running"} /\ producer' = "reading"
           \/ batch' = "failed" /\ producer' = "joining_writer"
    BY <1>2 DEF ProducerBegins, flagVars, writerVars
  <2>2. writer = "done" => error_flag
    BY <2>1
  <2>3. QED
    BY <2>1, <2>2
<1>3. CASE ProducerJoins
  <2>1. /\ producer = "joining" /\ producer' = "ending_batch" /\ AllDone
        /\ UNCHANGED <<in_batch, encoder, writer, error_flag>>
        /\ batch' = IF batch = "running" THEN "ending" ELSE batch
    BY <1>3 DEF ProducerJoins, flagVars, writerVars
  <2>2. QED
    BY <2>1
<1>4. CASE ProducerEndsBatch
  <2>1. /\ producer = "ending_batch" /\ producer' = "draining" /\ in_batch = {}
        /\ UNCHANGED <<in_batch, encoder, writer>>
        /\ error_flag' = error_flag \/ error_flag' = TRUE
        /\ \/ batch = "none" /\ batch' = "none"
           \/ batch = "ending" /\ batch' = "ended"
    BY <1>4 DEF ProducerEndsBatch, Carry, FailPipeline, flagVars, writerVars
  <2>2. QED
    BY <2>1
<1>5. CASE \/ ProducerDrains \/ ProducerWraps \/ ProducerJoinsWrap
           \/ \E source_failed \in BOOLEAN : PipelineReturns(source_failed)
  <2>1. /\ producer \notin Begun \cup {"ending_batch"}
        /\ producer' \notin Begun \cup {"ending_batch", "draining"}
        /\ UNCHANGED <<batch, in_batch, encoder, writer, error_flag>>
    BY <1>5 DEF ProducerDrains, ProducerWraps, ProducerJoinsWrap, PipelineReturns,
                flagVars, batchVars, writerVars
  <2>2. QED
    BY <2>1
<1>6. QED
  BY <1>1, <1>2, <1>3, <1>4, <1>5 DEF CallerStep, ProducerRest

LEMMA EncodersKeepControl ==
  ASSUME FramesTyped, ControlInv, NEW e \in Encoders, EncoderThread(e)
  PROVE  ControlInv'
<1> USE SomeEncoder DEF ControlInv, SendersGone, AllDone, Begun
<1>1. /\ encoder[e] # "done" /\ producer # "beginning" /\ batch # "failed"
      /\ \A d \in Encoders \ {e} : encoder'[d] = encoder[d]
      /\ UNCHANGED <<producer, batch, writer>>
      /\ error_flag' = error_flag \/ error_flag' = TRUE
      /\ in_batch' = in_batch \/ batch = "running"
  <2>1. encoder \in [Encoders -> {"looping", "popping", "encoding", "sending", "done"}]
    BY DEF FramesTyped
  <2>2. CASE EncoderLoops(e)
    BY <2>1, <2>2 DEF EncoderLoops, EncoderAt, flagVars, producerVars, batchVars, writerVars
  <2>3. CASE EncoderPops(e)
    BY <2>1, <2>3 DEF EncoderPops, EncoderAt, flagVars, producerVars, batchVars, writerVars
  <2>4. CASE EncoderEncodes(e)
    BY <2>1, <2>4 DEF EncoderEncodes, EncoderAt, Carry, FailPipeline, flagVars,
                      producerVars, batchVars, writerVars
  <2>5. CASE EncoderSends(e)
    BY <2>1, <2>5 DEF EncoderSends, EncoderAt, flagVars, producerVars, batchVars
  <2>6. QED
    BY <2>2, <2>3, <2>4, <2>5 DEF EncoderThread
<1>2. QED
  BY <1>1

LEMMA WriterKeepsControl ==
  ASSUME ControlInv, Writer
  PROVE  ControlInv'
<1> USE SomeEncoder DEF ControlInv, SendersGone, AllDone, Begun
<1>1. UNCHANGED <<producer, batch, in_batch, encoder>>
  BY DEF Writer, WriterReceives, WriterWrites, WriterFeeds, WriterHangsUp,
         producerVars, batchVars, encoderVars
<1>2. \/ writer' # "done" /\ UNCHANGED error_flag
      \/ error_flag' = TRUE
      \/ SendersGone /\ UNCHANGED error_flag
  <2>1. CASE WriterReceives
    BY <2>1 DEF WriterReceives, flagVars
  <2>2. CASE WriterWrites
    BY <2>2 DEF WriterWrites, Carry, FailPipeline, flagVars
  <2>3. CASE WriterFeeds
    BY <2>3 DEF WriterFeeds, Carry, FailPipeline, flagVars
  <2>4. CASE WriterHangsUp
    BY <2>4 DEF WriterHangsUp, flagVars
  <2>5. QED
    BY <2>1, <2>2, <2>3, <2>4 DEF Writer
<1>3. QED
  BY <1>1, <1>2

LEMMA AnyStepKeepsControl ==
  ASSUME FramesTyped, ControlInv, AnyStep
  PROVE  ControlInv'
<1>1. CASE Cancel \/ Wrap \/ UNCHANGED vars
  <2>1. UNCHANGED <<producer, batch, in_batch, encoder, writer, error_flag>>
    BY <1>1 DEF Cancel, Wrap, vars, flagVars, producerVars, batchVars, encoderVars, writerVars
  <2>2. QED
    BY <2>1 DEF ControlInv, SendersGone, AllDone
<1>2. ASSUME NEW f \in in_batch, BatchReturns(f)
      PROVE  ControlInv'
  <2>1. /\ UNCHANGED <<producer, batch, encoder, writer>>
        /\ in_batch # {} /\ (error_flag' = error_flag \/ error_flag' = TRUE)
    BY <1>2 DEF BatchReturns, Carry, FailPipeline, producerVars, encoderVars, flagVars
  <2>2. QED
    BY <2>1 DEF ControlInv, SendersGone, AllDone
<1>3. QED
  BY <1>1, <1>2, CallerKeepsControl, EncodersKeepControl, WriterKeepsControl
  DEF AnyStep, Others, Plugin

LEMMA InitControl == Init => ControlInv
BY DEF Init, ControlInv, Begun

-----------------------------------------------------------------------------
(* Every frame is in one place.                                            *)

Files == [Frames -> {"absent", "partial", "over_cap", "whole"}]

PlacesInv ==
  /\ Apart(FramePlaces) /\ Everywhere(FramePlaces) \subseteq Frames
  /\ Once(input_queue) /\ Once(writer_channel) /\ OnceIn(encoding)
  /\ \A e \in Encoders : encoder[e] \notin {"encoding", "sending"} => encoding[e] = NoFrame
  /\ codestreams \in Files
  /\ writer = "feeding" => codestreams[writing] = "whole"

(* What a step does to the frames on their way: nothing, or the calling    *)
(* thread's push, or a failure or a cancel loses some.                     *)
FramesStay ==
  Everywhere(FramePlaces)' = Everywhere(FramePlaces) /\ UNCHANGED frames_produced
FramePushed ==
  /\ producer = "pushing" /\ producer' = "reading"
  /\ Everywhere(FramePlaces)' = Everywhere(FramePlaces) \cup {in_hand}
  /\ frames_produced' = frames_produced + 1
FramesLost ==
  /\ error_flag' \/ cancel'
  /\ Everywhere(FramePlaces)' \subseteq Everywhere(FramePlaces)
  /\ UNCHANGED frames_produced

WrittenIn(files, at, f) == WholeIn(files) \ (IF at = "feeding" THEN {f} ELSE {})
AtWriter(at, f) == IF at \in {"writing", "feeding"} THEN {f} ELSE {}

LEMMA PlacesAre ==
  ASSUME NEW P, NEW Q, P = FramePlaces, Q = FramePlaces'
  PROVE  /\ P[1] = Elements(input_queue) /\ Q[1] = Elements(input_queue')
         /\ P[2] = HeldIn(encoding) /\ Q[2] = HeldIn(encoding')
         /\ P[3] = in_batch /\ Q[3] = in_batch'
         /\ P[4] = Elements(writer_channel) /\ Q[4] = Elements(writer_channel')
         /\ P[5] = AtWriter(writer, writing) /\ Q[5] = AtWriter(writer', writing')
         /\ P[6] = WrittenIn(codestreams, writer, writing)
         /\ Q[6] = WrittenIn(codestreams', writer', writing')
         /\ DOMAIN P = 1..6 /\ DOMAIN Q = 1..6
BY DEF FramePlaces, Elements, HeldIn, AtWriter, WrittenIn, WholeIn

LEMMA SixPlaces == \A n \in 1..6 : n = 1 \/ n = 2 \/ n = 3 \/ n = 4 \/ n = 5 \/ n = 6
OBVIOUS

LEMMA PlacesUnchanged ==
  ASSUME PlacesInv, UNCHANGED <<input_queue, encoderVars, in_batch, diskVars, writerVars,
                                frames_produced>>
  PROVE  PlacesInv' /\ FramesStay
<1>1. UNCHANGED <<input_queue, encoder, encoding, in_batch, writer_channel, writer,
                  writing, codestreams, frames_produced>>
  BY DEF encoderVars, diskVars, writerVars
<1>2. FramePlaces' = FramePlaces
  BY <1>1 DEF FramePlaces
<1>3. QED
  BY <1>1, <1>2 DEF PlacesInv, FramesStay

LEMMA CallerMovesFrames ==
  ASSUME FramesTyped, PlacesInv, CallerStep,
         producer = "pushing" => in_hand \notin Everywhere(FramePlaces)
  PROVE  PlacesInv' /\ (FramesStay \/ FramePushed)
<1>1. CASE ProducerPushes /\ ~closed
  <2>1. /\ producer = "pushing" /\ producer' = "reading"
        /\ input_queue' = Append(input_queue, in_hand)
        /\ frames_produced' = frames_produced + 1
        /\ UNCHANGED <<encoder, encoding, in_batch, writer_channel, writer, writing,
                       codestreams>>
    BY <1>1 DEF ProducerPushes, encoderVars, batchVars, diskVars, writerVars
  <2>2. PICK P, Q : P = FramePlaces /\ Q = FramePlaces'
    OBVIOUS
  <2>3. in_hand \in Frames /\ input_queue \in Seq(Frames) /\ in_hand \notin Everywhere(P)
    BY <2>1, <2>2 DEF FramesTyped
  <2>4. /\ Elements(input_queue') = Elements(input_queue) \cup {in_hand}
        /\ Once(input_queue) /\ in_hand \notin Elements(input_queue) => Once(input_queue')
    BY <2>1, <2>3, AppendOnce
  <2>5. /\ Q[1] = P[1] \cup {in_hand} /\ P[1] = Elements(input_queue)
        /\ \A n \in 2..6 : Q[n] = P[n]
    <3>1. Q[1] = P[1] \cup {in_hand} /\ P[1] = Elements(input_queue)
      BY <2>2, <2>4, PlacesAre
    <3>2. Q[2] = P[2] /\ Q[3] = P[3] /\ Q[4] = P[4] /\ Q[5] = P[5] /\ Q[6] = P[6]
      BY <2>1, <2>2, PlacesAre
    <3>3. QED
      BY <3>1, <3>2, SixPlaces
  <2>6. Apart(Q) /\ Everywhere(Q) = Everywhere(P) \cup {in_hand}
    BY <2>2, <2>3, <2>5, FrameEnters DEF PlacesInv
  <2>7. Once(input_queue')
    BY <2>3, <2>4, <2>5 DEF PlacesInv, Everywhere
  <2>8. QED
    BY <2>1, <2>2, <2>3, <2>6, <2>7 DEF PlacesInv, FramePushed
<1>2. CASE ~(ProducerPushes /\ ~closed)
  <2>1. UNCHANGED <<input_queue, encoderVars, in_batch, diskVars, writerVars,
                    frames_produced>>
    <3>1. CASE \E f : ProducerTakes(f) \/ SourceEnds(f)
      BY <3>1 DEF ProducerTakes, SourceEnds, queueVars, batchVars
    <3>2. CASE ProducerBegins \/ ProducerStops \/ ProducerJoins \/ ProducerDrains
      BY <3>2 DEF ProducerBegins, ProducerStops, ProducerJoins, ProducerDrains,
                  queueVars, batchVars
    <3>3. CASE ProducerPushes /\ closed
      BY <3>3 DEF ProducerPushes, batchVars
    <3>4. CASE ProducerEndsBatch
      BY <3>4 DEF ProducerEndsBatch, Carry, FailPipeline, queueVars
    <3>5. CASE \/ ProducerWraps \/ ProducerJoinsWrap
               \/ \E source_failed \in BOOLEAN : PipelineReturns(source_failed)
      BY <3>5 DEF ProducerWraps, ProducerJoinsWrap, PipelineReturns, queueVars, batchVars
    <3>6. QED
      BY <1>2, <3>1, <3>2, <3>3, <3>4, <3>5 DEF CallerStep, ProducerRest
  <2>2. QED
    BY <2>1, PlacesUnchanged
<1>3. QED
  BY <1>1, <1>2

LEMMA EncodersMoveFrames ==
  ASSUME FramesTyped, ControlInv, PlacesInv, NEW e \in Encoders, EncoderThread(e)
  PROVE  PlacesInv' /\ (FramesStay \/ FramesLost)
<1>1. PICK P, Q : P = FramePlaces /\ Q = FramePlaces'
  OBVIOUS
<1>2. /\ encoder \in [Encoders -> {"looping", "popping", "encoding", "sending", "done"}]
      /\ encoding \in [Encoders -> Frames \cup {NoFrame}]
      /\ input_queue \in Seq(Frames) /\ writer_channel \in Seq(Frames)
      /\ encoder[e] \in {"encoding", "sending"} => encoding[e] \in Frames
      /\ encoding[e] \in Frames => encoding[e] \in P[2]
  BY <1>1, PlacesAre, NoFrameIsNoFrame DEF FramesTyped, HeldIn
<1>3. /\ Apart(P) /\ Everywhere(P) \subseteq Frames
      /\ Once(input_queue) /\ Once(writer_channel) /\ OnceIn(encoding)
      /\ encoder[e] \notin {"encoding", "sending"} => encoding[e] = NoFrame
      /\ \A d \in Encoders \ {e} : encoder[d] \notin {"encoding", "sending"} => encoding[d] = NoFrame
      /\ codestreams \in Files
      /\ writer = "feeding" => codestreams[writing] = "whole"
  BY <1>1 DEF PlacesInv
<1>4. ASSUME UNCHANGED <<writer, writing, codestreams, frames_produced>>,
             Once(input_queue'), Once(writer_channel'), OnceIn(encoding'),
             \A d \in Encoders : encoder'[d] \notin {"encoding", "sending"}
                                   => encoding'[d] = NoFrame,
             Apart(Q), Everywhere(Q) = Everywhere(P)
                       \/ (error_flag' /\ Everywhere(Q) \subseteq Everywhere(P))
      PROVE  PlacesInv' /\ (FramesStay \/ FramesLost)
  BY <1>1, <1>3, <1>4 DEF PlacesInv, FramesStay, FramesLost
<1>5. CASE EncoderLoops(e) \/ (EncoderPops(e) /\ input_queue = <<>>)
  <2>1. /\ encoder' = [encoder EXCEPT ![e] = "popping"] \/ encoder' = [encoder EXCEPT ![e] = "done"]
        /\ encoder[e] \in {"looping", "popping"}
        /\ UNCHANGED <<input_queue, encoding, in_batch, writer_channel, writer, writing,
                       codestreams, frames_produced>>
    BY <1>5 DEF EncoderLoops, EncoderPops, EncoderAt, producerVars, batchVars, diskVars,
                writerVars
  <2>2. FramePlaces' = FramePlaces
    BY <2>1 DEF FramePlaces
  <2>3. QED
    BY <1>1, <1>2, <1>3, <1>4, <2>1, <2>2
<1>6. CASE EncoderPops(e) /\ input_queue # <<>>
  <2> DEFINE f == Head(input_queue)
  <2>1. /\ encoder' = [encoder EXCEPT ![e] = "encoding"] /\ encoder[e] = "popping"
        /\ encoding' = [encoding EXCEPT ![e] = f]
        /\ input_queue' = Tail(input_queue)
        /\ UNCHANGED <<in_batch, writer_channel, writer, writing, codestreams, frames_produced>>
    BY <1>6 DEF EncoderPops, EncoderAt, producerVars, batchVars, diskVars, writerVars
  <2>2. /\ f \in Elements(input_queue)
        /\ Elements(input_queue') = Elements(input_queue) \ {f} /\ Once(input_queue')
    BY <1>2, <1>3, <1>6, <2>1, TailOnce
  <2>3. f \in Frames
    BY <1>2, <1>6, HeadTailProperties
  <2> HIDE DEF f
  <2>4. f \in P[1] /\ Q[1] = P[1] \ {f} /\ P[2] = HeldIn(encoding)
    BY <1>1, <2>2, PlacesAre
  <2>5. f \notin HeldIn(encoding)
    BY <1>3, <2>4 DEF Apart
  <2>6. HeldIn(encoding') = HeldIn(encoding) \cup {f} /\ OnceIn(encoding')
    BY <1>2, <1>3, <2>1, <2>3, <2>5, TakesFrame
  <2>7. \A n \in 1..6 : n # 1 /\ n # 2 => Q[n] = P[n]
    <3>1. Q[3] = P[3] /\ Q[4] = P[4] /\ Q[5] = P[5] /\ Q[6] = P[6]
      BY <1>1, <2>1, PlacesAre
    <3>2. QED
      BY <3>1, SixPlaces
  <2>8. Q[2] = P[2] \cup {f}
    BY <1>1, <2>6, PlacesAre
  <2>9. Apart(Q) /\ Everywhere(Q) = Everywhere(P)
    BY <1>3, <2>4, <2>7, <2>8, FrameMoves
  <2>10. \A d \in Encoders : encoder'[d] \notin {"encoding", "sending"}
                               => encoding'[d] = NoFrame
    BY <1>2, <1>3, <2>1
  <2>11. QED
    BY <1>3, <1>4, <2>1, <2>2, <2>6, <2>9, <2>10
<1>7. CASE EncoderEncodes(e)
  <2>1. /\ encoder[e] = "encoding" /\ UNCHANGED <<input_queue, writer_channel, writer,
                                        writing, codestreams, frames_produced>>
    BY <1>7 DEF EncoderEncodes, EncoderAt, Carry, FailPipeline, producerVars, queueVars,
                diskVars, writerVars
  <2>2. CASE encoder' = [encoder EXCEPT ![e] = "sending"] /\ UNCHANGED <<encoding, in_batch>>
    <3>1. FramePlaces' = FramePlaces
      BY <2>1, <2>2 DEF FramePlaces
    <3>2. QED
      BY <1>1, <1>2, <1>3, <1>4, <2>1, <2>2, <3>1
  <2>3. CASE /\ encoder' = [encoder EXCEPT ![e] = "looping"]
             /\ in_batch' = in_batch \cup {encoding[e]}
             /\ encoding' = [encoding EXCEPT ![e] = NoFrame]
    <3>1. HeldIn(encoding') = HeldIn(encoding) \ {encoding[e]} /\ OnceIn(encoding')
      BY <1>2, <1>3, <2>3, GivesFrame
    <3>2. Q[2] = P[2] \ {encoding[e]} /\ Q[3] = P[3] \cup {encoding[e]}
      BY <1>1, <2>3, <3>1, PlacesAre
    <3>3. \A n \in 1..6 : n # 2 /\ n # 3 => Q[n] = P[n]
      <4>1. Q[1] = P[1] /\ Q[4] = P[4] /\ Q[5] = P[5] /\ Q[6] = P[6]
        BY <1>1, <2>1, PlacesAre
      <4>2. QED
        BY <4>1, SixPlaces
    <3>4. encoding[e] \in P[2]
      BY <1>2, <2>1
    <3>5. Apart(Q) /\ Everywhere(Q) = Everywhere(P)
      BY <1>3, <3>2, <3>3, <3>4, FrameMoves
    <3>6. QED
      BY <1>2, <1>3, <1>4, <2>1, <2>3, <3>1, <3>5
  <2>4. CASE /\ encoder' = [encoder EXCEPT ![e] = "done"] /\ error_flag' = TRUE
             /\ encoding' = [encoding EXCEPT ![e] = NoFrame]
             /\ UNCHANGED in_batch
    <3>1. HeldIn(encoding') = HeldIn(encoding) \ {encoding[e]} /\ OnceIn(encoding')
      BY <1>2, <1>3, <2>4, GivesFrame
    <3>2. Q[1] = P[1] /\ Q[2] \subseteq P[2] /\ Q[3] = P[3] /\ Q[4] = P[4]
          /\ Q[5] = P[5] /\ Q[6] = P[6]
      BY <1>1, <2>1, <2>4, <3>1, PlacesAre
    <3>3. Apart(Q) /\ Everywhere(Q) \subseteq Everywhere(P)
      BY <1>3, <3>2, SixPlaces, FramesLeave
    <3>4. QED
      BY <1>2, <1>3, <1>4, <2>1, <2>4, <3>1, <3>3
  <2>5. QED
    BY <1>7, <2>2, <2>3, <2>4 DEF EncoderEncodes, EncoderAt, FailPipeline
<1>8. CASE EncoderSends(e)
  <2>1. /\ encoder[e] = "sending" /\ encoding' = [encoding EXCEPT ![e] = NoFrame]
        /\ encoder' \in {[encoder EXCEPT ![e] = "looping"], [encoder EXCEPT ![e] = "done"]}
        /\ UNCHANGED <<input_queue, in_batch, writer, writing, codestreams, frames_produced,
                       error_flag>>
    BY <1>8 DEF EncoderSends, EncoderAt, flagVars, producerVars, batchVars, diskVars
  <2>2. HeldIn(encoding') = HeldIn(encoding) \ {encoding[e]} /\ OnceIn(encoding')
    BY <1>2, <1>3, <2>1, GivesFrame
  <2>3. /\ \A d \in Encoders : encoder'[d] \notin {"encoding", "sending"}
                                 => encoding'[d] = NoFrame
        /\ encoding[e] \in Frames /\ encoding[e] \in P[2] /\ Q[2] = P[2] \ {encoding[e]}
    BY <1>1, <1>2, <1>3, <2>1, <2>2, PlacesAre
  <2>4. Q[1] = P[1] /\ Q[3] = P[3] /\ Q[5] = P[5] /\ Q[6] = P[6] /\ P[4] = Elements(writer_channel)
        /\ Q[4] = Elements(writer_channel')
    BY <1>1, <2>1, PlacesAre
  <2>5. CASE writer_channel' = Append(writer_channel, encoding[e])
    <3>1. encoding[e] \notin P[4]
      BY <1>3, <2>3 DEF Apart
    <3>2. Q[4] = P[4] \cup {encoding[e]} /\ Once(writer_channel')
      BY <1>2, <1>3, <2>3, <2>4, <2>5, <3>1, AppendOnce
    <3>3. Apart(Q) /\ Everywhere(Q) = Everywhere(P)
      BY <1>3, <2>3, <2>4, <3>2, SixPlaces, FrameMoves
    <3>4. QED
      BY <1>3, <1>4, <2>1, <2>2, <2>3, <3>2, <3>3
  <2>6. CASE writer = "done" /\ UNCHANGED writer_channel
    <3>1. error_flag
      BY <2>1, <2>6, SomeEncoder DEF ControlInv, SendersGone
    <3>2. Apart(Q) /\ Everywhere(Q) \subseteq Everywhere(P)
      BY <1>3, <2>3, <2>4, <2>6, SixPlaces, FramesLeave
    <3>3. QED
      BY <1>3, <1>4, <2>1, <2>2, <2>3, <2>6, <3>1, <3>2
  <2>7. QED
    BY <1>8, <2>5, <2>6 DEF EncoderSends, SendsToWriter
<1>9. QED
  BY <1>5, <1>6, <1>7, <1>8 DEF EncoderThread, EncoderPops

LEMMA NothingSent == Elements(<<>>) = {} /\ Once(<<>>)
BY DEF Elements, Once

LEMMA SamePlaces ==
  ASSUME NEW P, NEW Q, Apart(P), \A n \in 1..6 : Q[n] = P[n]
  PROVE  Apart(Q) /\ Everywhere(Q) = Everywhere(P)
BY DEF Apart, Everywhere

LEMMA WriterMovesFrames ==
  ASSUME FramesTyped, PlacesInv, Writer
  PROVE  PlacesInv' /\ (FramesStay \/ FramesLost)
<1>1. PICK P, Q : P = FramePlaces /\ Q = FramePlaces'
  OBVIOUS
<1>2. /\ writer_channel \in Seq(Frames)
      /\ writer \in {"writing", "feeding"} => writing \in Frames
  BY DEF FramesTyped
<1>3. /\ Apart(P) /\ Everywhere(P) \subseteq Frames
      /\ Once(input_queue) /\ Once(writer_channel) /\ OnceIn(encoding)
      /\ \A d \in Encoders : encoder[d] \notin {"encoding", "sending"} => encoding[d] = NoFrame
      /\ codestreams \in Files
      /\ writer = "feeding" => codestreams[writing] = "whole"
  BY <1>1 DEF PlacesInv
<1>4. ASSUME UNCHANGED <<input_queue, encoder, encoding, frames_produced>>,
             Once(writer_channel'), codestreams' \in Files,
             writer' = "feeding" => codestreams'[writing'] = "whole",
             Apart(Q), Everywhere(Q) = Everywhere(P)
                       \/ (error_flag' /\ Everywhere(Q) \subseteq Everywhere(P))
      PROVE  PlacesInv' /\ (FramesStay \/ FramesLost)
  BY <1>1, <1>3, <1>4 DEF PlacesInv, FramesStay, FramesLost
<1>5. /\ UNCHANGED <<input_queue, encoder, encoding, in_batch, frames_produced>>
      /\ Q[1] = P[1] /\ Q[2] = P[2] /\ Q[3] = P[3]
  <2>1. UNCHANGED <<input_queue, encoder, encoding, in_batch, frames_produced>>
    BY DEF Writer, WriterReceives, WriterWrites, WriterFeeds, WriterHangsUp, Carry,
           FailPipeline, producerVars, queueVars, encoderVars, batchVars
  <2>2. QED
    BY <1>1, <2>1, PlacesAre
<1>6. /\ P[4] = Elements(writer_channel) /\ Q[4] = Elements(writer_channel')
      /\ P[5] = AtWriter(writer, writing) /\ Q[5] = AtWriter(writer', writing')
      /\ P[6] = WrittenIn(codestreams, writer, writing)
      /\ Q[6] = WrittenIn(codestreams', writer', writing')
  BY <1>1, PlacesAre
<1>7. \A m, n \in 1..6 : m # n => P[m] \cap P[n] = {}
  BY <1>3 DEF Apart
<1>8. CASE WriterReceives
  <2> DEFINE f == Head(writer_channel)
  <2>1. /\ writer = "receiving" /\ writer' = "writing" /\ writing' = f
        /\ writer_channel # <<>> /\ writer_channel' = Tail(writer_channel)
        /\ codestreams' = [codestreams EXCEPT ![f] = "partial"]
    BY <1>8 DEF WriterReceives
  <2>2. /\ f \in Elements(writer_channel) /\ Once(writer_channel')
        /\ Elements(writer_channel') = Elements(writer_channel) \ {f}
    BY <1>2, <1>3, <2>1, TailOnce
  <2>3. f \in Frames
    BY <1>2, <2>1, HeadTailProperties
  <2> HIDE DEF f
  <2>4. f \in P[4] /\ Q[4] = P[4] \ {f} /\ f \notin P[6]
    BY <1>6, <1>7, <2>2
  <2>5. P[5] = {} /\ Q[5] = {f} /\ P[6] = WholeIn(codestreams) /\ Q[6] = WholeIn(codestreams')
    BY <1>6, <2>1 DEF AtWriter, WrittenIn
  <2>6. codestreams' \in Files /\ WholeIn(codestreams') = WholeIn(codestreams)
    BY <1>3, <2>1, <2>3, <2>4, <2>5 DEF Files, WholeIn
  <2>7. \A n \in 1..6 : n # 4 /\ n # 5 => Q[n] = P[n]
    BY <1>5, <2>5, <2>6, SixPlaces
  <2>8. Q[5] = P[5] \cup {f}
    BY <2>5
  <2>9. Apart(Q) /\ Everywhere(Q) = Everywhere(P)
    BY <1>3, <2>4, <2>7, <2>8, FrameMoves
  <2>10. QED
    BY <1>4, <1>5, <2>1, <2>2, <2>6, <2>9
<1>9. CASE WriterWrites /\ frames_encoded' = frames_encoded + 1
           /\ codestreams' = [codestreams EXCEPT ![writing] = "whole"]
           /\ writer' \in {"feeding", "receiving"} /\ UNCHANGED writer_channel
  <2>1. writer = "writing" /\ UNCHANGED writing /\ writing \in Frames
    BY <1>2, <1>9 DEF WriterWrites
  <2>2. P[5] = {writing} /\ P[6] = WholeIn(codestreams) /\ Q[4] = P[4]
    BY <1>6, <1>9, <2>1 DEF AtWriter, WrittenIn
  <2>3. writing \notin WholeIn(codestreams)
    BY <1>7, <2>2
  <2>4. /\ codestreams' \in Files /\ codestreams'[writing] = "whole"
        /\ WholeIn(codestreams') = WholeIn(codestreams) \cup {writing}
    BY <1>3, <1>9, <2>1 DEF Files, WholeIn
  <2>5. CASE writer' = "feeding"
    <3>1. Q[5] = P[5] /\ Q[6] = P[6]
      BY <1>6, <2>1, <2>2, <2>3, <2>4, <2>5 DEF AtWriter, WrittenIn
    <3>2. Apart(Q) /\ Everywhere(Q) = Everywhere(P)
      BY <1>3, <1>5, <2>2, <3>1, SixPlaces, SamePlaces
    <3>3. QED
      BY <1>3, <1>4, <1>5, <1>9, <2>1, <2>4, <3>2
  <2>6. CASE writer' = "receiving"
    <3>1. Q[5] = P[5] \ {writing} /\ Q[6] = P[6] \cup {writing} /\ writing \in P[5]
      BY <1>6, <2>1, <2>2, <2>4, <2>6 DEF AtWriter, WrittenIn
    <3>2. \A n \in 1..6 : n # 5 /\ n # 6 => Q[n] = P[n]
      BY <1>5, <2>2, SixPlaces
    <3>3. Apart(Q) /\ Everywhere(Q) = Everywhere(P)
      BY <1>3, <3>1, <3>2, FrameMoves
    <3>4. QED
      BY <1>3, <1>4, <1>5, <1>9, <2>4, <2>6, <3>3
  <2>7. QED
    BY <1>9, <2>5, <2>6
<1>10. CASE WriterWrites /\ FailPipeline /\ WriterLeaves
            /\ \E left \in {"partial", "over_cap"} :
                 codestreams' = [codestreams EXCEPT ![writing] = left]
  <2>1. /\ writer = "writing" /\ UNCHANGED writing /\ writing \in Frames
        /\ writer' = "done" /\ writer_channel' = <<>> /\ error_flag' = TRUE
    BY <1>2, <1>10 DEF WriterWrites, WriterLeaves, FailPipeline
  <2>2. codestreams' \in Files /\ WholeIn(codestreams') \subseteq WholeIn(codestreams)
    BY <1>3, <1>10, <2>1 DEF Files, WholeIn
  <2>3. Q[4] \subseteq P[4] /\ Q[5] \subseteq P[5] /\ Q[6] \subseteq P[6]
    BY <1>6, <2>1, <2>2, NothingSent DEF AtWriter, WrittenIn
  <2>4. Apart(Q) /\ Everywhere(Q) \subseteq Everywhere(P)
    BY <1>3, <1>5, <2>3, SixPlaces, FramesLeave
  <2>5. QED
    BY <1>4, <1>5, <2>1, <2>2, <2>4, NothingSent
<1>11. CASE WriterFeeds
  <2>1. /\ writer = "feeding" /\ UNCHANGED <<writing, codestreams>> /\ writing \in Frames
        /\ \/ writer' = "receiving" /\ UNCHANGED writer_channel
           \/ writer' = "done" /\ writer_channel' = <<>> /\ error_flag' = TRUE
    BY <1>2, <1>11 DEF WriterFeeds, WriterLeaves, FailPipeline, diskVars
  <2>2. writing \in WholeIn(codestreams)
    BY <1>3, <2>1 DEF WholeIn
  <2>3. /\ P[5] = {writing} /\ Q[5] = {} /\ Q[6] = P[6] \cup {writing}
    BY <1>6, <2>1, <2>2 DEF AtWriter, WrittenIn
  <2>4. PICK R : R = [n \in 1..6 |-> IF n = 4 THEN P[4] ELSE Q[n]]
    OBVIOUS
  <2>5. /\ R[5] = P[5] \ {writing} /\ R[6] = P[6] \cup {writing} /\ writing \in P[5]
        /\ \A n \in 1..6 : n # 5 /\ n # 6 => R[n] = P[n]
    BY <1>5, <2>3, <2>4, SixPlaces
  <2>6. Apart(R) /\ Everywhere(R) = Everywhere(P)
    BY <1>3, <2>5, FrameMoves
  <2>7. CASE writer' = "receiving" /\ UNCHANGED writer_channel
    <3>1. \A n \in 1..6 : Q[n] = R[n]
      BY <1>6, <2>4, <2>7
    <3>2. Apart(Q) /\ Everywhere(Q) = Everywhere(P)
      BY <2>6, <3>1, SamePlaces
    <3>3. QED
      BY <1>3, <1>4, <1>5, <2>1, <2>7, <3>2
  <2>8. CASE writer' = "done" /\ writer_channel' = <<>> /\ error_flag' = TRUE
    <3>1. \A n \in 1..6 : Q[n] \subseteq R[n]
      BY <1>6, <2>4, <2>8, NothingSent
    <3>2. Apart(Q) /\ Everywhere(Q) \subseteq Everywhere(P)
      BY <2>6, <3>1, FramesLeave
    <3>3. QED
      BY <1>3, <1>4, <1>5, <2>1, <2>8, <3>2, NothingSent
  <2>9. QED
    BY <2>1, <2>7, <2>8
<1>12. CASE WriterHangsUp
  <2>1. /\ writer = "receiving" /\ writer' = "done" /\ UNCHANGED <<writing, codestreams>>
        /\ UNCHANGED writer_channel
    BY <1>12 DEF WriterHangsUp, WriterLeaves, diskVars
  <2>2. Q[4] = P[4] /\ Q[5] = P[5] /\ Q[6] = P[6]
    BY <1>6, <2>1 DEF AtWriter, WrittenIn
  <2>3. Apart(Q) /\ Everywhere(Q) = Everywhere(P)
    BY <1>3, <1>5, <2>2, SixPlaces, SamePlaces
  <2>4. QED
    BY <1>3, <1>4, <1>5, <2>1, <2>3
<1>13. WriterWrites => \/ /\ codestreams' = [codestreams EXCEPT ![writing] = "whole"]
                          /\ frames_encoded' = frames_encoded + 1
                          /\ writer' \in {"feeding", "receiving"} /\ UNCHANGED writer_channel
                       \/ /\ FailPipeline /\ WriterLeaves
                          /\ \E left \in {"partial", "over_cap"} :
                               codestreams' = [codestreams EXCEPT ![writing] = left]
  BY DEF WriterWrites
<1>14. QED
  BY <1>8, <1>9, <1>10, <1>11, <1>12, <1>13 DEF Writer

LEMMA PluginMovesFrames ==
  ASSUME FramesTyped, ControlInv, PlacesInv, NEW f \in in_batch, BatchReturns(f)
  PROVE  PlacesInv' /\ (FramesStay \/ FramesLost)
<1>1. PICK P, Q : P = FramePlaces /\ Q = FramePlaces'
  OBVIOUS
<1>2. /\ UNCHANGED <<input_queue, encoder, encoding, writer, writing, codestreams,
                     frames_produced>>
      /\ in_batch' = in_batch \ {f}
      /\ \/ writer_channel' = Append(writer_channel, f)
         \/ writer = "done" /\ UNCHANGED <<writer_channel, error_flag>>
         \/ error_flag' = TRUE /\ UNCHANGED writer_channel
  BY DEF BatchReturns, SendsToWriter, Carry, FailPipeline, producerVars, queueVars,
         encoderVars, diskVars, flagVars
<1>3. /\ Apart(P) /\ Everywhere(P) \subseteq Frames
      /\ Once(input_queue) /\ Once(writer_channel) /\ OnceIn(encoding)
      /\ f \in Frames /\ writer_channel \in Seq(Frames)
  BY <1>1 DEF PlacesInv, FramesTyped
<1>4. ASSUME Once(writer_channel'),
             Apart(Q), Everywhere(Q) = Everywhere(P)
                       \/ (error_flag' /\ Everywhere(Q) \subseteq Everywhere(P))
      PROVE  PlacesInv' /\ (FramesStay \/ FramesLost)
  BY <1>1, <1>2, <1>3, <1>4 DEF PlacesInv, FramesStay, FramesLost
<1>5. /\ Q[1] = P[1] /\ Q[2] = P[2] /\ Q[5] = P[5] /\ Q[6] = P[6]
      /\ P[4] = Elements(writer_channel) /\ Q[4] = Elements(writer_channel')
      /\ f \in P[3] /\ Q[3] = P[3] \ {f}
  BY <1>1, <1>2, PlacesAre
<1>6. CASE writer_channel' = Append(writer_channel, f)
  <2>1. f \notin P[4]
    BY <1>3, <1>5 DEF Apart
  <2>2. Q[4] = P[4] \cup {f} /\ Once(writer_channel')
    BY <1>3, <1>5, <1>6, <2>1, AppendOnce
  <2>3. Apart(Q) /\ Everywhere(Q) = Everywhere(P)
    BY <1>3, <1>5, <2>2, SixPlaces, FrameMoves
  <2>4. QED
    BY <1>4, <2>2, <2>3
<1>7. CASE error_flag' /\ UNCHANGED writer_channel
  <2>1. Apart(Q) /\ Everywhere(Q) \subseteq Everywhere(P)
    BY <1>3, <1>5, <1>7, SixPlaces, FramesLeave
  <2>2. QED
    BY <1>3, <1>4, <1>7, <2>1
<1>8. CASE writer = "done" /\ UNCHANGED <<writer_channel, error_flag>>
  <2>1. in_batch # {} => error_flag
    BY <1>8 DEF ControlInv, SendersGone
  <2>2. QED
    BY <1>7, <1>8, <2>1
<1>9. QED
  BY <1>2, <1>6, <1>7, <1>8

(* No step puts a frame in two places, and only a failure or a cancel      *)
(* loses one.                                                              *)
LEMMA AnyStepMovesFrames ==
  ASSUME FramesTyped, ControlInv, PlacesInv, AnyStep,
         producer = "pushing" => in_hand \notin Everywhere(FramePlaces)
  PROVE  PlacesInv' /\ (FramesStay \/ FramesLost \/ (CallerStep /\ FramePushed))
<1>1. CASE Cancel \/ Wrap \/ UNCHANGED vars
  <2>1. UNCHANGED <<input_queue, encoderVars, in_batch, diskVars, writerVars,
                    frames_produced>>
    BY <1>1 DEF Cancel, Wrap, vars, producerVars, queueVars, batchVars
  <2>2. QED
    BY <2>1, PlacesUnchanged
<1>2. QED
  BY <1>1, CallerMovesFrames, EncodersMoveFrames, WriterMovesFrames, PluginMovesFrames
  DEF AnyStep, Others, Plugin

-----------------------------------------------------------------------------
(* What the encoder counts, and what a success rests on.                   *)

EncodedInv == frames_encoded = Cardinality(WholeIn(codestreams))

LEMMA FramesAreFinite ==
  \A T \in SUBSET Frames :
    IsFiniteSet(T) /\ Cardinality(T) \in Nat /\ Cardinality(T) <= FrameCount
<1>1. /\ IsFiniteSet(Frames) /\ Cardinality(Frames) = FrameCount
  BY NoFrameIsNoFrame, FS_Interval DEF Frames
<1>2. ASSUME NEW T \in SUBSET Frames
      PROVE  IsFiniteSet(T) /\ Cardinality(T) \in Nat /\ Cardinality(T) <= FrameCount
  <2>1. IsFiniteSet(T) /\ Cardinality(T) <= FrameCount
    BY <1>1, FS_Subset
  <2>2. QED
    BY <2>1, FS_CardinalityType
<1>3. QED
  BY <1>2

LEMMA AnyStepCounts ==
  ASSUME FramesTyped, PlacesInv, EncodedInv, AnyStep
  PROVE  EncodedInv' /\ frames_encoded' >= frames_encoded
<1>1. CASE UNCHANGED diskVars
  BY <1>1 DEF EncodedInv, diskVars, FramesTyped
<1>2. PICK P : P = FramePlaces
  OBVIOUS
<1>3. /\ P[4] = Elements(writer_channel) /\ P[5] = AtWriter(writer, writing)
      /\ P[6] = WrittenIn(codestreams, writer, writing)
      /\ P[4] \cap P[6] = {} /\ P[5] \cap P[6] = {}
  BY <1>2 DEF PlacesInv, Apart, FramePlaces, Elements, AtWriter, WrittenIn, WholeIn
<1>4. codestreams \in Files /\ IsFiniteSet(WholeIn(codestreams))
  BY FramesAreFinite DEF PlacesInv, WholeIn
<1>5. CASE WriterReceives
  <2> DEFINE f == Head(writer_channel)
  <2>1. /\ writer = "receiving" /\ codestreams' = [codestreams EXCEPT ![f] = "partial"]
        /\ writer_channel # <<>> /\ UNCHANGED frames_encoded
    BY <1>5 DEF WriterReceives
  <2>2. f \in Elements(writer_channel)
    BY <2>1, TailOnce DEF PlacesInv, FramesTyped
  <2>3. P[6] = WholeIn(codestreams)
    BY <1>3, <2>1 DEF WrittenIn
  <2>4. f \notin WholeIn(codestreams)
    BY <1>3, <2>2, <2>3
  <2> HIDE DEF f
  <2>5. WholeIn(codestreams') = WholeIn(codestreams)
    BY <1>4, <2>1, <2>4 DEF Files, WholeIn
  <2>6. QED
    BY <2>1, <2>5 DEF EncodedInv, FramesTyped
<1>6. CASE WriterWrites
  <2>1. writer = "writing" /\ writing \in Frames
    BY <1>6 DEF WriterWrites, FramesTyped
  <2>2. writing \notin WholeIn(codestreams)
    BY <1>3, <2>1 DEF AtWriter, WrittenIn
  <2>3. CASE /\ codestreams' = [codestreams EXCEPT ![writing] = "whole"]
             /\ frames_encoded' = frames_encoded + 1
    <3>1. WholeIn(codestreams') = WholeIn(codestreams) \cup {writing}
      BY <1>4, <2>1, <2>3 DEF Files, WholeIn
    <3>2. Cardinality(WholeIn(codestreams) \cup {writing}) = Cardinality(WholeIn(codestreams)) + 1
      BY <1>4, <2>2, FS_AddElement
    <3>3. EncodedInv'
      BY <2>3, <3>1, <3>2 DEF EncodedInv
    <3>4. frames_encoded' >= frames_encoded
      BY <2>3 DEF FramesTyped
    <3>5. QED
      BY <3>3, <3>4
  <2>4. CASE /\ \E left \in {"partial", "over_cap"} :
                  codestreams' = [codestreams EXCEPT ![writing] = left]
             /\ UNCHANGED frames_encoded
    <3>1. WholeIn(codestreams') = WholeIn(codestreams)
      BY <1>4, <2>1, <2>2, <2>4 DEF Files, WholeIn
    <3>2. QED
      BY <2>4, <3>1 DEF EncodedInv, FramesTyped
  <2>5. QED
    BY <1>6, <2>3, <2>4 DEF WriterWrites
<1>7. CASE WriterFeeds \/ WriterHangsUp
  BY <1>1, <1>7 DEF WriterFeeds, WriterHangsUp
<1>8. CASE CallerStep
  BY <1>1, <1>8 DEF CallerStep, ProducerRest, ProducerTakes, SourceEnds, PipelineReturns,
     ProducerBegins, ProducerStops, ProducerPushes, ProducerJoins, ProducerEndsBatch,
     ProducerDrains, ProducerWraps, ProducerJoinsWrap
<1>9. ASSUME NEW e \in Encoders, EncoderThread(e)
      PROVE  UNCHANGED diskVars
  BY <1>9 DEF EncoderThread, EncoderLoops, EncoderPops, EncoderEncodes, EncoderSends
<1>10. CASE Cancel \/ Wrap \/ Plugin \/ UNCHANGED vars
  BY <1>1, <1>10 DEF Cancel, Wrap, Plugin, BatchReturns, vars
<1>11. QED
  BY <1>1, <1>5, <1>6, <1>7, <1>8, <1>9, <1>10 DEF AnyStep, Others, Writer

(* No thread is left that could still fail, and the writer has counted     *)
(* every frame of the run.                                                 *)
Settled ==
  /\ ~error_flag /\ frames_encoded >= frames_produced
  /\ writer = "done" /\ batch \in {"none", "ended"} /\ AllDone

Succeeding == producer \in {"wrapping", "finishing"} \/ result = "ok"

(* The wrap is asked for as many frames as the encoder has counted, and    *)
(* publishes no other number of them.                                      *)
AskedFor(n) ==
  /\ \A i \in 1..Len(wrap_channel) :
       wrap_channel[i].kind = "finalize" => wrap_channel[i].count = n
  /\ wrap \in {"finishing", "renaming", "finished"} => expected_frames = n

SuccessInv ==
  /\ producer = "joining_writer" /\ ~error_flag /\ ~cancel /\ batch # "failed"
       => frames_encoded >= frames_produced
  /\ Succeeding => Settled
  /\ producer = "finishing" \/ result = "ok" => AskedFor(frames_encoded)
  /\ wrap \in {"renaming", "finished"} => Len(frames_written) = expected_frames

\* A flag that is up stays up.
LEMMA FlagsStay == AnyStep => (error_flag => error_flag') /\ (cancel => cancel')
<1> SUFFICES ASSUME AnyStep PROVE (error_flag => error_flag') /\ (cancel => cancel')
  OBVIOUS
<1>1. CASE CallerStep
  BY <1>1 DEF CallerStep, ProducerRest, ProducerTakes, SourceEnds, PipelineReturns,
     ProducerBegins, ProducerStops, ProducerPushes, ProducerJoins, ProducerEndsBatch,
     ProducerDrains, ProducerWraps, ProducerJoinsWrap, Carry, FailPipeline, flagVars
<1>2. ASSUME NEW e \in Encoders, EncoderThread(e)
      PROVE  (error_flag => error_flag') /\ (cancel => cancel')
  BY <1>2 DEF EncoderThread, EncoderLoops, EncoderPops, EncoderEncodes, EncoderSends,
              Carry, FailPipeline, flagVars
<1>3. CASE Writer
  BY <1>3 DEF Writer, WriterReceives, WriterWrites, WriterFeeds, WriterHangsUp,
              Carry, FailPipeline, flagVars
<1>4. CASE Cancel \/ Wrap \/ Plugin \/ UNCHANGED vars
  BY <1>4 DEF Cancel, Wrap, Plugin, BatchReturns, vars, Carry, FailPipeline, flagVars
<1>5. QED
  BY <1>1, <1>2, <1>3, <1>4 DEF AnyStep, Others

LEMMA CallerKeepsSuccess ==
  ASSUME FramesTyped, ControlInv, FinishInv, SuccessInv, CallerStep
  PROVE  SuccessInv'
<1>1. CASE \/ \E f : ProducerTakes(f) \/ SourceEnds(f)
           \/ ProducerBegins \/ ProducerStops \/ ProducerPushes
           \/ ProducerJoins \/ ProducerEndsBatch
  <2>1. /\ producer \in Begun \cup {"ending_batch"} /\ ~(result = "ok")
        /\ producer' \in Begun \cup {"ending_batch", "draining", "joining_writer"}
        /\ producer' = "joining_writer" => batch' = "failed"
        /\ UNCHANGED <<result, wrap, frames_written, expected_frames>>
    BY <1>1 DEF ProducerTakes, SourceEnds, ProducerBegins, ProducerStops, ProducerPushes,
       ProducerJoins, ProducerEndsBatch, wrapVars, fileVars, Begun, FinishInv, NotAskedToFinish
  <2>2. QED
    BY <2>1 DEF SuccessInv, Succeeding, Begun
<1>2. CASE ProducerDrains
  <2>1. /\ producer = "draining" /\ producer' = "joining_writer" /\ ~(result = "ok")
        /\ frames_encoded >= frames_produced \/ error_flag \/ cancel
        /\ UNCHANGED <<result, wrap, frames_written, expected_frames, frames_encoded,
                       frames_produced, error_flag, cancel>>
    BY <1>2 DEF ProducerDrains, flagVars, wrapVars, fileVars, diskVars, FinishInv,
                NotAskedToFinish
  <2>2. QED
    BY <2>1 DEF SuccessInv, Succeeding
<1>3. CASE \E source_failed \in BOOLEAN : PipelineReturns(source_failed)
  <2>1. /\ producer = "joining_writer" /\ writer = "done" /\ ~(result = "ok")
        /\ producer' \in {"abandoning", "wrapping"}
        /\ result' \in {result, "cancelled", "error"}
        /\ producer' = "wrapping" => batch # "failed" /\ ~cancel /\ ~error_flag
        /\ UNCHANGED <<wrap, frames_written, expected_frames, frames_encoded,
                       frames_produced, error_flag, writer, batch, encoder>>
    BY <1>3 DEF PipelineReturns, OwnerDrops, flagVars, wrapVars, fileVars, diskVars,
                writerVars, batchVars, encoderVars, FinishInv, NotAskedToFinish
  <2>2. batch \in {"none", "failed", "ended"} /\ (AllDone \/ batch = "failed")
    BY <2>1 DEF ControlInv, Begun
  <2>3. QED
    BY <2>1, <2>2 DEF SuccessInv, Succeeding, Settled, AllDone
<1>4. CASE ProducerWraps
  <2>1. /\ producer = "wrapping" /\ NotAskedToFinish /\ Settled
        /\ UNCHANGED <<wrap, frames_written, expected_frames, frames_encoded,
                       frames_produced, error_flag, writer, batch, encoder>>
    BY <1>4 DEF ProducerWraps, OwnerDrops, OwnerFinalizes, flagVars, wrapVars, fileVars,
                diskVars, writerVars, batchVars, encoderVars, FinishInv, SuccessInv, Succeeding
  <2>2. Settled'
    BY <2>1 DEF Settled, AllDone
  <2>3. CASE producer' = "dropping" /\ result' = "cancelled"
    BY <2>1, <2>3 DEF SuccessInv, Succeeding
  <2>4. CASE producer' = "returned" /\ result' = "ok" /\ UNCHANGED wrapVars
    <3>1. AskedFor(frames_encoded)'
      BY <2>1, <2>4 DEF AskedFor, NotAskedToFinish, wrapVars
    <3>2. QED
      BY <2>1, <2>2, <2>4, <3>1 DEF SuccessInv, Succeeding
  <2>5. CASE producer' = "finishing" /\ UNCHANGED result /\ OwnerFinalizes(frames_encoded)
    <3>1. CASE UNCHANGED wrap_channel
      <4>1. AskedFor(frames_encoded)'
        BY <2>1, <3>1 DEF AskedFor, NotAskedToFinish
      <4>2. QED
        BY <2>1, <2>2, <2>5, <4>1 DEF SuccessInv, Succeeding
    <3>2. CASE wrap_channel' = Append(wrap_channel, FinalizeMessage(frames_encoded))
      <4>1. wrap_channel \in Seq(Messages) /\ FinalizeMessage(frames_encoded) \in Messages
        BY DEF FramesTyped, FinalizeMessage, Messages
      <4>2. /\ Len(wrap_channel') = Len(wrap_channel) + 1 /\ Len(wrap_channel) \in Nat
            /\ \A i \in 1..Len(wrap_channel) : wrap_channel'[i] = wrap_channel[i]
            /\ wrap_channel'[Len(wrap_channel) + 1] = FinalizeMessage(frames_encoded)
        BY <3>2, <4>1, AppendProperties, LenProperties
      <4>3. \A i \in 1..Len(wrap_channel') : i \in 1..Len(wrap_channel) \/ i = Len(wrap_channel) + 1
        BY <4>2
      <4>4. AskedFor(frames_encoded)'
        BY <2>1, <4>2, <4>3 DEF AskedFor, NotAskedToFinish, FinalizeMessage
      <4>5. QED
        BY <2>1, <2>2, <2>5, <4>4 DEF SuccessInv, Succeeding
    <3>3. QED
      BY <2>5, <3>1, <3>2 DEF OwnerFinalizes, WrapSend
  <2>6. QED
    BY <1>4, <2>3, <2>4, <2>5 DEF ProducerWraps
<1>5. CASE ProducerJoinsWrap
  <2>1. /\ producer \in {"finishing", "abandoning", "dropping"} /\ producer' = "returned"
        /\ result' = "ok" => producer = "finishing" \/ result = "ok"
        /\ UNCHANGED <<wrapVars, frames_encoded, frames_produced, error_flag, writer, batch,
                       encoder>>
    BY <1>5 DEF ProducerJoinsWrap, flagVars, diskVars, writerVars, batchVars, encoderVars
  <2>2. UNCHANGED <<wrap, wrap_channel, expected_frames, frames_written>>
    BY <2>1 DEF wrapVars
  <2>3. result' = "ok" => Settled' /\ AskedFor(frames_encoded)'
    BY <2>1, <2>2 DEF SuccessInv, Succeeding, Settled, AllDone, AskedFor
  <2>4. QED
    BY <2>1, <2>2, <2>3 DEF SuccessInv, Succeeding
<1>6. QED
  BY <1>1, <1>2, <1>3, <1>4, <1>5 DEF CallerStep, ProducerRest

LEMMA WrapKeepsSuccess ==
  ASSUME FramesTyped, TrackInv, FinishInv, SuccessInv, Wrap
  PROVE  SuccessInv'
<1>1. UNCHANGED <<producer, result, batch, writer, encoder, frames_encoded, frames_produced,
                  error_flag, cancel>>
  BY DEF Wrap, flagVars, producerVars, encoderVars, batchVars, diskVars, writerVars
<1>2. Settled => Settled'
  BY <1>1 DEF Settled, AllDone
<1>3. wrap' \in {"renaming", "finished"} => Len(frames_written') = expected_frames'
  BY DEF Wrap, WrapThread, WrapReceives, WrapReleasedAll, WrapWrites, WrapIsAbandoned,
         WrapFinalizes, WrapRenames, WrapRemovesPart, SuccessInv, fileVars
<1>4. ASSUME NEW n, AskedFor(n)
      PROVE  AskedFor(n)'
  <2>1. CASE UNCHANGED <<wrap_channel, expected_frames>>
             /\ (wrap' \in {"renaming", "finished"} => wrap \in {"finishing", "renaming"})
             /\ wrap' # "finishing"
    BY <1>4, <2>1 DEF AskedFor
  <2>2. CASE wrap_channel' = <<>> /\ wrap' = "failing"
    BY <2>2 DEF AskedFor
  <2>3. CASE WrapReceives
    <3>1. wrap_channel \in Seq(Messages) /\ wrap_channel # <<>>
      BY <2>3 DEF WrapReceives, FramesTyped
    <3>2. /\ Tail(wrap_channel) \in Seq(Messages)
          /\ \A i \in 1..Len(Tail(wrap_channel)) : Tail(wrap_channel)[i] = wrap_channel[i + 1]
          /\ Len(Tail(wrap_channel)) = Len(wrap_channel) - 1
          /\ Len(wrap_channel) \in Nat \ {0} /\ Head(wrap_channel) = wrap_channel[1]
      BY <3>1, HeadTailProperties, EmptySeq
    <3>3. /\ \A i \in 1..Len(Tail(wrap_channel)) : i + 1 \in 1..Len(wrap_channel)
          /\ 1 \in 1..Len(wrap_channel)
      BY <3>2
    <3>4. \A i \in 1..Len(Tail(wrap_channel)) :
            Tail(wrap_channel)[i].kind = "finalize" => Tail(wrap_channel)[i].count = n
      BY <1>4, <3>2, <3>3 DEF AskedFor
    <3>5. Head(wrap_channel).kind = "finalize" => Head(wrap_channel).count = n
      BY <1>4, <3>2, <3>3 DEF AskedFor
    <3>6. \/ wrap_channel' = Tail(wrap_channel) /\ wrap' = "releasing"
          \/ wrap_channel' = <<>> /\ wrap' = "failing"
          \/ /\ wrap_channel' = <<>> /\ wrap' = "finishing"
             /\ Head(wrap_channel).kind = "finalize"
             /\ expected_frames' = Head(wrap_channel).count
      BY <2>3 DEF WrapReceives
    <3>7. CASE wrap_channel' = Tail(wrap_channel) /\ wrap' = "releasing"
      BY <3>4, <3>7 DEF AskedFor
    <3>8. CASE /\ wrap_channel' = <<>> /\ wrap' = "finishing"
               /\ Head(wrap_channel).kind = "finalize"
               /\ expected_frames' = Head(wrap_channel).count
      BY <3>5, <3>8 DEF AskedFor
    <3>9. QED
      BY <2>2, <3>6, <3>7, <3>8
  <2>4. CASE WrapReleasedAll \/ WrapIsAbandoned \/ WrapFinalizes \/ WrapRenames
             \/ WrapRemovesPart
    BY <2>1, <2>4 DEF WrapReleasedAll, WrapIsAbandoned, WrapFinalizes, WrapRenames,
                      WrapRemovesPart
  <2>5. CASE WrapWrites
    BY <2>1, <2>2, <2>5 DEF WrapWrites
  <2>6. QED
    BY <2>3, <2>4, <2>5 DEF Wrap, WrapThread
<1>5. producer = "finishing" \/ result = "ok" => AskedFor(frames_encoded)'
  <2>1. CASE producer = "finishing" \/ result = "ok"
    <3>1. PICK n : n = frames_encoded
      OBVIOUS
    <3>2. AskedFor(n)'
      BY <1>4, <2>1, <3>1 DEF SuccessInv
    <3>3. QED
      BY <1>1, <3>1, <3>2 DEF AskedFor
  <2>2. QED
    BY <2>1
<1>6. QED
  BY <1>1, <1>2, <1>3, <1>5 DEF SuccessInv, Succeeding

LEMMA AnyStepKeepsSuccess ==
  ASSUME FramesTyped, ControlInv, PlacesInv, EncodedInv, TrackInv, FinishInv, SuccessInv,
         AnyStep
  PROVE  SuccessInv'
<1>1. CASE Writer \/ Plugin \/ (\E e \in Encoders : EncoderThread(e))
  <2>1. UNCHANGED <<producer, result, batch, frames_produced, wrap, frames_written,
                    expected_frames>>
    <3>1. CASE Writer
      BY <3>1 DEF Writer, WriterReceives, WriterWrites, WriterFeeds, WriterHangsUp,
         WriterLeaves, FeedSends, FeedDrops, producerVars, batchVars, wrapVars, fileVars
    <3>2. CASE Plugin
      BY <3>2 DEF Plugin, BatchReturns, producerVars, wrapVars
    <3>3. ASSUME NEW e \in Encoders, EncoderThread(e)
          PROVE  UNCHANGED <<producer, result, batch, frames_produced, wrap, frames_written,
                             expected_frames>>
      BY <3>3 DEF EncoderThread, EncoderLoops, EncoderPops, EncoderEncodes, EncoderSends,
                  producerVars, batchVars, wrapVars
    <3>4. QED
      BY <1>1, <3>1, <3>2, <3>3
  <2>2. ~Settled
    <3>1. Writer => writer # "done"
      BY DEF Writer, WriterReceives, WriterWrites, WriterFeeds, WriterHangsUp
    <3>2. Plugin => in_batch # {}
      BY DEF Plugin
    <3>3. \A e \in Encoders : EncoderThread(e) => encoder[e] # "done"
      BY DEF EncoderThread, EncoderLoops, EncoderPops, EncoderEncodes, EncoderSends, EncoderAt
    <3>4. QED
      BY <1>1, <3>1, <3>2, <3>3 DEF Settled, AllDone, ControlInv
  <2>3. ~Succeeding
    BY <2>2 DEF SuccessInv
  <2>4. /\ frames_encoded' >= frames_encoded
        /\ (error_flag => error_flag') /\ (cancel => cancel')
    BY AnyStepCounts, FlagsStay
  <2>5. frames_encoded' \in Nat /\ frames_encoded \in Nat /\ frames_produced \in Nat
    BY AnyStepKeepsTypes DEF FramesTyped
  <2>6. QED
    BY <2>1, <2>3, <2>4, <2>5 DEF SuccessInv, Succeeding
<1>2. CASE Cancel \/ UNCHANGED vars
  <2>1. /\ UNCHANGED <<producer, result, batch, writer, encoder, frames_encoded,
                       frames_produced, error_flag, wrap, wrap_channel, expected_frames,
                       frames_written>>
        /\ cancel => cancel'
    BY <1>2 DEF Cancel, vars, flagVars, producerVars, encoderVars, batchVars, diskVars,
                writerVars, wrapVars, fileVars
  <2>2. QED
    BY <2>1 DEF SuccessInv, Succeeding, Settled, AllDone, AskedFor
<1>3. QED
  BY <1>1, <1>2, CallerKeepsSuccess, WrapKeepsSuccess DEF AnyStep, Others

-----------------------------------------------------------------------------
(* What every field of the encode is.                                      *)

BoundsInv ==
  /\ cancel \in BOOLEAN /\ error_flag \in BOOLEAN /\ closed \in BOOLEAN
  /\ feed \in BOOLEAN /\ owner \in BOOLEAN
  /\ source \in {"open", "ended", "failed"} /\ in_hand \in Frames \cup {NoFrame}
  /\ Len(input_queue) <= QueueCapacity /\ Len(writer_channel) <= QueueCapacity
  /\ batch \in {"none", "failed", "running", "ending", "ended"}
  /\ writer \in {"receiving", "writing", "feeding", "done"}
  /\ writing \in Frames \cup {NoFrame}
  /\ result \in {"none", "ok", "error", "cancelled"}
  /\ Len(wrap_channel) <= WrapQueueFrames
  /\ pending \subseteq Nat /\ expected_frames \in Nat
  /\ mxf \in {"none", "part", "final"}

LEMMA Flags ==
  ASSUME NEW a \in BOOLEAN, NEW b \in BOOLEAN, NEW c, c = (a \/ b)
  PROVE  c \in BOOLEAN
OBVIOUS

LEMMA LengthAppended ==
  ASSUME NEW S, NEW s \in Seq(S), NEW x, NEW n \in Nat, Len(s) < n
  PROVE  Len(Append(s, x)) <= n
OBVIOUS

LEMMA LengthOfTail ==
  ASSUME NEW S, NEW s \in Seq(S), s # <<>>, NEW n \in Nat, Len(s) <= n
  PROVE  Len(Tail(s)) <= n
<1>1. Len(Tail(s)) = Len(s) - 1 /\ Len(s) \in Nat
  BY HeadTailProperties
<1>2. QED
  BY <1>1

LEMMA Bounds == QueueCapacity \in Nat /\ WrapQueueFrames \in Nat /\ Len(<<>>) = 0
BY EncodePipelineAssumption, OverlappedWrapAssumption

LEMMA CallerKeepsBounds ==
  ASSUME FramesTyped, BoundsInv, CallerStep
  PROVE  BoundsInv'
<1> USE DEF BoundsInv, FramesTyped
<1>1. ASSUME UNCHANGED <<input_queue, wrapVars>>, UNCHANGED <<cancel, writerVars>>,
             in_hand' \in Frames \cup {NoFrame}, error_flag' \in BOOLEAN,
             closed' \in BOOLEAN, source' \in {"open", "ended", "failed"},
             batch' \in {"none", "failed", "running", "ending", "ended"},
             result' = result
      PROVE  BoundsInv'
  BY <1>1 DEF wrapVars, bufferVars, fileVars, writerVars
<1>2. CASE \/ \E f \in Frames : ProducerTakes(f)
           \/ \E how \in {"ended", "failed"} : SourceEnds(how)
  <2>1. UNCHANGED <<cancel, error_flag, input_queue, wrapVars, writerVars, batch, result>>
    BY <1>2 DEF ProducerTakes, SourceEnds, flagVars, queueVars, batchVars
  <2>2. in_hand' \in Frames \cup {NoFrame} /\ source' \in {"open", "ended", "failed"}
    BY <1>2 DEF ProducerTakes, SourceEnds
  <2>3. closed' = closed \/ closed' = TRUE
    BY <1>2 DEF ProducerTakes, SourceEnds, queueVars
  <2>4. closed' \in BOOLEAN
    BY <2>3
  <2>5. QED
    BY <1>1, <2>1, <2>2, <2>4
<1>3. CASE ProducerBegins \/ ProducerStops \/ ProducerJoins \/ ProducerDrains
           \/ ProducerEndsBatch
  <2>1. /\ UNCHANGED <<cancel, input_queue, wrapVars, writerVars, in_hand, source, result>>
        /\ batch' \in {batch, "none", "running", "failed", "ending", "ended"}
    BY <1>3 DEF ProducerBegins, ProducerStops, ProducerJoins, ProducerDrains,
                ProducerEndsBatch, Carry, FailPipeline, flagVars, queueVars, batchVars
  <2>2. (closed' = closed \/ closed' = TRUE) /\ (error_flag' = error_flag \/ error_flag' = TRUE)
    BY <1>3 DEF ProducerBegins, ProducerStops, ProducerJoins, ProducerDrains,
                ProducerEndsBatch, Carry, FailPipeline, flagVars, queueVars
  <2>3. closed' \in BOOLEAN /\ error_flag' \in BOOLEAN
    BY <2>2
  <2>4. QED
    BY <1>1, <2>1, <2>3
<1>4. CASE ProducerPushes
  <2>1. /\ UNCHANGED <<flagVars, closed, source, result, wrapVars, batchVars, writerVars>>
        /\ in_hand' = NoFrame
    BY <1>4 DEF ProducerPushes
  <2>2. Len(input_queue') <= QueueCapacity
    <3>1. CASE input_queue' = input_queue
      BY <3>1
    <3>2. CASE Len(input_queue) < QueueCapacity /\ input_queue' = Append(input_queue, in_hand)
      BY <3>2, Bounds, LengthAppended
    <3>3. QED
      BY <1>4, <3>1, <3>2 DEF ProducerPushes
  <2>3. QED
    BY <2>1, <2>2 DEF wrapVars, bufferVars, fileVars, flagVars, batchVars, writerVars
<1>5. CASE \/ ProducerWraps \/ ProducerJoinsWrap
           \/ \E source_failed \in BOOLEAN : PipelineReturns(source_failed)
  <2>1. /\ UNCHANGED <<flagVars, in_hand, source, queueVars, batchVars, writerVars,
                       feed, wrap, bufferVars, fileVars, expected_frames>>
        /\ owner' = owner \/ owner' = FALSE
        /\ result' \in {result, "ok", "error", "cancelled"}
    BY <1>5 DEF ProducerWraps, ProducerJoinsWrap, PipelineReturns, OwnerDrops, OwnerFinalizes,
                wrapVars, bufferVars, fileVars
  <2>2. owner' \in BOOLEAN
    BY <2>1
  <2>3. Len(wrap_channel') <= WrapQueueFrames
    <3>1. CASE wrap_channel' = wrap_channel
      BY <3>1
    <3>2. CASE \E message : WrapSend(message)
      BY <3>2, Bounds, LengthAppended DEF WrapSend
    <3>3. QED
      BY <1>5, <3>1, <3>2 DEF ProducerWraps, ProducerJoinsWrap, PipelineReturns, OwnerDrops,
                              OwnerFinalizes, wrapVars
  <2>4. QED
    BY <2>1, <2>2, <2>3 DEF flagVars, queueVars, batchVars, writerVars, bufferVars, fileVars
<1>6. QED
  BY <1>2, <1>3, <1>4, <1>5 DEF CallerStep, ProducerRest

LEMMA EncodersKeepBounds ==
  ASSUME FramesTyped, BoundsInv, NEW e \in Encoders, EncoderThread(e)
  PROVE  BoundsInv'
<1> USE DEF BoundsInv, FramesTyped
<1>1. /\ UNCHANGED <<cancel, producerVars, wrapVars, batch, writer, writing>>
      /\ error_flag' = error_flag \/ error_flag' = TRUE
      /\ closed' = closed \/ closed' = TRUE \/ closed' = (closed \/ cancel)
  BY DEF EncoderThread, EncoderLoops, EncoderPops, EncoderEncodes, EncoderSends, Carry,
         FailPipeline, flagVars, queueVars, batchVars, writerVars
<1>2. error_flag' \in BOOLEAN /\ closed' \in BOOLEAN
  <2>1. error_flag' \in BOOLEAN
    BY <1>1
  <2>2. CASE closed' = (closed \/ cancel)
    BY <2>1, <2>2, Flags
  <2>3. CASE closed' = closed \/ closed' = TRUE
    BY <2>1, <2>3
  <2>4. QED
    BY <1>1, <2>2, <2>3
<1>3. Len(input_queue') <= QueueCapacity
  <2>1. \/ input_queue' = input_queue
        \/ input_queue # <<>> /\ input_queue' = Tail(input_queue)
    BY DEF EncoderThread, EncoderLoops, EncoderPops, EncoderEncodes, EncoderSends, Carry,
           FailPipeline, queueVars
  <2>2. CASE input_queue # <<>> /\ input_queue' = Tail(input_queue)
    BY <2>2, Bounds, LengthOfTail
  <2>3. QED
    BY <2>1, <2>2
<1>4. Len(writer_channel') <= QueueCapacity
  <2>1. \/ writer_channel' = writer_channel
        \/ SendsToWriter(encoding[e])
    BY DEF EncoderThread, EncoderLoops, EncoderPops, EncoderEncodes, EncoderSends, writerVars
  <2>2. CASE SendsToWriter(encoding[e])
    BY <2>2, Bounds, LengthAppended DEF SendsToWriter
  <2>3. QED
    BY <2>1, <2>2
<1>5. QED
  BY <1>1, <1>2, <1>3, <1>4 DEF producerVars, wrapVars, bufferVars, fileVars

LEMMA WriterKeepsBounds ==
  ASSUME FramesTyped, BoundsInv, Writer
  PROVE  BoundsInv'
<1> USE DEF BoundsInv, FramesTyped
<1>1. /\ UNCHANGED <<cancel, producerVars, input_queue, batchVars, owner, wrap, bufferVars,
                     fileVars, expected_frames>>
      /\ error_flag' = error_flag \/ error_flag' = TRUE
      /\ closed' = closed \/ closed' = TRUE
      /\ feed' = feed \/ feed' = FALSE
      /\ writer' \in {"receiving", "writing", "feeding", "done"}
  BY DEF Writer, WriterReceives, WriterWrites, WriterFeeds, WriterHangsUp, WriterLeaves,
         FeedSends, FeedDrops, Carry, FailPipeline, flagVars, queueVars, wrapVars,
         bufferVars, fileVars
<1>2. error_flag' \in BOOLEAN /\ closed' \in BOOLEAN /\ feed' \in BOOLEAN
  BY <1>1
<1>3. writing' \in Frames \cup {NoFrame}
  <2>1. writer_channel # <<>> => Head(writer_channel) \in Frames
    BY HeadTailProperties
  <2>2. QED
    BY <2>1 DEF Writer, WriterReceives, WriterWrites, WriterFeeds, WriterHangsUp
<1>4. Len(writer_channel') <= QueueCapacity
  <2>1. \/ writer_channel' = writer_channel \/ writer_channel' = <<>>
        \/ writer_channel # <<>> /\ writer_channel' = Tail(writer_channel)
    BY DEF Writer, WriterReceives, WriterWrites, WriterFeeds, WriterHangsUp, WriterLeaves
  <2>2. CASE writer_channel # <<>> /\ writer_channel' = Tail(writer_channel)
    BY <2>2, Bounds, LengthOfTail
  <2>3. QED
    BY <2>1, <2>2, Bounds
<1>5. Len(wrap_channel') <= WrapQueueFrames
  <2>1. UNCHANGED wrap_channel \/ WrapSend(FrameMessage(writing))
    BY DEF Writer, WriterReceives, WriterWrites, WriterFeeds, WriterHangsUp, WriterLeaves,
           FeedSends, FeedDrops, wrapVars
  <2>2. CASE WrapSend(FrameMessage(writing))
    BY <2>2, Bounds, LengthAppended DEF WrapSend
  <2>3. QED
    BY <2>1, <2>2
<1>6. QED
  BY <1>1, <1>2, <1>3, <1>4, <1>5 DEF producerVars, batchVars, bufferVars, fileVars

LEMMA WrapKeepsBounds ==
  ASSUME FramesTyped, TrackInv, BoundsInv, Wrap
  PROVE  BoundsInv'
<1> USE DEF BoundsInv, FramesTyped
<1>1. UNCHANGED <<flagVars, producerVars, queueVars, batchVars, writerVars, feed, owner>>
  BY DEF Wrap, WrapThread, WrapReceives, WrapReleasedAll, WrapWrites, WrapIsAbandoned,
         WrapFinalizes, WrapRenames, WrapRemovesPart
<1>2. wrap_channel # <<>> => Head(wrap_channel) \in Messages
  BY HeadTailProperties
<1>3. pending' \subseteq Nat /\ expected_frames' \in Nat
  <2>1. wrap_channel # <<>> => Head(wrap_channel).count \in Nat
    BY <1>2 DEF Messages
  <2>2. QED
    BY <2>1 DEF Wrap, WrapThread, WrapReceives, WrapReleasedAll, WrapWrites,
       WrapIsAbandoned, WrapFinalizes, WrapRenames, WrapRemovesPart, bufferVars
<1>4. mxf' \in {"none", "part", "final"}
  BY DEF Wrap, WrapThread, WrapReceives, WrapReleasedAll, WrapWrites, WrapIsAbandoned,
         WrapFinalizes, WrapRenames, WrapRemovesPart, fileVars
<1>5. Len(wrap_channel') <= WrapQueueFrames
  <2>1. \/ wrap_channel' = wrap_channel \/ wrap_channel' = <<>>
        \/ wrap_channel # <<>> /\ wrap_channel' = Tail(wrap_channel)
    BY DEF Wrap, WrapThread, WrapReceives, WrapReleasedAll, WrapWrites, WrapIsAbandoned,
           WrapFinalizes, WrapRenames, WrapRemovesPart
  <2>2. CASE wrap_channel # <<>> /\ wrap_channel' = Tail(wrap_channel)
    BY <2>2, Bounds, LengthOfTail
  <2>3. QED
    BY <2>1, <2>2, Bounds
<1>6. QED
  BY <1>1, <1>3, <1>4, <1>5 DEF flagVars, producerVars, queueVars, batchVars, writerVars

LEMMA AnyStepKeepsBounds ==
  ASSUME FramesTyped, TrackInv, BoundsInv, AnyStep
  PROVE  BoundsInv'
<1>1. CASE Cancel
  BY <1>1 DEF Cancel, BoundsInv, wrapVars, bufferVars, fileVars, producerVars, queueVars,
              batchVars, writerVars
<1>2. CASE UNCHANGED vars
  BY <1>2 DEF vars, BoundsInv, wrapVars, bufferVars, fileVars, flagVars, producerVars,
              queueVars, batchVars, writerVars
<1>3. ASSUME NEW f \in in_batch, BatchReturns(f)
      PROVE  BoundsInv'
  <2>1. /\ UNCHANGED <<cancel, producerVars, input_queue, wrapVars, batch, writer, writing>>
        /\ error_flag' = error_flag \/ error_flag' = TRUE
        /\ closed' = closed \/ closed' = TRUE
        /\ UNCHANGED writer_channel \/ SendsToWriter(f)
    BY <1>3 DEF BatchReturns, Carry, FailPipeline, flagVars, queueVars
  <2>2. error_flag' \in BOOLEAN /\ closed' \in BOOLEAN
    BY <2>1 DEF BoundsInv
  <2>3. Len(writer_channel') <= QueueCapacity
    <3>1. CASE SendsToWriter(f)
      BY <3>1, Bounds, LengthAppended DEF SendsToWriter, FramesTyped
    <3>2. QED
      BY <2>1, <3>1 DEF BoundsInv
  <2>4. QED
    BY <2>1, <2>2, <2>3 DEF BoundsInv, producerVars, wrapVars, bufferVars, fileVars
<1>4. QED
  BY <1>1, <1>2, <1>3, CallerKeepsBounds, EncodersKeepBounds, WriterKeepsBounds,
     WrapKeepsBounds
  DEF AnyStep, Others, Plugin

(* What holds of the pipeline whatever gives it its frames.                *)
PipelineInv ==
  /\ HalfLeftInv /\ ControlInv /\ PlacesInv /\ EncodedInv /\ SuccessInv /\ BoundsInv

LEMMA InitPipeline == Init => PipelineInv
<1> SUFFICES ASSUME Init PROVE PipelineInv
  OBVIOUS
<1>1. HalfLeftInv /\ ControlInv
  BY HalfLeftInvInductive, InitControl
<1>2. PICK P : P = FramePlaces
  OBVIOUS
<1>3. P = <<{}, {}, {}, {}, {}, {}>>
  BY <1>2 DEF Init, FramePlaces
<1>4. Apart(P) /\ Everywhere(P) = {}
  BY <1>3, SixPlaces DEF Apart, Everywhere
<1>5. PlacesInv
  BY <1>2, <1>4, NothingSent DEF PlacesInv, Init, OnceIn, Files
<1>6. WholeIn(codestreams) = {}
  BY DEF Init, WholeIn
<1>7. EncodedInv
  BY <1>6, FS_EmptySet DEF Init, EncodedInv
<1>8. SuccessInv
  BY DEF Init, WrapInit, SuccessInv, Succeeding
<1>9. PICK started \in BOOLEAN : WrapInit(started)
  BY EncodePipelineAssumption DEF Init
<1>10. /\ cancel \in BOOLEAN /\ error_flag \in BOOLEAN /\ closed \in BOOLEAN
       /\ feed \in BOOLEAN /\ owner \in BOOLEAN
  BY <1>9 DEF Init, WrapInit
<1>11. BoundsInv
  BY <1>9, <1>10, Bounds DEF Init, WrapInit, BoundsInv
<1>12. QED
  BY <1>1, <1>5, <1>7, <1>8, <1>11 DEF PipelineInv

LEMMA AnyStepKeepsPipeline ==
  ASSUME PipelineInv, AnyStep,
         producer = "pushing" => in_hand \notin Everywhere(FramePlaces)
  PROVE  PipelineInv'
<1>1. HalfLeftInv' /\ FramesTyped /\ TrackInv /\ FinishInv
  BY HalfLeftInvInductive DEF PipelineInv, HalfLeftInv
<1>2. ControlInv' /\ EncodedInv' /\ SuccessInv' /\ BoundsInv'
  BY <1>1, AnyStepKeepsControl, AnyStepCounts, AnyStepKeepsSuccess, AnyStepKeepsBounds
  DEF PipelineInv
<1>3. PlacesInv'
  BY <1>1, AnyStepMovesFrames DEF PipelineInv
<1>4. QED
  BY <1>1, <1>2, <1>3 DEF PipelineInv

(* A run that reports success has published its wrap, if it has one, with  *)
(* as many frames as the encoder counted, and those are the whole files.   *)
LEMMA SuccessCounts ==
  ASSUME PipelineInv, Ok
  PROVE  /\ ~error_flag /\ frames_encoded >= frames_produced
         /\ WholeIn(codestreams) \subseteq Everywhere(FramePlaces)
         /\ IsFiniteSet(WholeIn(codestreams))
         /\ Cardinality(WholeIn(codestreams)) = frames_encoded
         /\ wrap # "absent" => mxf = "final" /\ Len(frames_written) = frames_encoded
<1>1. Settled /\ AskedFor(frames_encoded) /\ wrap \in {"absent", "finished"}
  BY DEF Ok, PipelineInv, SuccessInv, Succeeding, HalfLeftInv, FinishInv
<1>2. WholeIn(codestreams) \subseteq Everywhere(FramePlaces)
  <2>1. PICK P : P = FramePlaces
    OBVIOUS
  <2>2. P[6] = WholeIn(codestreams)
    BY <1>1, <2>1 DEF FramePlaces, WholeIn, Settled
  <2>3. QED
    BY <2>1, <2>2 DEF Everywhere
<1>3. WholeIn(codestreams) \in SUBSET Frames
  BY DEF WholeIn
<1>4. wrap = "finished" => mxf = "final" /\ Len(frames_written) = frames_encoded
  BY <1>1 DEF PipelineInv, HalfLeftInv, TrackInv, SuccessInv, AskedFor
<1>5. QED
  BY <1>1, <1>2, <1>3, <1>4, FramesAreFinite DEF Settled, PipelineInv, EncodedInv

LEMMA PipelineTypes == PipelineInv /\ frames_produced <= FrameCount => TypeOK
<1> SUFFICES ASSUME PipelineInv, frames_produced <= FrameCount PROVE TypeOK
  OBVIOUS
<1>1. FramesTyped /\ TrackInv /\ PlacesInv /\ BoundsInv
  BY DEF PipelineInv, HalfLeftInv
<1>2. frames_produced \in 0..FrameCount
  BY <1>1, NoFrameIsNoFrame DEF FramesTyped
<1>3. frames_encoded \in 0..FrameCount
  <2>1. WholeIn(codestreams) \in SUBSET Frames
    BY DEF WholeIn
  <2>2. QED
    BY <2>1, FramesAreFinite, NoFrameIsNoFrame DEF PipelineInv, EncodedInv
<1>4. WrapTypeOK
  BY <1>1 DEF FramesTyped, TrackInv, BoundsInv, WrapTypeOK
<1>5. QED
  BY <1>1, <1>2, <1>3, <1>4 DEF FramesTyped, PlacesInv, Files, BoundsInv, TypeOK

-----------------------------------------------------------------------------
(* The decoder's frames, in order.                                         *)

(* What entered the pipeline is what the decoder gave so far, and it is    *)
(* all still there until something fails or is cancelled.                  *)
EnteredInv ==
  /\ producer = "pushing" => in_hand = frames_produced
  /\ Everywhere(FramePlaces) \subseteq 0..(frames_produced - 1)
  /\ ~error_flag /\ ~cancel => Everywhere(FramePlaces) = 0..(frames_produced - 1)
  /\ frames_produced <= FrameCount
  /\ Succeeding => source # "failed"

EncodeInv == PipelineInv /\ EnteredInv

LEMMA InitEncode == Init => EncodeInv
<1> SUFFICES ASSUME Init PROVE EncodeInv
  OBVIOUS
<1>1. PICK P : P = FramePlaces
  OBVIOUS
<1>2. P = <<{}, {}, {}, {}, {}, {}>>
  BY <1>1 DEF Init, FramePlaces
<1>3. Everywhere(P) = {} /\ 0..(0 - 1) = {}
  BY <1>2, SixPlaces DEF Everywhere
<1>4. EnteredInv
  BY <1>1, <1>3, NoFrameIsNoFrame DEF Init, EnteredInv, Succeeding
<1>5. QED
  BY <1>4, InitPipeline DEF EncodeInv

LEMMA DecoderGivesTheNext ==
  ASSUME FramesTyped, [Next]_vars, producer' = "pushing"
  PROVE  /\ UNCHANGED frames_produced
         /\ in_hand' = frames_produced \/ (producer = "pushing" /\ UNCHANGED in_hand)
<1>1. CASE Producer
  BY <1>1 DEF Producer, ProducerReads, ProducerTakes, SourceEnds, ProducerRest,
     ProducerBegins, ProducerStops, ProducerPushes, ProducerJoins, ProducerEndsBatch,
     ProducerDrains, ProducerWraps, ProducerJoinsWrap, ProducerJoinsWriter,
     PipelineReturns, FramesTyped
<1>2. CASE Others
  <2>1. UNCHANGED producerVars
    BY <1>2 DEF Others, Cancel, Wrap, Plugin, BatchReturns, Writer, WriterReceives,
       WriterWrites, WriterFeeds, WriterHangsUp, EncoderThread, EncoderLoops, EncoderPops,
       EncoderEncodes, EncoderSends
  <2>2. QED
    BY <2>1 DEF producerVars
<1>3. CASE UNCHANGED vars
  BY <1>3 DEF vars, producerVars
<1>4. QED
  BY <1>1, <1>2, <1>3 DEF Next, Returned

(* Only an encode whose source did not fail goes on to its wrap.           *)
LEMMA FailedSourceFails ==
  ASSUME FramesTyped, FinishInv, EnteredInv, [Next]_vars, Succeeding'
  PROVE  source' # "failed"
<1>1. CASE ProducerReads(0) \/ ProducerBegins \/ ProducerStops \/ ProducerPushes
           \/ ProducerJoins \/ ProducerEndsBatch \/ ProducerDrains
  <2>1. /\ producer \notin {"finishing", "returned"} /\ UNCHANGED result
        /\ producer' \notin {"wrapping", "finishing"}
    BY <1>1 DEF ProducerReads, ProducerTakes, SourceEnds, ProducerBegins, ProducerStops,
       ProducerPushes, ProducerJoins, ProducerEndsBatch, ProducerDrains
  <2>2. QED
    BY <2>1 DEF FinishInv, NotAskedToFinish, Succeeding
<1>2. CASE ProducerJoinsWriter
  <2>1. producer = "joining_writer" /\ UNCHANGED source /\ result # "ok"
    BY <1>2 DEF ProducerJoinsWriter, PipelineReturns, FinishInv, NotAskedToFinish
  <2>2. /\ result' \in {result, "cancelled", "error"} /\ producer' \in {"wrapping", "abandoning"}
        /\ producer' = "wrapping" => ~DecodeFailure
    BY <1>2 DEF ProducerJoinsWriter, PipelineReturns
  <2>3. QED
    BY <2>1, <2>2 DEF Succeeding, DecodeFailure
<1>3. CASE ProducerWraps \/ ProducerJoinsWrap
  <2>1. UNCHANGED source /\ Succeeding
    BY <1>3 DEF ProducerWraps, ProducerJoinsWrap, Succeeding
  <2>2. QED
    BY <2>1 DEF EnteredInv
<1>4. CASE Others \/ UNCHANGED vars
  <2>1. UNCHANGED producerVars
    BY <1>4 DEF vars, Others, Cancel, Wrap, Plugin, BatchReturns, Writer, WriterReceives,
       WriterWrites, WriterFeeds, WriterHangsUp, EncoderThread, EncoderLoops, EncoderPops,
       EncoderEncodes, EncoderSends
  <2>2. QED
    BY <2>1 DEF producerVars, Succeeding, EnteredInv
<1>5. QED
  BY <1>1, <1>2, <1>3, <1>4 DEF Next, Producer, ProducerRest, Returned

LEMMA NextKeepsEncode ==
  ASSUME EncodeInv, [Next]_vars
  PROVE  EncodeInv'
<1>1. FramesTyped /\ FinishInv /\ ControlInv /\ PlacesInv /\ PipelineInv /\ EnteredInv
  BY DEF EncodeInv, PipelineInv, HalfLeftInv
<1>2. AnyStep
  BY <1>1, NextIsAnyStep
<1>3. frames_produced \in Nat /\ FrameCount \in Nat
  BY <1>1, NoFrameIsNoFrame DEF FramesTyped
<1>4. producer = "pushing" => in_hand \notin Everywhere(FramePlaces)
  <2>1. frames_produced \notin 0..(frames_produced - 1)
    BY <1>3
  <2>2. QED
    BY <1>1, <2>1 DEF EnteredInv
<1>5. PipelineInv' /\ (FramesStay \/ FramesLost \/ (CallerStep /\ FramePushed))
  BY <1>1, <1>2, <1>4, AnyStepKeepsPipeline, AnyStepMovesFrames
<1>6. producer' = "pushing" => in_hand' = frames_produced'
  BY <1>1, DecoderGivesTheNext DEF EnteredInv
<1>7. Succeeding' => source' # "failed"
  BY <1>1, FailedSourceFails
<1>8. (error_flag => error_flag') /\ (cancel => cancel')
  BY <1>2, FlagsStay
<1>9. PICK E, F : E = Everywhere(FramePlaces) /\ F = Everywhere(FramePlaces)'
  OBVIOUS
<1>10. CASE FramePushed
  <2>1. /\ F = E \cup {in_hand} /\ frames_produced' = frames_produced + 1
        /\ in_hand = frames_produced /\ frames_produced \in Frames
    BY <1>1, <1>9, <1>10 DEF FramePushed, EnteredInv, FramesTyped
  <2>2. 0..(frames_produced' - 1) = (0..(frames_produced - 1)) \cup {frames_produced}
    BY <1>3, <2>1
  <2>3. frames_produced' <= FrameCount
    BY <1>3, <2>1 DEF Frames
  <2>4. EnteredInv'
    BY <1>1, <1>6, <1>7, <1>8, <1>9, <2>1, <2>2, <2>3 DEF EnteredInv
  <2>5. QED
    BY <1>5, <2>4 DEF EncodeInv
<1>11. CASE FramesStay
  BY <1>1, <1>5, <1>6, <1>7, <1>8, <1>11 DEF EncodeInv, EnteredInv, FramesStay
<1>12. CASE FramesLost
  BY <1>1, <1>5, <1>6, <1>7, <1>12 DEF EncodeInv, EnteredInv, FramesLost
<1>13. QED
  BY <1>5, <1>10, <1>11, <1>12

LEMMA AlwaysEncodeInv == Spec => []EncodeInv
<1>1. EncodeInv /\ [Next]_vars => EncodeInv'
  BY NextKeepsEncode
<1>2. QED
  BY <1>1, InitEncode, PTL DEF Spec

(* Every thread's place, both queues, the codestreams on disk and the wrap *)
(* keep their types, and no queue outgrows its capacity.                   *)
THEOREM EncodeTypes == Spec => []TypeOK
<1>1. EncodeInv => TypeOK
  BY PipelineTypes DEF EncodeInv, EnteredInv
<1>2. QED
  BY <1>1, AlwaysEncodeInv, PTL

(* Until a stage fails or the host cancels, each frame the decoder gave is *)
(* in exactly one place between the input queue and the disk, for any      *)
(* number of encoder threads and any batch the plugin holds back.          *)
THEOREM NoFrameIsLostOrDoubled == Spec => []FramesConserved
<1>1. ASSUME EncodeInv PROVE FramesConserved
  <2>1. PICK P : P = FramePlaces
    OBVIOUS
  <2>2. DOMAIN P = 1..6
    BY <2>1 DEF FramePlaces
  <2>3. Apart(P) /\ (~error_flag /\ ~cancel => Everywhere(P) = 0..(frames_produced - 1))
    BY <1>1, <2>1 DEF EncodeInv, PipelineInv, PlacesInv, EnteredInv
  <2>4. QED
    BY <2>1, <2>2, <2>3 DEF FramesConserved, Apart, Everywhere
<1>2. QED
  BY <1>1, AlwaysEncodeInv, PTL

(* A run that reports success lost nothing and swallowed nothing: no stage *)
(* failed, every frame the decoder gave is whole on disk, and the wrap, if *)
(* there is one, is published with exactly as many frames.                 *)
THEOREM SuccessIsNeverPartial == Spec => []SuccessIsComplete
<1>1. ASSUME EncodeInv, Ok
      PROVE  /\ ~error_flag /\ source # "failed"
             /\ \A f \in 0..(frames_produced - 1) : codestreams[f] = "whole"
             /\ wrap # "absent" => mxf = "final" /\ Len(frames_written) = frames_produced
  <2> DEFINE whole == WholeIn(codestreams)
             given == 0..(frames_produced - 1)
  <2>1. /\ ~error_flag /\ frames_encoded >= frames_produced
        /\ whole \subseteq Everywhere(FramePlaces)
        /\ IsFiniteSet(whole) /\ Cardinality(whole) = frames_encoded
        /\ wrap # "absent" => mxf = "final" /\ Len(frames_written) = frames_encoded
    BY <1>1, SuccessCounts DEF EncodeInv
  <2>2. /\ whole \subseteq given /\ source # "failed"
        /\ frames_produced \in Nat /\ frames_encoded \in Nat
    BY <1>1, <2>1 DEF EncodeInv, EnteredInv, PipelineInv, HalfLeftInv, FramesTyped, Ok,
                      Succeeding
  <2>3. IsFiniteSet(given) /\ Cardinality(given) = frames_produced
    BY <2>2, FS_Interval
  <2> HIDE DEF given, whole
  <2>4. Cardinality(whole) <= Cardinality(given)
        /\ (Cardinality(given) = Cardinality(whole) => given = whole)
    BY <2>2, <2>3, FS_Subset
  <2>5. frames_encoded = frames_produced /\ given = whole
    BY <2>1, <2>2, <2>3, <2>4
  <2>6. QED
    BY <2>1, <2>2, <2>5 DEF given, whole, WholeIn
<1>2. EncodeInv => SuccessIsComplete
  BY <1>1 DEF SuccessIsComplete
<1>3. QED
  BY <1>2, AlwaysEncodeInv, PTL

=============================================================================
