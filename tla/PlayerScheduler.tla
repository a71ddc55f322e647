--------------------------- MODULE PlayerScheduler ---------------------------
(***************************************************************************)
(* The player's scheduler thread, src/grok_player/scheduler.rs: one loop   *)
(* that ticks (shows what the clock asks for), pumps (asks the decode pool *)
(* for the frames of its window) and handles one command.  The workers of  *)
(* the pool answer between any two of these steps, in any order, and a     *)
(* discarded queue never takes back a job some worker has begun.           *)
(*                                                                         *)
(* Abstracted: the pool is the set of jobs not yet answered (its queues,   *)
(* its workers and the device are modelled in DecodeDevice); the clock is  *)
(* the frame it points at; a picture is the frame it is of and the way it  *)
(* was rendered.  Sound, subtitles, overlays and the counters are left     *)
(* out, except that the sound device may lead the clock and may be lost.   *)
(***************************************************************************)
EXTENDS FrameCache, FiniteSetsExt

CONSTANTS
  Compositions,  \* what can be loaded or queued
  First,         \* what is loaded first
  FrameCount,    \* the number of frames of each
  Scales,        \* the decode scales
  Displays,      \* the display transforms and stereo outputs
  DefaultDisplay,
  Bad,           \* the frames, <<composition, frame>>, whose decode may fail
  Workers,       \* the workers of the pool
  ClockSources,  \* what may lead the clock: "wall", "sound"
  None,
  SeekTo,        \* bound: the frames a seek or a step asks for
  MaxCommands,   \* bound: the commands of a behaviour
  MaxLate,       \* bound: how far the clock runs past a composition's end
  MaxDecoding    \* bound: the jobs a discarded queue leaves behind

\* A picture on the screen.
Pictures == [from : Compositions \X Nat, reduce : Scales, display : Displays]

ASSUME PlayerAssumption ==
  /\ First \in Compositions
  /\ FrameCount \in [Compositions -> Nat \ {0}]
  /\ Workers \in Nat \ {0}
  /\ ClockSources # {} /\ ClockSources \subseteq {"wall", "sound"}
  /\ 0 \in Scales /\ DefaultDisplay \in Displays
  /\ None \notin Compositions \cup Pictures
  /\ SeekTo \subseteq Nat
  /\ MaxCommands \in Nat /\ MaxLate \in Nat /\ MaxDecoding \in Nat

VARIABLES
  player,    \* the scheduler's fields, the cache and the picture on screen
  jobs,      \* the jobs given to the pool and not yet answered
  pc,        \* what the loop does next
  commands   \* how many commands were handled

vars == <<player, jobs, pc, commands>>

\* LOOKAHEAD_FRAMES_PER_WORKER
LookaheadPerWorker == 2

lookahead_frames == LookaheadPerWorker * Workers

Rendering == [reduce : Scales, display : Displays]

LastFrame(s) == FrameCount[s.timeline] - 1

\* The frames the window runs over, those of the queued source after ours.
FramesAhead(s) ==
  FrameCount[s.timeline]
    + (IF s.queued = None THEN 0 ELSE FrameCount[s.queued])

\* The composition and the frame an index stands for.
FrameAt(s, index) ==
  IF index < FrameCount[s.timeline]
    THEN <<s.timeline, index>>
    ELSE <<s.queued, index - FrameCount[s.timeline]>>

-----------------------------------------------------------------------------
(* What the handlers are made of.  Each takes the scheduler and returns it *)
(* changed.  unshown is the one field the code does not have: that the     *)
(* player gave up showing the current frame because its decode failed.     *)

Present(s, index) ==
  LET entry == s.cache.frames[index] IN
  [s EXCEPT !.current_frame = index,
            !.shown = [from |-> entry.from, reduce |-> entry.reduce,
                       display |-> entry.display],
            !.unshown = FALSE,
            !.cache = ForgetBefore(@, index - 1)]

NewClock(s, source) == [s EXCEPT !.clock = source, !.due = s.current_frame]

(* A bug: a seek while playing keeps the clock it had.                     *)
RestartDecodingOnTheOldClock(s, source) ==
  LET g == s.generation + 1 IN
  [s EXCEPT !.generation = g, !.in_flight = {},
            !.cache = Restart(@, g),
            !.needs_publish = @ \/ s.timeline # None]

RestartDecoding(s, source) ==
  LET g == s.generation + 1
      restarted == [s EXCEPT !.generation = g, !.in_flight = {},
                             !.cache = Restart(@, g),
                             !.needs_publish = @ \/ s.timeline # None]
  IN IF s.playing THEN NewClock(restarted, source) ELSE restarted

(* A bug: the frames asked for before the change still count as asked for. *)
ChangeFrameRenderingStillInFlight(s) ==
  [s EXCEPT !.generation = @ + 1, !.needs_publish = @ \/ ~s.playing]

ChangeFrameRendering(s) ==
  [s EXCEPT !.generation = @ + 1, !.in_flight = {},
            !.needs_publish = @ \/ ~s.playing]

ClearQueued(s) ==
  IF s.queued = None THEN s
  ELSE LET g == s.generation + 1 IN
       [s EXCEPT !.queued = None, !.generation = g, !.in_flight = {},
                 !.cache = ForgetFrom(@, FrameCount[s.timeline], g)]

StopPlayer(s, source) ==
  RestartDecoding([s EXCEPT !.queued = None, !.timeline = None,
                            !.playing = FALSE, !.eof = FALSE,
                            !.clock = "none", !.due = 0,
                            !.current_frame = 0, !.needs_publish = FALSE,
                            !.shown = None, !.unshown = FALSE], source)

LoadComposition(s, composition, source) ==
  RestartDecoding([StopPlayer(s, source) EXCEPT !.timeline = composition],
                  source)

SeekToFrame(s, frame, source) ==
  RestartDecoding([s EXCEPT !.current_frame = Min({frame, LastFrame(s)}),
                            !.eof = FALSE], source)

\* The queued composition in the place of the finished one, its frames
\* renumbered and the clock going on.
Renumbered(s) ==
  LET count == FrameCount[s.timeline]
      g == s.generation + 1
  IN [s EXCEPT !.due = IF s.clock = "none" THEN @ ELSE @ - count,
               !.generation = g, !.in_flight = {},
               !.cache = Rebase(@, count, g),
               !.timeline = s.queued, !.queued = None,
               !.current_frame = 0, !.eof = FALSE]

(* A bug: the picture of the next composition is not asked for.            *)
HandOffAndForget(s) ==
  LET next == Renumbered(s)
  IN IF DecodedAt(next.cache, 0, next.reduce) THEN Present(next, 0) ELSE next

\* Until the first frame decodes the last one stays on the screen.
HandOff(s) ==
  LET next == Renumbered(s)
  IN IF DecodedAt(next.cache, 0, next.reduce)
       THEN Present(next, 0)
       ELSE [next EXCEPT !.needs_publish = TRUE]

ReachEnd(s) ==
  [s EXCEPT !.playing = FALSE, !.eof = TRUE, !.clock = "none", !.due = 0]

PublishCurrent(s) ==
  IF DecodedAt(s.cache, s.current_frame, s.reduce)
    THEN Present([s EXCEPT !.needs_publish = FALSE], s.current_frame)
  ELSE IF Failure(s.cache, s.current_frame)
    THEN [s EXCEPT !.needs_publish = FALSE, !.unshown = TRUE]
  ELSE s

Pause(s) == [s EXCEPT !.playing = FALSE, !.clock = "none", !.due = 0]

\* Play on the last frame goes on to the queued source, or starts over.
Play(s, source) ==
  LET from == IF s.eof /\ s.queued # None THEN HandOff(s)
              ELSE IF s.eof THEN SeekToFrame(s, 0, source)
              ELSE s
  IN NewClock([from EXCEPT !.playing = TRUE], source)

-----------------------------------------------------------------------------
\* Scheduler::new
NewScheduler ==
  [timeline |-> None, queued |-> None, current_frame |-> 0,
   needs_publish |-> FALSE, playing |-> FALSE, eof |-> FALSE,
   reduce |-> 0, display |-> DefaultDisplay, clock |-> "none", due |-> 0,
   generation |-> 0, in_flight |-> {}, cache |-> NewCache,
   shown |-> None, unshown |-> FALSE]

\* The player as its first load leaves it.
Init ==
  /\ \E source \in ClockSources :
       player = LoadComposition(NewScheduler, First, source)
  /\ jobs = {}
  /\ pc = "tick"
  /\ commands = 0

(* A discarded queue leaves the jobs some worker has begun.  Those whose   *)
(* answer the cache is going to refuse, which changes nothing, are not     *)
(* followed any further.                                                   *)
DiscardQueuedJobs ==
  \E begun \in SUBSET jobs :
    /\ Cardinality(begun) <= MaxDecoding
    /\ jobs' = {job \in begun : Accepts(player'.cache, job.entry.generation)}

\* The clock as a tick reads it: a lost sound device leaves a wall clock.
ClockRead(s) ==
  {s} \cup (IF s.clock = "sound" THEN {NewClock(s, "wall")} ELSE {})

(* A bug: the queued composition starts a frame early.                     *)
AtTheLastFrameTooEarly(s) ==
  /\ s.current_frame >= LastFrame(s)
  /\ \/ s.queued = None /\ player' = ReachEnd(s) /\ UNCHANGED jobs
     \/ /\ s.queued # None /\ s.due >= LastFrame(s)
        /\ player' = HandOff(s)
        /\ DiscardQueuedJobs

\* The last frame plays out before the queued composition's first.
AtTheLastFrame(s) ==
  /\ s.current_frame >= LastFrame(s)
  /\ \/ s.queued = None /\ player' = ReachEnd(s) /\ UNCHANGED jobs
     \/ /\ s.queued # None /\ s.due >= FrameCount[s.timeline]
        /\ player' = HandOff(s)
        /\ DiscardQueuedJobs
     \/ /\ s.queued # None /\ s.due < FrameCount[s.timeline]
        /\ player' = s /\ UNCHANGED jobs

\* The newest decoded frame the clock has reached, or, when there is none
\* and the frame it points at failed, on to that frame with nothing shown.
BeforeTheLastFrame(s) ==
  LET target == Min({s.due, LastFrame(s)})
      ready == DecodedIn(s.cache, s.current_frame + 1, target)
  IN /\ s.current_frame < LastFrame(s)
     /\ player' = IF ready # {} THEN Present(s, Max(ready))
                  ELSE IF s.due > s.current_frame /\ Failure(s.cache, target)
                    THEN [s EXCEPT !.current_frame = target, !.unshown = TRUE]
                  ELSE s
     /\ UNCHANGED jobs

Tick ==
  /\ pc \in {"tick", "wait"}
  /\ pc' = "pump"
  /\ \/ /\ player.timeline = None
        /\ UNCHANGED <<player, jobs>>
     \/ /\ player.timeline # None /\ player.needs_publish
        /\ player' = PublishCurrent(player)
        /\ UNCHANGED jobs
     \/ /\ player.timeline # None /\ ~player.needs_publish /\ ~player.playing
        /\ UNCHANGED <<player, jobs>>
     \/ /\ player.timeline # None /\ ~player.needs_publish /\ player.playing
        /\ player.clock # "none"
        /\ \E s \in ClockRead(player) :
             AtTheLastFrame(s) \/ BeforeTheLastFrame(s)
  /\ UNCHANGED commands

\* The first frames of the window, as many as one pump reads: the reads
\* stop early when the next frame comes due.
Batches(wanted, playing) ==
  {asked \in SUBSET wanted :
     /\ Cardinality(asked) <= Workers
     /\ \A i \in asked, j \in wanted \ asked : i < j
     /\ wanted # {} => asked # {}
     /\ playing \/ Cardinality(asked) = Min({Workers, Cardinality(wanted)})}

Pump ==
  /\ pc = "pump"
  /\ pc' = "wait"
  /\ \/ player.timeline = None /\ UNCHANGED <<player, jobs>>
     \/ /\ player.timeline # None
        /\ LET s == player
               Pending(i) == HoldsAt(s.cache, i, s.reduce)
               waiting == {i \in s.in_flight : ~Pending(i)}
               last == Min({s.current_frame + lookahead_frames,
                            FramesAhead(s) - 1})
               wanted == {i \in s.current_frame..last :
                            ~Pending(i) /\ i \notin waiting}
               Entry(i, decoded) ==
                 [generation |-> s.generation, reduce |-> s.reduce,
                  display |-> s.display, from |-> FrameAt(s, i),
                  decoded |-> decoded]
           IN \E asked \in Batches(wanted, s.playing) :
              \E unread \in SUBSET {i \in asked : FrameAt(s, i) \in Bad} :
                /\ player' =
                     [s EXCEPT !.in_flight = waiting \cup (asked \ unread),
                        !.cache.frames =
                          [i \in DOMAIN @ \cup unread |->
                             IF i \in unread THEN Entry(i, FALSE) ELSE @[i]]]
                /\ jobs' = jobs \cup {[index |-> i, entry |-> Entry(i, TRUE)] :
                                        i \in asked \ unread}
  /\ UNCHANGED commands

(* A worker's answer, decoded or failed.                                   *)
DecodeFinished(job, decoded) ==
  /\ job \in jobs
  /\ decoded \/ job.entry.from \in Bad
  /\ jobs' = jobs \ {job}
  /\ player' = [player EXCEPT !.cache =
                  Store(@, job.index, [job.entry EXCEPT !.decoded = decoded])]
  /\ UNCHANGED <<pc, commands>>

(* Time passes.                                                            *)
ClockAdvances ==
  /\ player.clock # "none"
  /\ player.due < FrameCount[player.timeline] + MaxLate
  /\ player' = [player EXCEPT !.due = @ + 1]
  /\ UNCHANGED <<jobs, pc, commands>>

-----------------------------------------------------------------------------
(* The commands, one to a turn of the loop.                                *)

Command ==
  /\ pc = "wait"
  /\ pc' = "tick"
  /\ commands < MaxCommands
  /\ commands' = commands + 1

\* Load stops first, so a source that does not open leaves nothing loaded.
Load(composition, source) ==
  /\ Command
  /\ player' = LoadComposition(player, composition, source)
  /\ DiscardQueuedJobs

Stop(source) ==
  /\ Command
  /\ player' = StopPlayer(player, source)
  /\ DiscardQueuedJobs

QueueNext(composition) ==
  /\ player.timeline # None
  /\ Command
  /\ player' = [ClearQueued(player) EXCEPT !.queued = composition]
  /\ IF player.queued = None THEN UNCHANGED jobs ELSE DiscardQueuedJobs

DropQueued ==
  /\ player.queued # None
  /\ Command
  /\ player' = ClearQueued(player)
  /\ DiscardQueuedJobs

SetPaused(paused, source) ==
  /\ Command
  /\ \/ paused /\ player.playing /\ player' = Pause(player) /\ UNCHANGED jobs
     \/ /\ ~paused /\ player.timeline # None
        /\ player' = Play(player, source)
        /\ IF player.eof THEN DiscardQueuedJobs ELSE UNCHANGED jobs

Seek(frame, source) ==
  /\ player.timeline # None
  /\ Command
  /\ player' = SeekToFrame(player, frame, source)
  /\ DiscardQueuedJobs

\* A step pauses and seeks.
Step(frame, source) ==
  /\ player.timeline # None
  /\ Command
  /\ player' = SeekToFrame(Pause(player), frame, source)
  /\ DiscardQueuedJobs

SetDecodeScale(scale) ==
  /\ player.reduce # scale
  /\ Command
  /\ player' = ChangeFrameRendering([player EXCEPT !.reduce = scale])
  /\ DiscardQueuedJobs

\* A display transform, or a stereo output of a stereoscopic source.
SetDisplay(display) ==
  /\ Command
  /\ LET changed == ChangeFrameRendering([player EXCEPT !.display = display])
     IN player' = [changed EXCEPT !.cache =
                     RerenderFrom(@, changed.generation)]
  /\ DiscardQueuedJobs

\* A change of sound device, layout or delay.
RestartSound(source) ==
  /\ player.timeline # None /\ player.playing
  /\ Command
  /\ player' = NewClock(player, source)
  /\ UNCHANGED jobs

Handle ==
  \/ \E source \in ClockSources :
       \/ \E c \in Compositions : Load(c, source)
       \/ Stop(source)
       \/ \E paused \in BOOLEAN : SetPaused(paused, source)
       \/ \E f \in SeekTo : Seek(f, source) \/ Step(f, source)
       \/ RestartSound(source)
  \/ \E c \in Compositions : QueueNext(c)
  \/ DropQueued
  \/ \E r \in Scales : SetDecodeScale(r)
  \/ \E d \in Displays : SetDisplay(d)

Next ==
  \/ Tick
  \/ Pump
  \/ Handle
  \/ \E job \in jobs, decoded \in BOOLEAN : DecodeFinished(job, decoded)
  \/ ClockAdvances

(* The loop never waits longer than its timeout, every job a worker has    *)
(* taken is answered, and time passes.  No command has to come.            *)
Fairness ==
  /\ WF_vars(Tick \/ Pump)
  /\ WF_vars(ClockAdvances)
  /\ WF_vars(\E job \in jobs, decoded \in BOOLEAN : DecodeFinished(job, decoded))

Spec == Init /\ [][Next]_vars /\ Fairness

-----------------------------------------------------------------------------
EntryType == [generation : Nat, reduce : Scales, display : Displays,
              from : Compositions \X Nat, decoded : BOOLEAN]

\* Every field keeps its type.
PlayerTypeOK ==
  /\ player.timeline \in Compositions \cup {None}
  /\ player.queued \in Compositions \cup {None}
  /\ player.current_frame \in Nat
  /\ {player.needs_publish, player.playing, player.eof, player.unshown}
       \subseteq BOOLEAN
  /\ player.reduce \in Scales /\ player.display \in Displays
  /\ player.clock \in {"none", "wall", "sound"} /\ player.due \in Nat
  /\ player.generation \in Nat
  /\ player.in_flight \subseteq Nat
  /\ player.cache.dropped_before \in Nat
  /\ player.cache.rerendered_from \in Nat
  /\ DOMAIN player.cache.frames \subseteq Nat
  /\ \A i \in DOMAIN player.cache.frames :
       player.cache.frames[i] \in EntryType
  /\ player.shown \in {None} \cup Pictures
  /\ jobs \subseteq [index : Nat, entry : EntryType]
  /\ pc \in {"tick", "pump", "wait"}
  /\ commands \in 0..MaxCommands

(* Whatever answers arrive late, the picture held under an index is the    *)
(* picture of the frame the index stands for now, in the composition that  *)
(* plays or in the one queued behind it: dropped_before of the cache.      *)
CacheHoldsTheFramesItNames ==
  /\ player.timeline = None => DOMAIN player.cache.frames = {}
  /\ \A i \in DOMAIN player.cache.frames :
       /\ i < FramesAhead(player)
       /\ player.cache.frames[i].from = FrameAt(player, i)

(* What is on the screen is the current frame, unless the picture is still *)
(* to be published or the frame's decode failed: needs_publish is set by   *)
(* every command and every hand-off that moves the current frame.          *)
ScreenShowsTheCurrentFrame ==
  IF player.timeline = None
    THEN player.shown = None
    ELSE \/ player.needs_publish \/ player.unshown
         \/ /\ player.shown # None
            /\ player.shown.from = <<player.timeline, player.current_frame>>

(* The picture never runs ahead of the clock, across seeks, a lost sound   *)
(* device and the renumbering of a hand-off, and a playing player has a    *)
(* clock: without one tick does nothing for ever.                          *)
NeverAheadOfTheClock ==
  /\ player.playing = (player.clock # "none")
  /\ player.playing => player.current_frame <= player.due
                       /\ player.timeline # None

(* A frame counted as in flight is on its way, unless playback has passed  *)
(* it: its job of the current generation is in the pool, or its answer is  *)
(* in the cache as the frame would be made now.  Otherwise the pump would  *)
(* never ask for it again.                                                 *)
InFlightIsOnItsWay ==
  \A i \in {j \in player.in_flight : j >= player.current_frame} :
    \/ HoldsAt(player.cache, i, player.reduce)
    \/ \E job \in jobs : /\ job.index = i
                         /\ job.entry.generation = player.generation
                         /\ job.entry.reduce = player.reduce

\* Every frame of the window failed, and the clock points past the window:
\* there is no failure to skip over where it points.
Stalled ==
  /\ player.timeline # None
  /\ Min({player.due, LastFrame(player)})
       > player.current_frame + lookahead_frames
  /\ \A i \in 1..lookahead_frames :
       Failure(player.cache, player.current_frame + i)

(* Left alone, the player comes to rest: what is to be published is        *)
(* published or found to have failed, and playback reaches the end of what *)
(* is loaded and queued, unless it stalls on a window of failed frames.    *)
ComesToRest ==
  []<>(\/ player.timeline = None
       \/ ~player.needs_publish /\ (~player.playing \/ Stalled))
=============================================================================
