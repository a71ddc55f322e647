# postkit, verified

A TLA+ development of the concurrent and persistent parts of postkit, the Rust
library under the DCP and IMF wizards: what each part keeps, what its threads
do to it, the properties that make it correct. All are checked with TLC on small
instances; the safety properties of the passing runs are also proved with TLAPS,
for every value of the constants. Five runs show where the code does not do what
it says.

Paths are relative to the repository. `PROJECT.json` maps every definition to
the lines it stands for, lists the runs, the hazards and the properties that
cover them, and a mutant of the code for each property that breaks it.

## 1. The system

| Component | State it keeps | Operations | Interacts with | What is hard |
|---|---|---|---|---|
| Device lease (`src/device_lease.rs`) | who holds the accelerator, how many encodes wait | `acquire_for_encode`, `try_acquire_for_playback`, the two drops, `encode_wants_the_device` | encode batch, player backend | priority of the encode, one batch at a time |
| Player decode pool (`src/grok_player/decode_pool.rs`) | device and cpu queues, batch flags, frame cache, in-flight count | submit, restart, discard, drop; backend thread; pulls; callbacks; cpu workers | lease, plugin, scheduler | jobs moving between six places under five kinds of threads |
| Player scheduler (`src/grok_player/scheduler.rs`) | clock, current frame, generation, lookahead, queued composition | commands, pump, publish, hand-off | pool, presenter, sound | results of older generations, failed frames, end of reel |
| Player sound and presenter (`src/grok_player/audio.rs`, `presenter/`) | device stream, GL surface | mix, draw | scheduler | device I/O |
| Encode pipeline (`src/grok_encoder.rs`, `grok_encoder/video_pipeline.rs`, `encode/stream_encode.rs`) | bounded input queue, writer channel, error flag, batch, files | produce, encode, submit, call back, write, drain, join | lease, wrap, decoder | any stage failing while others are blocked; the batch's tail; resume |
| Overlapped MXF wrap (`src/mxf_wrap.rs`) | channel, reorder buffer, part file | send, accept, take_next, finish, abandon, Drop | encode, run | frames out of order, a limit, half-written files |
| Encode and wrap run (`src/pipeline.rs`) | the owner's end of the wrap | encode, cancel check, finish, report | both of the above | which error wins; cancel between the two |
| Frame loaders (`src/encode.rs`) | shared index, channel, first error | open, load, send, receive, merge | encode pipeline | a loader blocked when the pipeline has gone |
| ffmpeg decode (`src/ffmpeg_decode.rs`, `composite.rs`) | per decoder two threads, channels of 4, stop flag, outcome; per composite the layer that ended early | start, next, skip, stop, finish; read, finish | encode | joining threads blocked on channels; a failure stored too late to be found |
| Job queue (`src/job_queue.rs`) | queue, slot, history, cancel flag, jobs file | submit, move, cancel, take, start, finish, clear, exit, load | wizards' panels and worker | a job seen twice or never; stops between lines |
| Watch folder (`src/watch.rs`) | measurements, built flags | poll, mark built | job queue | a master still growing |
| KDM distribution (`src/kdm_distribution/`) | database of cinemas, screens, bookings, issue history, feed states | refresh a feed, save a cinema, book, issue, record, mark, deliver, expire | the feed's server, KDM store | overlapping refreshes, retries, stops between commits, keys that no longer fit |
| KDM store, package library (`src/kdm_store.rs`, `package_library.rs`) | files by id | load, ingest, remove, choose | player | replacement of files in use |
| Packaging, conform, certificates, immersive audio, picture, sound and subtitle code | none that outlives a call | sequential construction and parsing | all | arithmetic and formats |

Components compete in four places: the accelerator (an encode's batch against
the player's, through the lease), the picture essence (encoder threads, writer,
wrap thread and the caller, through two bounded channels), the player's frame
cache (the pool's workers against a scheduler that seeks and renumbers) and the
distributor's database (feed refreshes against bookings and issues). The models
follow those four compositions.

## 2. Modules

| Module | Models | Composes |
|---|---|---|
| `DeviceLease` | the lease as its lock sees it, and an encode around it | |
| `DecodeDevice` | the decode pool: scheduler's calls, backend thread, pulls, callbacks, cpu workers | `DeviceLease` |
| `DecodeDeviceProofs` | theorems: the lease, the types, each job's one place | `DecodeDevice` |
| `PictureTrack` | the abstract promise of a wrap: essence in order, file published once or discarded | |
| `OverlappedWrap` | sender, wrap thread, reorder buffer, part file; instance `Track` is the refinement | `PictureTrack` |
| `EncodePipeline` | producer, encoders, plugin batch, writer, join, wrap finish, verdict | `OverlappedWrap` |
| `EncodePipelineProofs` | theorems: the wrap implements the track, a failed run leaves no file | `EncodePipeline` |
| `EncodeFramesProofs` | theorems: frames conserved, a success is complete, types | `EncodePipelineProofs` |
| `LoadedFrames` | the loader threads in front of the pipeline | `EncodePipeline` |
| `LoadedFramesProofs` | theorems: every loaded frame is encoded, types | `LoadedFrames`, `EncodeFramesProofs` |
| `ResumeEncode` | an interrupted encode run again over what it left on disk | `EncodePipeline` |
| `JobQueue` | queue, slot, history, jobs file, exit, stops and reloads | |
| `JobQueueProofs` | theorems: list, file, cancel, exit, what has ended, types | `JobQueue` |
| `FrameCache` | the player's frame cache, one operator per method | |
| `PlayerScheduler` | the scheduler's loop: tick, pump, commands; workers' answers; the clock | `FrameCache` |
| `PlayerSchedulerProofs` | theorems: cache, screen, clock, jobs on their way, types | `PlayerScheduler` |
| `KdmDatabase` | cinemas, bookings, issues: every call that changes what is pending | |
| `KdmDistribution` | feed refreshes and the server beside them; stops of the process | `KdmDatabase` |
| `KdmProofs` | theorems: feed state, cinemas, issued keys, booked screens, types | `KdmDistribution` |
| `FfmpegDecode` | a decoder's source and graph threads, channels, outcome, stop | |
| `CompositeFrames` | the layers of a composite, their reader, finish and verdict | `FfmpegDecode` |
| `CompositeFramesProofs` | theorems: ends explained, the verdict's cause, no failure lost, types | `CompositeFrames` |
| `MC*` | bounds and symmetry for TLC | the above |

### How the state corresponds

*DeviceLease.* `encode_holds`, `encodes_waiting`, `playback_holds` are the
fields of `LeaseState`; `encode[e]` is where the encode thread `e` stands around
`acquire_for_encode`, `Batch::begin` and the drop of its lease. Each method body
runs under the mutex, so each is one action; the wait on the condition variable
is an action that is enabled when its loop's condition is.

*DecodeDevice.* `queue` and `cpu_queue` are the two `JobQueue`s, `pull_open`,
`batch_render` and `batch_colour` the fields of `CallbackState`, `hand` the job
in `Backend::run`, `pull[p]`/`pulled[p]` a plugin thread inside `pull_frame`,
`in_flight` the frames inside the plugin. A job is its id, its generation, its
render and the colour its batch must have. `SubmitToDevice` and `SubmitToCpu`
are the two routes of `submit`. The backend's `end_batch` is five actions,
because other threads run between its statements: the lease drop, the closing of
the pulls, the drain, and the passing on of what is left. The plugin is external
and modelled from how the code uses it: `begin` starts the pulls, a frame comes
back once, the last `HeldBack` come back only when the batch ends, `end` returns
after every pull has returned false and every frame came back.

*EncodePipeline.* `producer` is the calling thread from `Batch::begin` to the
return of `run_encode_and_maybe_wrap`; `encoder[e]`, `writer` the other threads;
`input_queue`/`closed` the `BoundedQueue`, `writer_channel` the bounded channel;
`codestreams` what each file holds. A frame is its index. Every fallible call
(decode, prepare, compress, submit, callback, write, byte cap, feed, drain) has
a failing outcome, and the host's cancel may come at any time.

*OverlappedWrap.* `pending` and `next_index` are the reorder buffer's;
`wrap` the wrap thread's position; `mxf` the file: none, under its part name, or
final. The limit on held bytes is a limit on held frames.

*JobQueue.* `jobs_file` is the file as `load` will read it: the last record of
each id, in the order of those records. Operations that hold the history lock
throughout are one action; `take_next`'s check of `closing`, `start` and
`stop_for_exit` do not hold it and are several. A stop may fall between any two
actions and between any two lines one action appends.

*FrameCache, PlayerScheduler.* `player` is the record of the scheduler's fields
with the cache and the picture on the screen in it, so that each method of the
code is an operator from one record to the next, called in the order of the
code. `jobs` are the jobs given to the pool and not answered: which queue or
worker has one is `DecodeDevice`'s matter, here they are answered in any order.
The clock is the frame it points at (`due`) and what leads it. Each turn of the
loop is a tick, a pump and at most one command; answers and time come between
any two. A cache entry carries, in place of its pixels, the composition and
frame they are of: that is what `CacheHoldsTheFramesItNames` compares with what
its index stands for. `unshown` is the one field the code has not: that the
current frame failed and is given up.

*KdmDatabase, KdmDistribution.* `cinemas[f]` is the version of the facility's
message the cinema was last saved from; a message is its screens' certificates.
`bookings[b].screens` is `booking_screens` with its two flags, `issues` the last
recorded KDM as the certificates and terms it was made for. What is one
transaction in the code is one action. `issuing` is an issue part way: KDMs
written from what was read at its start, then one commit per record, then one
per mark. `run[r]` is a refresh: it fetches without the database and saves with
it, and each of its calls may fail: a fetch, the reading of the state, the
saving of a message, the saving of the state (`SaveFeedStateFails`).
`unrecorded` is the one variable the code has not: the facilities a refresh
saved and could not note in the feed state since. A handle is `&mut`, so an
issue, the saving half of a refresh and an edit never overlap; fetches do.

*FfmpegDecode, CompositeFrames.* `source[l]`, `graph[l]` are the two threads of
layer `l`'s decoder, step by step where another thread can tell: a send, a
receive, the storing of a failure, the drop of a sender. `decoded`, `filtered`
are the channels, `frames[l]` whether the reader still has its receiver,
`failure[l]` the outcome's. `reader` is the encode's producer in `read_into`,
`stop_threads` or `finish`.

## 3. Runs

| Run | Result | Bounds | Question |
|---|---|---|---|
| `decode_device` | holds | 2 pulls, 1 encode, 2 jobs, 1 restart, 2 renders, 2 displays, 1 frame held back | is any frame lost or decoded twice, does an encode go first and get the device, does every job end |
| `lease_drop` | violated | 1 job, 1 encode | can two batches be open at once |
| `display_change` | violated | 2 jobs, 1 display change, no encode | does a job of the new display always get its batch |
| `encode_pipeline` | holds | 3 frames, 2 encoders, queues of 1, wrap limit 2 | does the run return, is a success complete, is anything left half written, is the essence in order |
| `loaded_frames` | holds | 3 frames, 2 loaders, 1 encoder, channel of 2, 2 frames held back, always a wrap | is every frame encoded though loaders race; does an untroubled run return |
| `loader_hang` | violated | 3 frames, 1 loader | does the run return when the pipeline fails |
| `resume_truncated` | violated | 2 frames, 2 encoders, 1 restart | does a truncated file survive a resume |
| `job_queue` | holds | 3 jobs, 1 stop | list, file, cancel and exit; what a stop inside a move or an exit costs |
| `jobs_rewrite` | violated | 2 jobs, 1 stop | is anything queued lost by a stop |
| `player_scheduler` | holds | compositions of 4 and 1 frames, 2 bad frames, 1 worker (window of 3), 2 scales, 2 commands after the load, 1 late job | do late answers, seeks, changes and hand-offs leave the right picture on the screen, and does playback come to rest |
| `kdm_distribution` | holds | 2 cinemas (2 and 1 screens, 2 and 1 versions), 1 booking, 3 edits, 2 refreshes, 1 failure or stop | does an issued key fit, is a booked screen lost, is a message lost, when is one overtaken by an older one |
| `composite_decode` | holds | 2 layers of 3 and 2 frames, channels of 1, windows of 2, 2 damaged frames | does a decode return, and with the reason it ended |

Why the bounds are enough for these questions: queues of one are full after one
push, so every blocking send blocks; two encoders and a held-back frame deliver
three frames in every order, and with a limit of two the wrap both reorders and
refuses; two pulls are the least that can hold jobs of two displays at once; a
third encode would only wait behind the second, which the theorems cover for
any number; three jobs are the least in which a move changes the order of jobs
that did not move. In the player a window of three frames reaches over the end
of a four-frame composition into the queued one and is filled by two failures
and the current frame, which is the stall; two commands are a queue and a seek,
a scale change and a pause, or any other pair. In the distribution two
certificates, one of them replaced, one screen given up and two refreshes are
the least that make a key out of date, a message refused and a refresh stale;
one failure or stop falls at every step. In the composite a channel of one is
full after one send, a graph that makes none, one or two frames of one blocks
and starves its neighbours, and each kind of failure has a layer. Larger
instances passed too: three commands in the player, two bookings and a wider
choice of screens in the distribution.

Deadlock is checked in `encode_pipeline`, where a run that has returned
stutters, and in `kdm_distribution`, where a refresh may always begin. The other
configurations switch it off because their systems may stop: a player nobody
feeds, a queue whose bounded ids are used up, and the loaders' hang, which is a
run of its own, or a composite whose reading is done (that it gets there is
`DecodeReturns`).

### Fairness

Weak fairness for each thread that the operating system schedules: backend, each
pull, cpu workers, plugin callbacks, each encoder, the writer, the wrap thread,
each loader, the calling thread. None for what nobody must do: submit, seek,
drop, cancel, ask for the device. The lease needs `EncodeTakes` weakly fair
only: once the player has given way nothing can take the device before the
waiting encode, which is what `EncodeGoesFirst` says.

The player's loop is fair because its wait for a command has a timeout, its
workers because each takes a job and ends it, and the clock because time passes.
A feed refresh is fair because the host refreshes again and again (that it does
is outside `src/`); an issue, once begun, goes on. The decoder's threads and
its reader are threads. No failure, command, edit or stop is fair.

### What the violated runs show

* `lease_drop`: `end_batch` takes the running batch out of its `Option` in the
  condition of an `if`; the temporary, and the lease in it, is dropped there,
  before `grk_plugin_batch_decompress_memory_end`. An encode can begin while the
  player's batch still drains.
* `display_change`: a pull that meets a job of another display closes the batch
  and puts the job back. With one job of each display about, the two can close
  each other's batch again and again.
* `loader_hang`: the receiver of the loaders' channel is a local of
  `encode_loaded_frames` and outlives the thread scope, so a loader blocked in
  `send` when the pipeline has failed is never released.
* `resume_truncated`: the writer writes in completion order, so the file an
  interruption truncates need not be the last.
* `jobs_rewrite`: `load` rewrites the jobs file in place; a stop after the
  truncation loses the queue.

### What the passing runs say, and where the code stops promising

* `decode_device`: `BatchUnderLease` asks for the lease while the backend begins
  and runs a batch, and for no lease, no open pull, no render and no plugin
  batch when it is back for its next job, a declined begin included. It asks
  nothing of the lease while a batch ends: there the code drops it too early,
  which is `lease_drop`.
* `job_queue`: a stop inside a move leaves some of its lines. `StopsKeepTheQueue`
  says that every job is still queued in the file, and after a stop inside an
  exit all but the front of the queue it had cancelled. The order after half a
  move may be neither the old nor the new (a, b, c with c moved first, two lines
  written, loads as b, c, a); no doc or test promises one.
* `player_scheduler`: `ComesToRest` has one exception, `Stalled`. A failed frame
  is skipped only when the clock points at it (`skip_over_a_failed_frame`). If
  every frame of the window failed and the clock is past the window, there is
  no failure where it points, the window does not move, and playback stands
  still while it says it plays. The run shows that nothing else stops it; the
  stall itself no property forbids, because no doc or test promises that a
  window of failures is passed.
* A scale or display change while playing asks for no new picture; paused before
  the next frame is shown, the screen keeps the old rendering. After the scale
  goes from full to half and back, a late half-scale answer of the newer
  generation replaces the full one, and the frame is decoded again.
* `kdm_distribution`: a message that lacks a booked screen is refused as a
  whole (`SaveRefused`), on purpose, and the cinema's other certificates stay
  old with it. A title whose DKDM is replaced and a cinema whose time zone
  changes flag no screen; a second issue of the same title, cinema and dates
  writes over the first one's ZIP.
* `apply_feed_refresh` turns a refresh away when the feed state is not the one
  it began from, since "its FLMs may be older than the ones another refresh
  already saved" (`flm_exchange.rs:269`). The state is saved last and apart from
  the cinemas. If that one statement fails (308), the cinemas stay saved, the
  state stays the old one, and a slower refresh that fetched an older message
  passes the comparison and saves it over the newer one, in one process and
  without a stop. The model reaches this in thirteen steps: two refreshes fetch
  the two versions of a message, `SaveFeedStateFails` ends the newer and
  `SaveNextFlm` saves the older. `OlderFlmOnlyAfterLostState` says that there is
  no other way: a cinema goes back only while its facility is in `unrecorded`.
  Two processes on one file have one more: the comparison and the saves are not
  one transaction.
* A cinema the user removed comes back only when its message changes.
* `composite_decode`: the source decodes ahead of the reader, so a damaged frame
  past the window makes an encode that read all its frames fail, or not,
  depending on the threads; the model reaches both.
* `is_building_into` of the job queue reads the slot, then the queue: a job
  `take_next` moves in between is seen in neither.

## 4. Proofs

Each safety property of a passing run is a theorem `Spec => []Inv`, or
`Spec => [][A]_vars` for the four action properties and the refinement. The
argument is always the same: an inductive invariant that the property follows
from, one lemma for each action (or each group of actions that touch the same
part of it), and a temporal step at the end. What differs, and what a reader
should look at, is what each invariant must say beyond its property.

Assumed are only the named `ASSUME`s of the modules, which TLC evaluates on each
run. Beside sizes and ranges they say that `None` and `NoJob` (the absent case
of an `Option`) are no value of the type they are absent from; that
a composite has at least one layer and its order lists each once; and that no
two facilities of the distribution share a screen, since a screen row belongs to
one cinema.

**The pool** (`DecodeDeviceProofs`; any encodes, pulls, jobs, bounds).
`LeaseIsExclusive`, `BatchRunsUnderLease`, `EncodeAlwaysGoesFirst`:
`NextIsLeaseStep` shows that every step of the composition is a step of the
lease or leaves it alone; `BatchRunsUnderLease` also needs `SetUpInv`, which
follows render, pulls and plugin batch from the begin to the steps of `end_batch`
that close them; `LeaseInv` adds to exclusion the finite set of encodes
and the count of the waiting ones, without which the release of one encode could
not be told from another's. `TypesAreKept`: beside `TypeOK`, `TypeInv` says that
the backend's hand and a pull are not empty while they work on a job and that a
batch that runs has polls left, else a push of "no job" into a queue could not
be excluded. `EveryJobHasOnePlace`: `PlaceInv` says that the seven places share
no id and hold together `1..submitted`, that no queue or pipeline holds an id
twice, that no two pulls hold the same, and that the hand is empty outside
`handle` and `begin`; `SessionInv` says that with no batch open every pull has
returned, so the drain at the end of a batch misses none.

**The pipeline** (`EncodePipelineProofs`, `EncodeFramesProofs`; any frames,
encoders, queue capacities, wrap limit, with or without a wrap or a batch). All
is proved of `AnyStep`, a step of the caller, of the other threads or none, so
that it can be used again for a pipeline fed by loaders; `NextIsAnyStep`.

* `WrapImplementsTrack`, the refinement: `AnyStepIsThreadStep` reduces a step to
  one of the wrap thread or of somebody who leaves its state alone; `TrackInv`
  ties the length of the essence to the reorder buffer's `next_index`, which
  makes each frame written the next one of the track, and the file to the wrap
  thread's position, which makes a rename or a removal find the part file.
* `NoRunLeavesHalfAFile` speaks of a run that has returned, so `FinishInv`
  follows the request to finish through the channel: until the calling thread
  asks, no such message exists, the wrap has not begun to finish and no success
  is recorded. `FramesTyped`: a message is a frame only if what the threads
  pass on are frames.
* `NoFrameIsLostOrDoubled`: `PlacesInv` gives each frame one of six places
  (input queue, encoder, batch, writer's channel, writer, disk); each action
  that moves a frame is the lemma that it leaves one and enters another.
  `EnteredInv` says that these are the frames the decoder gave, all of them
  until a stage fails or the host cancels.
* `SuccessIsNeverPartial`: `ControlInv` is the order in which threads end
  (encoders before the batch, the batch before the writer, unless a failure is
  recorded), so that a writer that is done and no error mean every sender has
  gone; `EncodedInv` counts the whole files in `frames_encoded`; `SuccessInv`
  carries that count through the drain check and the wrap's `finish` to the
  published file.
* `EncodeTypes`, from all of these and `BoundsInv`.

**The loaders** (`LoadedFramesProofs`, on the same `PipelineInv`; any loaders).
`EveryLoadedFrameArrives`: `FlowInv` keeps the frames with the loaders, in the
channel, in the caller's hand and in the pipeline apart and below the shared
index; `CountInv` says that the frames handed over are `next_frame` until it
passes the end, by at most one for each loader that has left; `EndInv` that
the pipeline ends early only on a failure or a cancel. Apart, below the end and
as many as there are frames makes them all the frames: no order is needed until
the reorder buffer, whose list `OrderInv` describes. `LoadedTypes` needs
`CountInv` too.

**The decode** (`CompositeFramesProofs`; any layers, lengths, channel capacity).
`EveryEndIsExplained`: `ReasonInv`, for one decoder, says that a graph out of
its loop met the end or a failure is stored, and that a source that hung up on a
graph still taking frames stored a failure or has its end in the channel.
`VerdictsNameTheCause` and `EveryFailureIsTaken`: `ReaderInv` says that a layer
whose outcome `finish` has taken has both threads joined and no failure, that a
thread joined stores none, and that `early` had ended. `DecodeTypesHold` is
about bounds: the channels, and counts that never pass what the source read.

**The distribution** (`KdmProofs`; any facilities, screens, messages, bookings,
refreshes). `FeedStaysBehind` and `CinemasGoBackOnlyAfterLostState`: `FeedInv`
says of each refresh on its way what it has fetched and from when (`WorkInv`),
that what it will claim is saved or still to be saved (`InstantsInv`), that of
those that save and the issue one holds the database (`OneHolder`), and, the
heart of it (`OvertakenInv`), that a refresh with an older message than the
database began before a state saved since, so that the comparison with
`previous` turns it away, unless the state of that facility could not be saved
(`unrecorded`). `IssuedKeysStayCurrent` and `BookedScreensStay`: `DatabaseInv`
adds to the two `PartsInv`, what an issue part way holds in its hands: KDMs made
for certificates and terms that cannot change while it holds the database, of
which each commit stores one, records before marks. `DistributionTypes` follows
from both.

**The player** (`PlayerSchedulerProofs`; any compositions, bad frames, window,
workers, scales). The methods are operators from a player to the next, so the
invariant is one of a player and a pool, `Consistent(player, jobs)`, and a lemma
for each operator is used by every command that calls it.
`CacheNamesItsFrames`: `JobsInv` says that a job in the pool that the cache
would accept (`dropped_before` or later) will answer with the frame its index
stands for now, over renumbering by a hand-off too; loads and seeks refuse what
is older. `CurrentFrameIsShown`, `PictureWaitsForTheClock`: `Shows`, `Timed`,
and `Placed` (a clock exactly while playing, the current frame within its
composition). `NothingAwaitedIsLost`: `InFlightInv`. `PlayerTypes` from
`Shaped` and the loop's own `LoopInv`.

**The job queue** (`JobQueueProofs`; any jobs and stops). The file is a sequence
from which records are taken and to which others are appended (`Kept`,
`WithRecords`), so it rests on lemmas about a finite set of positions counted
off in order (`CountedOff`, `CountsAll`) and about which records a file then
holds and in what order (`KeptIs`, `JoinedLines`, `RecordedLines`). `ControlInv`
is what no record bears on: `CancelIsForTheJobNamed` and `ExitReachesWhatRuns`
need only it. `PictureInv` says that each recorded job is in one of slot, queue
and history; that the file's queued records are the queue in its order, behind a
job in the slot not yet recorded running; that the history's records are the
file's: `EveryJobListedOnce` and `FileIsATruePicture`. `StopsCostNoJob` takes
from it what the file holds when the process stops, and from `RecordedIds` and
`FirstOf` what some lines of a move or an exit change. `LoadedInv` is what a
stop leaves and a load finds (each id once, none running once read, memory
empty), `IdsInv` keeps reserved ids out of the file. `EndedJobsStayEnded`: a job
that has ended is in the history and so in no queue a record is made from.

**Only model-checked** is all liveness (`EncodeGetsTheDevice`, `EveryJobEnds`,
`RunReturns`, `UntroubledRunReturns`, `ComesToRest`, `FeedCatchesUp`,
`DecodeReturns`): fairness and `ENABLED` are out of the prover's reach, as is
induction over data, of which no safety property here has need. The five
violated runs are counterexamples, which TLC shows.

## 5. What is left out, and what is simplified

* `BoundedQueue` and the channels are atomic; the lock and wake-up inside them
  are not steps.
* Pausing an encode, progress reports, error texts, buffer reuse.
* An append to the jobs file always succeeds (the code reports a failure and
  goes on); a torn last line is a line `load` skips, so it is no record at all.
* Merged or left out because no property can tell: the two queues a restart
  empties and the end of a batch re-routes to have a lock each, and stranded jobs
  are pushed one by one, which is one action here (`Restart`, `EndReroutes`); the
  plugin's `end` may return false, which is only warned about (`EndDrains`); a
  packet that cannot be read fails the source as a damaged frame does
  (`SourceDrains`); a site list that cannot be had or read ends a refresh
  with nothing changed, which is no step (`FetchSiteList`); the error of the
  compositor, which the scheduler only guards against (`Present`).
* The removal of a part file always succeeds (`WrapRemovesPart`).
* Creating directories before an encode; the one-shot wraps; sound and timed
  text tracks.
* The player's subtitles, overlays, sound data, counters, status and capacity
  measurement; a stereo pair is one frame; an empty composition.
* The distribution's names and renames, cinemas saved by hand, facilities that
  leave the list, time zones, titles, files, mail, deliveries, resends, imports
  and migrations; certificates outside a booking.
* The decoder's detection lines, probes, constant-rate arithmetic and device
  frames; layers held still or black.
* The watch folder: one sequential loop over a map, whose risks are in the file
  system's timing. `is_building_into`: nothing under `src/` calls it.
* Pure data (formats, colour, sound, arithmetic, XML, cryptography): no state to
  interleave, tested by value in the repository.

## 6. Plan

1. *Abstract specifications*: the job queue as a set of jobs with a state each,
   which only moves forward except by a reload, and the player's pool as a bag
   of requests answered once or dropped, so that `PlayerScheduler`'s view of its
   workers is shown to be what `DecodeDevice` provides. `PictureInv` and
   `PlaceInv` are the mappings they would need.
2. *Proofs*: that `ResumeEncode`'s second run, over files none of which is
   truncated, completes what the first left.
3. *Models*: deliveries and resends of the distribution, once their order with
   the records is promised somewhere; the KDM store.
