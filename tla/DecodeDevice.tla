----------------------------- MODULE DecodeDevice ----------------------------
(***************************************************************************)
(* The player's decode pool on the accelerator                             *)
(* (src/src/grok_player/decode_pool.rs, mod device), composed with the     *)
(* device lease and the encode batches that want the same device.          *)
(*                                                                         *)
(* Three kinds of threads meet here: the backend thread that begins and    *)
(* ends decode batches, the plugin's worker threads that call pull_frame   *)
(* and frame_callback, and the scheduler that submits and discards jobs.   *)
(* What the plugin itself does is external and is modelled from how the    *)
(* source uses it: begin starts the pulls, a frame comes back through the  *)
(* callback once, the tail is held back until the batch is ended, end      *)
(* returns after every pull has returned false and every frame came back.  *)
(***************************************************************************)
EXTENDS DeviceLease, SequencesExt

CONSTANTS
  MaxJobs,          \* bound: frames the scheduler submits
  MaxGeneration,    \* bound: seeks and display changes, each a generation
  Renders,          \* DisplayRender of the reels playing
  DcpXyz,           \* the render the display's transform colours
  Displays,         \* the display transforms the host may set
  Pulls,            \* the plugin's worker threads
  HeldBack,         \* frames the plugin keeps while no pull has more for it
  IdlePolls,        \* IDLE_POLLS_BEFORE_DRAIN
  NoJob, NoRender, NoGeneration, CpuColour

ASSUME DecodeDeviceAssumption ==
  /\ MaxJobs \in Nat /\ MaxGeneration \in Nat
  /\ HeldBack \in Nat /\ IdlePolls \in Nat \ {0}
  /\ Pulls # {} /\ Displays # {} /\ NoRender \notin Renders

VARIABLES
  submitted,            \* jobs the scheduler has made so far
  generation,           \* the scheduler's generation number
  display,              \* the scheduler's current display transform
  pool,                 \* "open", "dropping" (device queue closed), "dropped"
  queue,                \* the device queue
  cpu_queue,            \* the queue of the cpu workers
  pull_open,
  batch_render,
  batch_colour,         \* batch_device_colour
  backend,              \* where the backend thread is
  hand,                 \* the job it has popped
  declined_generation,
  idle_polls,
  returned,             \* a frame has come back since the last poll
  session,              \* the plugin's decode batch: "closed" or "open"
  pull,                 \* each pull: "out", "ready", "asleep" or "holding" a job
  pulled,               \* the job a pull holds
  in_flight,            \* jobs inside the plugin's pipeline
  decoded, discarded    \* history: ids a decode ended for, ids thrown away undecoded

schedulerVars == <<submitted, generation, display, pool>>
batchVars == <<pull_open, batch_render, batch_colour>>
backendVars == <<backend, hand, declined_generation, idle_polls>>
pluginVars == <<session, pull, pulled, in_flight, returned>>
resultVars == <<decoded, discarded>>
vars == <<leaseVars, schedulerVars, queue, cpu_queue, batchVars, backendVars,
          pluginVars, resultVars>>

Colours == Displays \cup {CpuColour}
Jobs == [id : 1..MaxJobs, generation : 0..MaxGeneration,
         render : Renders, colour : Colours]

ASSUME NoJobAssumption == NoJob \notin Jobs

BackendStates == {"popping", "handling", "beginning", "running", "closing",
                  "draining", "drained", "exited"}
Ids(jobs) == {job.id : job \in jobs}
QueueIds(q) == Ids(ToSet(q))

TypeOK ==
  /\ LeaseTypeOK
  /\ submitted \in 0..MaxJobs /\ generation \in 0..MaxGeneration
  /\ display \in Displays /\ pool \in {"open", "dropping", "dropped"}
  /\ queue \in Seq(Jobs) /\ cpu_queue \in Seq(Jobs)
  /\ pull_open \in BOOLEAN
  /\ batch_render \in Renders \cup {NoRender}
  /\ batch_colour \in Colours
  /\ backend \in BackendStates /\ hand \in Jobs \cup {NoJob}
  /\ declined_generation \in 0..MaxGeneration \cup {NoGeneration}
  /\ idle_polls \in 0..IdlePolls
  /\ returned \in BOOLEAN
  /\ session \in {"closed", "open"}
  /\ pull \in [Pulls -> {"out", "ready", "asleep", "holding"}]
  /\ pulled \in [Pulls -> Jobs \cup {NoJob}]
  /\ in_flight \subseteq Jobs
  /\ decoded \subseteq 1..MaxJobs /\ discarded \subseteq 1..MaxJobs

Init ==
  /\ LeaseInit
  /\ submitted = 0 /\ generation = 0 /\ pool = "open"
  /\ display \in Displays
  /\ queue = <<>> /\ cpu_queue = <<>>
  /\ pull_open = FALSE /\ batch_render = NoRender /\ batch_colour = CpuColour
  /\ backend = "popping" /\ hand = NoJob
  /\ declined_generation = NoGeneration
  /\ idle_polls = 0 /\ returned = FALSE
  /\ session = "closed" /\ in_flight = {}
  /\ pull = [p \in Pulls |-> "out"] /\ pulled = [p \in Pulls |-> NoJob]
  /\ decoded = {} /\ discarded = {}

-----------------------------------------------------------------------------
(* The condition variable of the device queue: a push notifies one sleeper. *)
NotifyOne(pulls) ==
  LET asleep == {p \in Pulls : pulls[p] = "asleep"} IN
  \/ asleep = {} /\ pull' = pulls
  \/ \E p \in asleep : pull' = [pulls EXCEPT ![p] = "ready"]

Woken == [p \in Pulls |-> IF pull[p] = "asleep" THEN "ready" ELSE pull[p]]

(* push_front; a closed queue drops the job.                               *)
PushFront(job, pulls) ==
  IF pool = "open"
  THEN queue' = <<job>> \o queue /\ NotifyOne(pulls) /\ UNCHANGED discarded
  ELSE discarded' = discarded \cup {job.id} /\ pull' = pulls /\ UNCHANGED queue

-----------------------------------------------------------------------------
(* The scheduler.                                                          *)

(* device_colour: what the batch has to colour this job's frame with.      *)
device_colour(render) == IF render = DcpXyz THEN display ELSE CpuColour

(* DecodePool::submit with a job routed to the device.                     *)
SubmitToDevice(render) ==
  /\ pool = "open" /\ submitted < MaxJobs
  /\ submitted' = submitted + 1
  /\ queue' = Append(queue, [id |-> submitted + 1, generation |-> generation,
                             render |-> render,
                             colour |-> device_colour(render)])
  /\ NotifyOne(pull)
  /\ UNCHANGED <<leaseVars, generation, display, pool, cpu_queue, batchVars, backendVars,
                 session, pulled, in_flight, returned, resultVars>>

(* The same with a job routed to the cpu workers, by its scale or because  *)
(* the device is switched off.                                             *)
SubmitToCpu(render) ==
  /\ pool = "open" /\ submitted < MaxJobs
  /\ submitted' = submitted + 1
  /\ cpu_queue' = Append(cpu_queue, [id |-> submitted + 1, generation |-> generation,
                                     render |-> render,
                                     colour |-> device_colour(render)])
  /\ UNCHANGED <<leaseVars, generation, display, pool, queue, batchVars, backendVars,
                 pluginVars, resultVars>>

(* A seek, a scale change or a new display transform: the generation moves *)
(* on and what has not started is discarded, to be asked for again.        *)
Restart(new_display) ==
  /\ pool = "open" /\ generation < MaxGeneration
  /\ display' = new_display
  /\ generation' = generation + 1
  /\ discarded' = discarded \cup QueueIds(queue) \cup QueueIds(cpu_queue)
  /\ queue' = <<>> /\ cpu_queue' = <<>>
  /\ UNCHANGED <<leaseVars, submitted, pool, batchVars, backendVars, pluginVars,
                 decoded>>

(* Drop for DecodePool: the device queue closes and wakes everyone, and the *)
(* cpu queue closes only once the backend thread has ended.                 *)
DropClosesDeviceQueue ==
  /\ pool = "open" /\ pool' = "dropping"
  /\ discarded' = discarded \cup QueueIds(queue)
  /\ queue' = <<>> /\ pull' = Woken
  /\ UNCHANGED <<leaseVars, submitted, generation, display, cpu_queue, batchVars,
                 backendVars, session, pulled, in_flight, returned, decoded>>

DropClosesCpuQueue ==
  /\ pool = "dropping" /\ backend = "exited" /\ pool' = "dropped"
  /\ discarded' = discarded \cup QueueIds(cpu_queue)
  /\ cpu_queue' = <<>>
  /\ UNCHANGED <<leaseVars, submitted, generation, display, queue, batchVars,
                 backendVars, pluginVars, decoded>>

(* run_worker: a cpu worker takes a job and decodes it, unless a seek has    *)
(* made it stale.                                                          *)
CpuDecodes ==
  /\ cpu_queue # <<>> /\ cpu_queue' = Tail(cpu_queue)
  /\ LET job == Head(cpu_queue) IN
     \/ decoded' = decoded \cup {job.id} /\ UNCHANGED discarded
     \/ /\ job.generation < generation
        /\ discarded' = discarded \cup {job.id} /\ UNCHANGED decoded
  /\ UNCHANGED <<leaseVars, schedulerVars, queue, batchVars, backendVars,
                 pluginVars>>

-----------------------------------------------------------------------------
(* The backend thread: Backend::run.                                       *)

BackendPops ==
  /\ backend = "popping" /\ queue # <<>>
  /\ hand' = Head(queue) /\ queue' = Tail(queue)
  /\ backend' = "handling" /\ idle_polls' = 0
  /\ UNCHANGED <<leaseVars, schedulerVars, cpu_queue, batchVars,
                 declined_generation, pluginVars,
                 resultVars>>

BackendExits ==
  /\ backend = "popping" /\ pool # "open"
  /\ backend' = "exited"
  /\ UNCHANGED <<leaseVars, schedulerVars, queue, cpu_queue, batchVars, hand,
                 declined_generation, idle_polls,
                 pluginVars, resultVars>>

HandToCpu ==
  /\ cpu_queue' = Append(cpu_queue, hand)
  /\ hand' = NoJob /\ backend' = "popping"

(* handle: an encode wants or holds the device, or the plugin declined     *)
(* this generation's shape, so the job goes to the cpu.                    *)
BackendFallsBack ==
  /\ backend = "handling"
  /\ \/ encode_wants_the_device
     \/ declined_generation = hand.generation
     \/ ~PlaybackMayTake
  /\ HandToCpu
  /\ UNCHANGED <<leaseVars, schedulerVars, queue, batchVars,
                 declined_generation, idle_polls,
                 pluginVars, resultVars>>

(* begin_batch up to the call of begin: the job in hand is the shape.      *)
BackendTakesDevice ==
  /\ backend = "handling"
  /\ declined_generation # hand.generation
  /\ PlaybackTakes
  /\ pull_open' = TRUE
  /\ batch_render' = hand.render
  /\ batch_colour' = hand.colour
  /\ backend' = "beginning"
  /\ UNCHANGED <<schedulerVars, queue, cpu_queue, hand, declined_generation,
                 idle_polls, pluginVars, resultVars>>

(* Inside begin the plugin starts its workers, which pull at once.         *)
PluginStartsBatch ==
  /\ backend = "beginning" /\ session = "closed"
  /\ session' = "open" /\ pull' = [p \in Pulls |-> "ready"]
  /\ UNCHANGED <<leaseVars, schedulerVars, queue, cpu_queue, batchVars,
                 backendVars, pulled, in_flight, returned, resultVars>>

(* begin returned 0: the batch runs and handle pushes its job back.        *)
BackendBegun ==
  /\ backend = "beginning" /\ session = "open"
  /\ backend' = "running"
  /\ idle_polls' = 0 /\ returned' = FALSE
  /\ PushFront(hand, pull) /\ hand' = NoJob
  /\ UNCHANGED <<leaseVars, schedulerVars, cpu_queue, batchVars,
                 declined_generation, session, pulled, in_flight, decoded>>

(* A bug: the pulls of a declined batch stay open.                          *)
BackendDeclinedStaysOpen ==
  /\ backend = "beginning" /\ session = "closed"
  /\ batch_render' = NoRender
  /\ PlaybackReleases
  /\ declined_generation' = hand.generation
  /\ HandToCpu
  /\ UNCHANGED <<schedulerVars, queue, pull_open, batch_colour, idle_polls, pluginVars,
                 resultVars>>

(* begin returned 1 or an error.                                           *)
BackendDeclined ==
  /\ backend = "beginning" /\ session = "closed"
  /\ pull_open' = FALSE /\ batch_render' = NoRender
  /\ PlaybackReleases
  /\ declined_generation' = hand.generation
  /\ HandToCpu
  /\ UNCHANGED <<schedulerVars, queue, batch_colour, idle_polls, pluginVars,
                 resultVars>>

(* end_batch takes the batch out of its Option; the temporary is dropped   *)
(* with the condition of the if, and the playback lease with it.           *)
EndBatch == PlaybackReleases /\ backend' = "closing"

(* A bug: the tail the plugin holds back is never drained.                  *)
NeverStalled == FALSE

Stalled ==
  in_flight # {} /\ queue = <<>> /\ ~returned

(* A poll that ends the batch for its owner: the pool is dropped, an       *)
(* encode wants the device, or a pull closed the batch.                    *)
BackendYields ==
  /\ backend = "running"
  /\ pool # "open" \/ encode_wants_the_device \/ ~pull_open
  /\ EndBatch
  /\ UNCHANGED <<schedulerVars, queue, cpu_queue, batchVars, hand,
                 declined_generation, idle_polls,
                 pluginVars, resultVars>>

(* A poll that counts a stalled tail, and drains it at the limit.          *)
BackendPolls ==
  /\ backend = "running" /\ pool = "open"
  /\ ~encode_wants_the_device /\ pull_open
  /\ returned' = FALSE
  /\ idle_polls' = IF Stalled THEN idle_polls + 1 ELSE 0
  /\ IF idle_polls' >= IdlePolls
     THEN EndBatch
     ELSE UNCHANGED <<leaseVars, backend>>
  /\ UNCHANGED <<schedulerVars, queue, cpu_queue, batchVars, hand,
                 declined_generation, session, pull, pulled, in_flight,
                 resultVars>>

(* The rest of end_batch: close the pulls and wake them, wait for end, and *)
(* pass what is still queued to the cpu when an encode took the device.    *)
EndClosesPulls ==
  /\ backend = "closing" /\ backend' = "draining"
  /\ pull_open' = FALSE /\ batch_render' = NoRender
  /\ pull' = Woken
  /\ UNCHANGED <<leaseVars, schedulerVars, queue, cpu_queue, batch_colour,
                 hand, declined_generation, idle_polls,
                 session, pulled, in_flight, returned, resultVars>>

(* The plugin's end, which is only warned about when it reports a failure. *)
EndDrains ==
  /\ backend = "draining" /\ backend' = "drained"
  /\ in_flight = {} /\ \A p \in Pulls : pull[p] = "out"
  /\ session' = "closed"
  /\ UNCHANGED <<leaseVars, schedulerVars, queue, cpu_queue, batchVars, hand,
                 declined_generation, idle_polls, pull,
                 pulled, in_flight, returned, resultVars>>

(* A bug: what goes to the cpu stays queued for the device.                 *)
EndReroutesCopies ==
  /\ backend = "drained" /\ backend' = "popping"
  /\ cpu_queue' = IF encode_wants_the_device THEN cpu_queue \o queue ELSE cpu_queue
  /\ UNCHANGED <<leaseVars, schedulerVars, queue, batchVars, hand,
                 declined_generation, idle_polls, pluginVars, resultVars>>

EndReroutes ==
  /\ backend = "drained" /\ backend' = "popping"
  /\ IF encode_wants_the_device
     THEN cpu_queue' = cpu_queue \o queue /\ queue' = <<>>
     ELSE UNCHANGED <<queue, cpu_queue>>
  /\ UNCHANGED <<leaseVars, schedulerVars, batchVars, hand,
                 declined_generation, idle_polls,
                 pluginVars, resultVars>>

-----------------------------------------------------------------------------
(* The plugin's worker threads.                                            *)

(* pop_while_open under the queue's lock: end, take a job, or sleep.       *)
PullPops(p) ==
  /\ pull[p] = "ready"
  /\ \/ /\ ~pull_open \/ pool # "open"
        /\ pull' = [pull EXCEPT ![p] = "out"]
        /\ UNCHANGED <<queue, pulled>>
     \/ /\ pull_open /\ pool = "open" /\ queue # <<>>
        /\ pull' = [pull EXCEPT ![p] = "holding"]
        /\ pulled' = [pulled EXCEPT ![p] = Head(queue)]
        /\ queue' = Tail(queue)
     \/ /\ pull_open /\ pool = "open" /\ queue = <<>>
        /\ pull' = [pull EXCEPT ![p] = "asleep"]
        /\ UNCHANGED <<queue, pulled>>
  /\ UNCHANGED <<leaseVars, schedulerVars, cpu_queue, batchVars, backendVars,
                 session, in_flight, returned, resultVars>>

OtherRender(job) == batch_render # NoRender /\ batch_render # job.render
OtherColour(job) == batch_colour # job.colour

(* The rest of pull_frame with the job it popped: a job of another render  *)
(* goes to the cpu, one of another colour closes the batch and goes back   *)
(* to the front, any other enters the pipeline.                            *)
PullChecks(p) ==
  LET job == pulled[p] IN
  /\ pull[p] = "holding"
  /\ pulled' = [pulled EXCEPT ![p] = NoJob]
  /\ \/ /\ OtherRender(job)
        /\ cpu_queue' = Append(cpu_queue, job)
        /\ pull' = [pull EXCEPT ![p] = "ready"]
        /\ UNCHANGED <<queue, pull_open, in_flight, discarded>>
     \/ /\ ~OtherRender(job) /\ OtherColour(job)
        /\ pull_open' = FALSE
        /\ PushFront(job, [pull EXCEPT ![p] = "out"])
        /\ UNCHANGED <<cpu_queue, in_flight>>
     \/ /\ ~OtherRender(job) /\ ~OtherColour(job)
        /\ in_flight' = in_flight \cup {job}
        /\ pull' = [pull EXCEPT ![p] = "ready"]
        /\ UNCHANGED <<queue, cpu_queue, pull_open, discarded>>
  /\ UNCHANGED <<leaseVars, schedulerVars, batch_render, batch_colour,
                 backendVars, session, returned, decoded>>

(* frame_callback: with an image the frame is decoded, with a null image   *)
(* the device refused it and the cpu pool takes it.                        *)
FrameReturns(job) ==
  /\ job \in in_flight
  /\ backend = "draining" \/ Cardinality(in_flight) > HeldBack
  /\ in_flight' = in_flight \ {job}
  /\ returned' = TRUE
  /\ \/ decoded' = decoded \cup {job.id} /\ UNCHANGED cpu_queue
     \/ cpu_queue' = Append(cpu_queue, job) /\ UNCHANGED decoded
  /\ UNCHANGED <<leaseVars, schedulerVars, queue, batchVars, backendVars,
                 session, pull, pulled, discarded>>

-----------------------------------------------------------------------------
Scheduler ==
  \/ \E render \in Renders : SubmitToDevice(render) \/ SubmitToCpu(render)
  \/ \E new_display \in Displays : Restart(new_display)
  \/ DropClosesDeviceQueue \/ DropClosesCpuQueue

Backend ==
  \/ BackendPops \/ BackendExits \/ BackendFallsBack \/ BackendTakesDevice
  \/ BackendBegun \/ BackendDeclined \/ BackendYields \/ BackendPolls
  \/ EndClosesPulls \/ EndDrains \/ EndReroutes

EncodeThreads ==
  /\ EncodeNext
  /\ UNCHANGED <<schedulerVars, queue, cpu_queue, batchVars, backendVars,
                 pluginVars, resultVars>>

Next ==
  \/ Scheduler \/ Backend \/ EncodeThreads \/ CpuDecodes \/ PluginStartsBatch
  \/ \E p \in Pulls : PullPops(p) \/ PullChecks(p)
  \/ \E job \in in_flight : FrameReturns(job)

(* Every thread that can move does; nobody has to ask, submit or seek.     *)
Fairness ==
  /\ WF_vars(Backend) /\ WF_vars(CpuDecodes) /\ WF_vars(PluginStartsBatch)
  /\ \A p \in Pulls : WF_vars(PullPops(p) \/ PullChecks(p))
  /\ WF_vars(\E job \in in_flight : FrameReturns(job))
  /\ WF_vars(DropClosesCpuQueue)
  /\ \A e \in Encodes :
       WF_vars((EncodeTakes(e) \/ EncodeReleases(e)) /\
               UNCHANGED <<schedulerVars, queue, cpu_queue, batchVars,
                           backendVars, pluginVars, resultVars>>)

Spec == Init /\ [][Next]_vars /\ Fairness

-----------------------------------------------------------------------------
(* Properties.                                                             *)

HandIds == IF hand = NoJob THEN {} ELSE {hand.id}
PulledIds == {pulled[p].id : p \in {q \in Pulls : pull[q] = "holding"}}

(* Every place a submitted job can be.                                     *)
Places == <<QueueIds(queue), QueueIds(cpu_queue), HandIds, PulledIds,
            Ids(in_flight), decoded, discarded>>

(* However the backend, the plugin's threads, an encode, a seek and the    *)
(* end of the player interleave, a submitted job is in exactly one place:  *)
(* none is lost on the way between the queue, a pull, the pipeline and the *)
(* cpu pool, and none is decoded twice.                                    *)
NoJobLostOrDoubled ==
  /\ LET places == Places IN
     /\ \A i \in 1..submitted : \E n \in DOMAIN places : i \in places[n]
     /\ \A m, n \in DOMAIN places : m < n => places[m] \cap places[n] = {}
  /\ Len(queue) = Cardinality(QueueIds(queue))
  /\ Len(cpu_queue) = Cardinality(QueueIds(cpu_queue))

(* The lease is held by one encode or by the player, never by two, and the *)
(* count of waiting encodes is the number of threads that wait.            *)
LeaseExclusive ==
  /\ ~(encode_holds /\ playback_holds)
  /\ encode_holds <=> \E e \in Encodes : encode[e] \in {"holding", "running"}
  /\ \A e, f \in Encodes :
       encode[e] \in {"holding", "running"} /\ encode[f] \in {"holding", "running"}
         => e = f
  /\ encodes_waiting = Cardinality({e \in Encodes : encode[e] = "waiting"})

(* The player's lease and what is set up for a batch go together.  The      *)
(* backend begins and serves a batch only with the lease and with its      *)
(* render on record; and once it is back for its next job, the batch ended *)
(* or declined or never begun, nothing of one is left: not the lease, not  *)
(* the open pulls, not the render, not the plugin's batch.  Of the lease   *)
(* while a batch ends it says nothing: end_batch drops it too early, and   *)
(* OneBatchAtATime is the property about that.                             *)
BatchUnderLease ==
  /\ backend \in {"beginning", "running"} =>
       playback_holds /\ batch_render # NoRender
  /\ backend \in {"popping", "handling", "exited"} =>
       /\ ~playback_holds /\ ~pull_open
       /\ batch_render = NoRender /\ session = "closed"

(* device_lease.rs:3, "one accelerator device, one batch at a time": the   *)
(* plugin never has a decode batch and an encode batch open together.      *)
OneBatchAtATime ==
  ~(session = "open" /\ \E e \in Encodes : encode[e] = "running")

(* A player never takes the device ahead of an encode that asked for it.   *)
PlayerTakesOnlyUnwanted ==
  playback_holds' /\ ~playback_holds => ~encode_wants_the_device

EncodeGoesFirst == [][PlayerTakesOnlyUnwanted]_vars

(* An encode that waits gets the device: the backend notices within a poll *)
(* and gives way even while every pull sleeps on an empty queue.           *)
EncodeGetsTheDevice == (encodes_waiting > 0) ~> encode_holds

(* Two displays' colours are mixed among the jobs not yet decoded.         *)
Unfinished == ToSet(queue) \cup {hand} \cup {pulled[p] : p \in Pulls}
DisplaysMix ==
  \E a, b \in Unfinished \ {NoJob} : a.colour # b.colour

AllEnded == 1..submitted \subseteq decoded \cup discarded

(* Every submitted job ends in a result or is discarded, the tail the      *)
(* plugin holds back included, as long as no display change left jobs of   *)
(* two colours together.                                                   *)
EveryJobEnds == []<>(AllEnded \/ DisplaysMix)

(* decode_pool.rs:1071, "the backend ends this batch and begins one for    *)
(* the new display transform": a job that met a batch of another colour is *)
(* decoded by a later one.                                                 *)
NewDisplayGetsItsBatch == []<>AllEnded

=============================================================================
