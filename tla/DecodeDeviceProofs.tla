-------------------------- MODULE DecodeDeviceProofs -------------------------
(***************************************************************************)
(* Proofs about the device lease under the player's decode batch and any   *)
(* finite set of encodes.                                                  *)
(***************************************************************************)
EXTENDS DecodeDevice, FiniteSetTheorems, SequenceTheorems, TLAPS

Waiting == {e \in Encodes : encode[e] = "waiting"}
Holders == {e \in Encodes : encode[e] \in {"holding", "running"}}

(* What the lease's operations do to its own variables.                    *)
LeaseStep ==
  \/ EncodeNext \/ PlaybackTakes \/ PlaybackReleases \/ UNCHANGED leaseVars

\* The player has the lease from its taking it up to end_batch's first line.
HeldForBatch == playback_holds <=> backend \in {"beginning", "running"}

(* The inductive invariant: the lease's types, who holds it, and that the  *)
(* player holds it exactly while its batch begins or runs.                 *)
LeaseInv ==
  /\ LeaseTypeOK
  /\ LeaseExclusive
  /\ HeldForBatch

(* Every step of the composed system is a step of the lease or leaves it.  *)
LEMMA NextIsLeaseStep == [Next]_vars => LeaseStep
<1>1. Scheduler => UNCHANGED leaseVars
  BY DEF Scheduler, SubmitToDevice, SubmitToCpu, Restart, DropClosesDeviceQueue,
         DropClosesCpuQueue, leaseVars
<1>2. Backend => LeaseStep
  BY DEF Backend, BackendPops, BackendExits, BackendFallsBack, BackendTakesDevice,
         BackendBegun, BackendDeclined, BackendYields, BackendPolls, EndBatch,
         EndClosesPulls, EndDrains, EndReroutes, LeaseStep, leaseVars
<1>3. EncodeThreads => LeaseStep
  BY DEF EncodeThreads, LeaseStep
<1>4. CpuDecodes \/ PluginStartsBatch => UNCHANGED leaseVars
  BY DEF CpuDecodes, PluginStartsBatch, leaseVars
<1>5. ASSUME NEW p \in Pulls, PullPops(p) \/ PullChecks(p)
      PROVE  UNCHANGED leaseVars
  BY <1>5 DEF PullPops, PullChecks, leaseVars
<1>6. ASSUME NEW job \in in_flight, FrameReturns(job)
      PROVE  UNCHANGED leaseVars
  BY <1>6 DEF FrameReturns, leaseVars
<1>7. UNCHANGED vars => UNCHANGED leaseVars
  BY DEF vars, leaseVars
<1>8. QED
  BY <1>1, <1>2, <1>3, <1>4, <1>5, <1>6, <1>7 DEF Next, LeaseStep

(* The waiting count follows the set of waiting threads.                   *)
LEMMA WaitingCount ==
  ASSUME LeaseTypeOK, IsFiniteSet(Encodes), NEW e \in Encodes,
         NEW to \in EncodeStates,
         encode' = [encode EXCEPT ![e] = to]
  PROVE  /\ (encode[e] # "waiting" /\ to # "waiting") => Waiting' = Waiting
         /\ (encode[e] # "waiting" /\ to = "waiting")
              => Cardinality(Waiting') = Cardinality(Waiting) + 1
         /\ (encode[e] = "waiting" /\ to # "waiting")
              => Cardinality(Waiting') = Cardinality(Waiting) - 1
<1>1. IsFiniteSet(Waiting)
  BY FS_Subset DEF Waiting
<1>2. CASE encode[e] # "waiting" /\ to # "waiting"
  BY <1>2 DEF Waiting, LeaseTypeOK
<1>3. CASE encode[e] # "waiting" /\ to = "waiting"
  <2>1. Waiting' = Waiting \cup {e} /\ e \notin Waiting
    BY <1>3 DEF Waiting, LeaseTypeOK
  <2>2. QED BY <2>1, <1>1, <1>3, FS_AddElement
<1>4. CASE encode[e] = "waiting" /\ to # "waiting"
  <2>1. Waiting' = Waiting \ {e} /\ e \in Waiting
    BY <1>4 DEF Waiting, LeaseTypeOK
  <2>2. QED BY <2>1, <1>1, <1>4, FS_RemoveElement
<1>5. QED
  BY <1>2, <1>3, <1>4

(* A step of the lease keeps it exclusive and its waiting count exact.     *)
LEMMA LeaseStepKeepsExclusion ==
  ASSUME LeaseTypeOK, LeaseExclusive, LeaseStep
  PROVE  LeaseTypeOK' /\ LeaseExclusive'
<1> USE EncodesAssumption
<1>1. IsFiniteSet(Waiting') /\ Cardinality(Waiting') \in Nat
  BY FS_Subset, FS_CardinalityType DEF Waiting
<1>2. CASE UNCHANGED leaseVars
  BY <1>2 DEF LeaseTypeOK, LeaseExclusive, leaseVars
<1>3. CASE PlaybackTakes
  BY <1>3 DEF PlaybackTakes, PlaybackMayTake, LeaseTypeOK, LeaseExclusive
<1>4. CASE PlaybackReleases
  BY <1>4 DEF PlaybackReleases, LeaseTypeOK, LeaseExclusive
<1>5. ASSUME NEW e \in Encodes, EncodeAsks(e)
      PROVE  LeaseTypeOK' /\ LeaseExclusive'
  <2>1. CASE ~DeviceHeld
    <3>1. /\ encode[e] = "idle" /\ encode' = [encode EXCEPT ![e] = "holding"]
          /\ encode_holds' = TRUE
          /\ UNCHANGED <<encodes_waiting, playback_holds>>
      BY <1>5, <2>1 DEF EncodeAsks, EncodeAt
    <3>2. Waiting' = Waiting
      BY <3>1, WaitingCount DEF EncodeStates
    <3>3. LeaseTypeOK'
      BY <3>1 DEF LeaseTypeOK, EncodeStates
    <3>4. QED
      BY <2>1, <3>1, <3>2, <3>3
      DEF LeaseTypeOK, LeaseExclusive, DeviceHeld, EncodeStates, Waiting
  <2>2. CASE DeviceHeld
    <3>1. /\ encode[e] = "idle" /\ encode' = [encode EXCEPT ![e] = "waiting"]
          /\ encodes_waiting' = encodes_waiting + 1
          /\ UNCHANGED <<encode_holds, playback_holds>>
      BY <1>5, <2>2 DEF EncodeAsks, EncodeAt
    <3>2. Cardinality(Waiting') = Cardinality(Waiting) + 1
      BY <3>1, WaitingCount DEF EncodeStates
    <3>3. LeaseTypeOK'
      BY <3>1 DEF LeaseTypeOK, EncodeStates
    <3>4. QED
      BY <2>2, <3>1, <3>2, <3>3
      DEF LeaseTypeOK, LeaseExclusive, EncodeStates, Waiting
  <2>3. QED BY <2>1, <2>2
<1>6. ASSUME NEW e \in Encodes, EncodeTakes(e)
      PROVE  LeaseTypeOK' /\ LeaseExclusive'
  <2>1. /\ encode[e] = "waiting" /\ encode' = [encode EXCEPT ![e] = "holding"]
        /\ encodes_waiting' = encodes_waiting - 1
        /\ encode_holds' = TRUE /\ UNCHANGED playback_holds /\ ~DeviceHeld
    BY <1>6 DEF EncodeTakes, EncodeAt
  <2>2. Cardinality(Waiting') = Cardinality(Waiting) - 1
    BY <2>1, WaitingCount DEF EncodeStates
  <2>3. encodes_waiting' \in Nat /\ encodes_waiting' = Cardinality(Waiting')
    BY <1>1, <2>1, <2>2 DEF LeaseTypeOK, LeaseExclusive, Waiting
  <2>4. LeaseTypeOK'
    BY <2>1, <2>3 DEF LeaseTypeOK, EncodeStates
  <2>5. QED
    BY <2>1, <2>3, <2>4
    DEF LeaseTypeOK, LeaseExclusive, DeviceHeld, EncodeStates, Waiting
<1>7. ASSUME NEW e \in Encodes, EncodeBegins(e)
      PROVE  LeaseTypeOK' /\ LeaseExclusive'
  <2>1. /\ encode[e] = "holding" /\ encode' = [encode EXCEPT ![e] = "running"]
        /\ UNCHANGED <<encode_holds, encodes_waiting, playback_holds>>
    BY <1>7 DEF EncodeBegins, EncodeAt
  <2>2. Waiting' = Waiting
    BY <2>1, WaitingCount DEF EncodeStates
  <2>3. QED
    BY <2>1, <2>2 DEF LeaseTypeOK, LeaseExclusive, EncodeStates, Waiting
<1>8. ASSUME NEW e \in Encodes, EncodeReleases(e)
      PROVE  LeaseTypeOK' /\ LeaseExclusive'
  <2>1. /\ encode[e] \in {"holding", "running"}
        /\ encode' = [encode EXCEPT ![e] = "done"]
        /\ encode_holds' = FALSE
        /\ UNCHANGED <<encodes_waiting, playback_holds>>
    BY <1>8 DEF EncodeReleases, EncodeAt
  <2>2. Waiting' = Waiting
    BY <2>1, WaitingCount DEF EncodeStates
  <2>3. QED
    BY <2>1, <2>2 DEF LeaseTypeOK, LeaseExclusive, EncodeStates, Waiting
<1>9. QED
  BY <1>2, <1>3, <1>4, <1>5, <1>6, <1>7, <1>8 DEF LeaseStep, EncodeNext

(* The player takes the lease to begin a batch and drops it to end one.    *)
LEMMA NextKeepsHeldForBatch ==
  ASSUME LeaseTypeOK, HeldForBatch, [Next]_vars
  PROVE  HeldForBatch'
<1> USE DEF HeldForBatch
<1>1. ASSUME UNCHANGED <<playback_holds, backend>>
      PROVE  HeldForBatch'
  BY <1>1
<1>2. CASE Scheduler
  BY <1>2, <1>1 DEF Scheduler, SubmitToDevice, SubmitToCpu, Restart, DropClosesDeviceQueue,
                    DropClosesCpuQueue, leaseVars, backendVars
<1>3. CASE Backend
  <2>1. CASE BackendPops \/ BackendExits \/ BackendFallsBack
    BY <2>1 DEF BackendPops, BackendExits, BackendFallsBack, HandToCpu, leaseVars
  <2>2. CASE BackendTakesDevice
    BY <2>2 DEF BackendTakesDevice, PlaybackTakes
  <2>3. CASE BackendBegun
    BY <2>3 DEF BackendBegun, leaseVars
  <2>4. CASE BackendDeclined
    BY <2>4 DEF BackendDeclined, HandToCpu, PlaybackReleases
  <2>5. CASE BackendYields
    BY <2>5 DEF BackendYields, EndBatch, PlaybackReleases
  <2>6. CASE BackendPolls
    BY <2>6 DEF BackendPolls, EndBatch, PlaybackReleases, leaseVars
  <2>7. CASE EndClosesPulls \/ EndDrains \/ EndReroutes
    BY <2>7 DEF EndClosesPulls, EndDrains, EndReroutes, leaseVars
  <2>8. QED
    BY <1>3, <2>1, <2>2, <2>3, <2>4, <2>5, <2>6, <2>7 DEF Backend
<1>4. CASE EncodeThreads
  BY <1>4, <1>1 DEF EncodeThreads, EncodeNext, EncodeAsks, EncodeTakes,
                    EncodeBegins, EncodeReleases, backendVars
<1>5. CASE CpuDecodes \/ PluginStartsBatch
  BY <1>5, <1>1 DEF CpuDecodes, PluginStartsBatch, leaseVars, backendVars
<1>6. ASSUME NEW p \in Pulls, PullPops(p) \/ PullChecks(p)
      PROVE  HeldForBatch'
  BY <1>6, <1>1 DEF PullPops, PullChecks, leaseVars, backendVars
<1>7. ASSUME NEW job \in in_flight, FrameReturns(job)
      PROVE  HeldForBatch'
  BY <1>7, <1>1 DEF FrameReturns, leaseVars, backendVars
<1>8. CASE UNCHANGED vars
  BY <1>8, <1>1 DEF vars, leaseVars, backendVars
<1>9. QED
  BY <1>2, <1>3, <1>4, <1>5, <1>6, <1>7, <1>8 DEF Next

LEMMA LeaseInvInductive ==
  /\ Init => LeaseInv
  /\ LeaseInv /\ [Next]_vars => LeaseInv'
<1>1. Init => LeaseInv
  <2> SUFFICES ASSUME Init PROVE LeaseInv
    OBVIOUS
  <2>1. {e \in Encodes : encode[e] = "waiting"} = {}
    BY DEF Init, LeaseInit
  <2>2. QED
    BY <2>1, FS_EmptySet DEF Init, LeaseInit, LeaseInv, LeaseTypeOK, EncodeStates,
                             LeaseExclusive, HeldForBatch
<1>2. LeaseInv /\ [Next]_vars => LeaseInv'
  BY NextIsLeaseStep, LeaseStepKeepsExclusion, NextKeepsHeldForBatch DEF LeaseInv
<1>3. QED
  BY <1>1, <1>2

(* For any finite set of encodes and however they interleave with the      *)
(* player's backend, the device lease has at most one holder and counts    *)
(* its waiting encodes exactly (device_lease.rs acquire and drop).         *)
THEOREM LeaseIsExclusive == Spec => []LeaseExclusive
<1>1. LeaseInv => LeaseExclusive
  BY DEF LeaseInv
<1>2. QED
  BY <1>1, LeaseInvInductive, PTL DEF Spec

(* No step gives the player the device while an encode holds it or waits   *)
(* for it (device_lease.rs try_acquire_for_playback).                      *)
THEOREM EncodeAlwaysGoesFirst == Spec => EncodeGoesFirst
<1>1. LeaseStep => PlayerTakesOnlyUnwanted
  <2>1. PlaybackTakes => PlayerTakesOnlyUnwanted
    <3>1. encodes_waiting = 0 => ~(encodes_waiting > 0)
      OBVIOUS
    <3>2. QED
      BY <3>1, Zenon DEF PlaybackTakes, PlaybackMayTake, PlayerTakesOnlyUnwanted,
                         encode_wants_the_device
  <2>2. PlaybackReleases => PlayerTakesOnlyUnwanted
    BY DEF PlaybackReleases, PlayerTakesOnlyUnwanted
  <2>3. EncodeNext \/ UNCHANGED leaseVars => UNCHANGED playback_holds
    BY DEF EncodeNext, EncodeAsks, EncodeTakes, EncodeBegins, EncodeReleases,
           leaseVars
  <2>4. UNCHANGED playback_holds => PlayerTakesOnlyUnwanted
    BY Zenon DEF PlayerTakesOnlyUnwanted
  <2>5. QED
    BY <2>1, <2>2, <2>3, <2>4 DEF LeaseStep
<1>2. [Next]_vars => [PlayerTakesOnlyUnwanted]_vars
  BY <1>1, NextIsLeaseStep
<1>3. QED
  BY <1>2, PTL DEF Spec, EncodeGoesFirst

-----------------------------------------------------------------------------
(* Types.  Beside TypeOK: a job is in the backend's hand and in a pull's    *)
(* while they work on it, and a batch that runs has polls left.            *)
TypeInv ==
  /\ TypeOK
  /\ backend \in {"handling", "beginning"} => hand \in Jobs
  /\ \A p \in Pulls : pull[p] = "holding" => pulled[p] \in Jobs
  /\ backend = "running" => idle_polls < IdlePolls

LEMMA QueueIdsTyped ==
  ASSUME NEW q \in Seq(Jobs)
  PROVE  QueueIds(q) \subseteq 1..MaxJobs
<1>1. \A i \in DOMAIN q : q[i] \in Jobs
  BY ElementOfSeq, LenProperties
<1>2. \A job \in Jobs : job.id \in 1..MaxJobs
  BY DEF Jobs
<1>3. ToSet(q) \subseteq Jobs
  BY <1>1 DEF ToSet
<1>4. QED
  BY <1>2, <1>3 DEF QueueIds, Ids

LEMMA NotifyOneTyped ==
  ASSUME NEW pulls \in [Pulls -> {"out", "ready", "asleep", "holding"}],
         NotifyOne(pulls)
  PROVE  /\ pull' \in [Pulls -> {"out", "ready", "asleep", "holding"}]
         /\ \A p \in Pulls : pull'[p] = "holding" => pulls[p] = "holding"
BY DEF NotifyOne

LEMMA PushFrontTyped ==
  ASSUME TypeOK, NEW job \in Jobs,
         NEW pulls \in [Pulls -> {"out", "ready", "asleep", "holding"}],
         PushFront(job, pulls)
  PROVE  /\ queue' \in Seq(Jobs) /\ discarded' \subseteq 1..MaxJobs
         /\ pull' \in [Pulls -> {"out", "ready", "asleep", "holding"}]
         /\ \A p \in Pulls : pull'[p] = "holding" => pulls[p] = "holding"
<1>1. queue \in Seq(Jobs) /\ discarded \subseteq 1..MaxJobs /\ job.id \in 1..MaxJobs
  BY DEF TypeOK, Jobs
<1>2. <<job>> \o queue \in Seq(Jobs)
  BY <1>1, ConcatProperties
<1>3. CASE pool = "open"
  BY <1>1, <1>2, <1>3, NotifyOneTyped DEF PushFront
<1>4. CASE pool # "open"
  BY <1>1, <1>4 DEF PushFront
<1>5. QED
  BY <1>3, <1>4

LEMMA SchedulerKeepsTypes ==
  ASSUME TypeInv, Scheduler
  PROVE  TypeInv'
<1> USE DecodeDeviceAssumption DEF TypeInv, TypeOK, LeaseTypeOK, leaseVars, batchVars,
                                   backendVars, pluginVars, resultVars
<1>1. ASSUME NEW render \in Renders, SubmitToDevice(render)
      PROVE  TypeInv'
  <2> DEFINE job == [id |-> submitted + 1, generation |-> generation,
                     render |-> render, colour |-> device_colour(render)]
  <2>1. submitted + 1 \in 1..MaxJobs /\ submitted' \in 0..MaxJobs
    BY <1>1 DEF SubmitToDevice
  <2>2. job \in Jobs
    BY <2>1 DEF Jobs, Colours, device_colour
  <2>3. queue' \in Seq(Jobs)
    <3>1. queue' = Append(queue, job)
      BY <1>1 DEF SubmitToDevice
    <3>2. QED
      BY <2>2, <3>1, AppendProperties
  <2>4. /\ pull' \in [Pulls -> {"out", "ready", "asleep", "holding"}]
        /\ \A p \in Pulls : pull'[p] = "holding" => pull[p] = "holding"
    BY <1>1, NotifyOneTyped DEF SubmitToDevice
  <2>5. QED
    BY <1>1, <2>1, <2>3, <2>4 DEF SubmitToDevice
<1>2. QueueIds(queue) \subseteq 1..MaxJobs /\ QueueIds(cpu_queue) \subseteq 1..MaxJobs
      /\ <<>> \in Seq(Jobs)
  BY QueueIdsTyped, EmptySeq
<1>7. ASSUME NEW render \in Renders, SubmitToCpu(render)
      PROVE  TypeInv'
  <2> DEFINE job == [id |-> submitted + 1, generation |-> generation,
                     render |-> render, colour |-> device_colour(render)]
  <2>1. submitted + 1 \in 1..MaxJobs /\ submitted' \in 0..MaxJobs
    BY <1>7 DEF SubmitToCpu
  <2>2. job \in Jobs
    BY <2>1 DEF Jobs, Colours, device_colour
  <2>3. cpu_queue' \in Seq(Jobs)
    <3>1. cpu_queue' = Append(cpu_queue, job)
      BY <1>7 DEF SubmitToCpu
    <3>2. QED
      BY <2>2, <3>1, AppendProperties
  <2>4. QED
    BY <1>7, <2>1, <2>3 DEF SubmitToCpu
<1>3. ASSUME NEW new_display \in Displays, Restart(new_display)
      PROVE  TypeInv'
  <2>1. generation' \in 0..MaxGeneration
    BY <1>3 DEF Restart
  <2>2. QED
    BY <1>2, <1>3, <2>1 DEF Restart
<1>4. CASE DropClosesDeviceQueue
  <2>1. /\ pull' \in [Pulls -> {"out", "ready", "asleep", "holding"}]
        /\ \A p \in Pulls : pull'[p] = "holding" => pull[p] = "holding"
    BY <1>4 DEF DropClosesDeviceQueue, Woken
  <2>2. QED
    BY <1>2, <1>4, <2>1 DEF DropClosesDeviceQueue
<1>5. CASE DropClosesCpuQueue
  BY <1>2, <1>5 DEF DropClosesCpuQueue
<1>6. QED
  BY <1>1, <1>3, <1>4, <1>5, <1>7 DEF Scheduler

LEMMA BackendKeepsTypes ==
  ASSUME TypeInv, Backend
  PROVE  TypeInv'
<1> USE DecodeDeviceAssumption DEF TypeInv, TypeOK, LeaseTypeOK, leaseVars, batchVars,
                                   schedulerVars, pluginVars, resultVars, BackendStates
<1>1. CASE BackendPops
  <2>1. hand' \in Jobs /\ queue' \in Seq(Jobs)
    BY <1>1, HeadTailProperties DEF BackendPops
  <2>2. QED
    BY <1>1, <2>1 DEF BackendPops
<1>2. CASE BackendExits
  BY <1>2 DEF BackendExits
<1>3. ASSUME HandToCpu, hand \in Jobs
      PROVE  cpu_queue' \in Seq(Jobs) /\ hand' = NoJob /\ backend' = "popping"
  BY <1>3, AppendProperties DEF HandToCpu
<1>4. CASE BackendFallsBack
  BY <1>3, <1>4 DEF BackendFallsBack
<1>5. CASE BackendTakesDevice
  BY <1>5 DEF BackendTakesDevice, PlaybackTakes, Jobs
<1>6. CASE BackendBegun
  <2>1. /\ queue' \in Seq(Jobs) /\ discarded' \subseteq 1..MaxJobs
        /\ pull' \in [Pulls -> {"out", "ready", "asleep", "holding"}]
        /\ \A p \in Pulls : pull'[p] = "holding" => pull[p] = "holding"
    BY <1>6, PushFrontTyped DEF BackendBegun
  <2>2. idle_polls' = 0 /\ 0 \in 0..IdlePolls /\ 0 < IdlePolls
    BY <1>6 DEF BackendBegun
  <2>3. QED
    BY <1>6, <2>1, <2>2 DEF BackendBegun
<1>7. CASE BackendDeclined
  <2>1. declined_generation' \in 0..MaxGeneration
    BY <1>7 DEF BackendDeclined, Jobs
  <2>2. QED
    BY <1>3, <1>7, <2>1 DEF BackendDeclined, PlaybackReleases
<1>8. CASE BackendYields
  BY <1>8 DEF BackendYields, EndBatch, PlaybackReleases
<1>9. CASE BackendPolls
  <2>1. idle_polls' \in 0..IdlePolls
    BY <1>9 DEF BackendPolls
  <2>2. CASE idle_polls' >= IdlePolls
    BY <1>9, <2>1, <2>2 DEF BackendPolls, EndBatch, PlaybackReleases
  <2>3. CASE ~(idle_polls' >= IdlePolls)
    <3>1. idle_polls' < IdlePolls
      BY <2>1, <2>3
    <3>2. QED
      BY <1>9, <2>1, <2>3, <3>1 DEF BackendPolls
  <2>4. QED
    BY <2>2, <2>3
<1>10. CASE EndClosesPulls
  <2>1. /\ pull' \in [Pulls -> {"out", "ready", "asleep", "holding"}]
        /\ \A p \in Pulls : pull'[p] = "holding" => pull[p] = "holding"
    BY <1>10 DEF EndClosesPulls, Woken
  <2>2. QED
    BY <1>10, <2>1 DEF EndClosesPulls
<1>11. CASE EndDrains
  BY <1>11 DEF EndDrains
<1>12. CASE EndReroutes
  <2>1. cpu_queue \o queue \in Seq(Jobs) /\ <<>> \in Seq(Jobs)
    BY ConcatProperties, EmptySeq
  <2>2. QED
    BY <1>12, <2>1 DEF EndReroutes
<1>13. QED
  BY <1>1, <1>2, <1>4, <1>5, <1>6, <1>7, <1>8, <1>9, <1>10, <1>11, <1>12 DEF Backend

LEMMA PullsKeepTypes ==
  ASSUME TypeInv, NEW p \in Pulls, PullPops(p) \/ PullChecks(p)
  PROVE  TypeInv'
<1> USE DEF TypeInv, TypeOK, LeaseTypeOK, leaseVars, batchVars, backendVars,
            schedulerVars, resultVars
<1>1. CASE PullPops(p)
  <2>1. queue # <<>> => Head(queue) \in Jobs /\ Tail(queue) \in Seq(Jobs)
    BY HeadTailProperties
  <2>2. queue' = queue \/ (queue # <<>> /\ queue' = Tail(queue))
    BY <1>1 DEF PullPops
  <2>3. /\ pull' \in [Pulls -> {"out", "ready", "asleep", "holding"}]
        /\ pulled' \in [Pulls -> Jobs \cup {NoJob}]
        /\ \A q \in Pulls : pull'[q] = "holding" => pulled'[q] \in Jobs
    BY <1>1, <2>1 DEF PullPops
  <2>4. queue' \in Seq(Jobs)
    BY <2>1, <2>2
  <2>5. UNCHANGED <<leaseVars, schedulerVars, cpu_queue, batchVars, backendVars,
                    session, in_flight, returned, resultVars>>
    BY <1>1 DEF PullPops
  <2>6. QED
    BY <2>3, <2>4, <2>5
<1>2. CASE PullChecks(p)
  <2>1. pull[p] = "holding" /\ pulled[p] \in Jobs
    BY <1>2 DEF PullChecks
  <2>2. /\ pulled' = [pulled EXCEPT ![p] = NoJob]
        /\ pulled' \in [Pulls -> Jobs \cup {NoJob}]
    BY <1>2 DEF PullChecks
  <2>3. /\ Append(cpu_queue, pulled[p]) \in Seq(Jobs)
        /\ in_flight \cup {pulled[p]} \subseteq Jobs
    BY <2>1, AppendProperties
  <2>4. ASSUME NEW to \in {"ready", "out"}
        PROVE  [pull EXCEPT ![p] = to] \in [Pulls -> {"out", "ready", "asleep", "holding"}]
    OBVIOUS
  <2>5. CASE PushFront(pulled[p], [pull EXCEPT ![p] = "out"])
             /\ pull_open' = FALSE /\ UNCHANGED <<cpu_queue, in_flight>>
    <3>1. /\ queue' \in Seq(Jobs) /\ discarded' \subseteq 1..MaxJobs
          /\ pull' \in [Pulls -> {"out", "ready", "asleep", "holding"}]
          /\ \A q \in Pulls : pull'[q] = "holding" => [pull EXCEPT ![p] = "out"][q] = "holding"
      BY <2>1, <2>4, <2>5, PushFrontTyped
    <3>2. \A q \in Pulls : pull'[q] = "holding" => pulled'[q] \in Jobs
      BY <2>2, <3>1
    <3>3. QED
      BY <1>2, <2>2, <2>5, <3>1, <3>2 DEF PullChecks
  <2>6. CASE pull' = [pull EXCEPT ![p] = "ready"] /\ UNCHANGED <<queue, discarded>>
             /\ cpu_queue' \in Seq(Jobs) /\ in_flight' \subseteq Jobs
             /\ pull_open' \in BOOLEAN
    <3>1. /\ pull' \in [Pulls -> {"out", "ready", "asleep", "holding"}]
          /\ \A q \in Pulls : pull'[q] = "holding" => pulled'[q] \in Jobs
      BY <2>2, <2>4, <2>6
    <3>2. QED
      BY <1>2, <2>2, <2>6, <3>1 DEF PullChecks
  <2>7. QED
    BY <1>2, <2>3, <2>5, <2>6 DEF PullChecks
<1>3. QED
  BY <1>1, <1>2

LEMMA CpuAndPluginKeepTypes ==
  ASSUME TypeInv, CpuDecodes \/ PluginStartsBatch \/ \E job \in in_flight : FrameReturns(job)
  PROVE  TypeInv'
<1> USE DEF TypeInv, TypeOK, LeaseTypeOK, leaseVars, batchVars, backendVars,
            schedulerVars, pluginVars
<1>1. CASE CpuDecodes
  <2>1. Head(cpu_queue) \in Jobs /\ Tail(cpu_queue) \in Seq(Jobs)
    BY <1>1, HeadTailProperties DEF CpuDecodes
  <2>2. Head(cpu_queue).id \in 1..MaxJobs
    BY <2>1 DEF Jobs
  <2>3. decoded' \subseteq 1..MaxJobs /\ discarded' \subseteq 1..MaxJobs
    BY <1>1, <2>2 DEF CpuDecodes
  <2>4. cpu_queue' \in Seq(Jobs)
    BY <1>1, <2>1 DEF CpuDecodes
  <2>5. QED
    BY <1>1, <2>3, <2>4 DEF CpuDecodes
<1>2. CASE PluginStartsBatch
  BY <1>2 DEF PluginStartsBatch, resultVars
<1>3. ASSUME NEW job \in in_flight, FrameReturns(job)
      PROVE  TypeInv'
  <2>1. job \in Jobs /\ job.id \in 1..MaxJobs
    BY DEF Jobs
  <2>2. Append(cpu_queue, job) \in Seq(Jobs)
    BY <2>1, AppendProperties
  <2>3. /\ decoded' \subseteq 1..MaxJobs /\ discarded' \subseteq 1..MaxJobs
        /\ in_flight' \subseteq Jobs
    BY <1>3, <2>1 DEF FrameReturns
  <2>4. cpu_queue' \in Seq(Jobs)
    BY <1>3, <2>2 DEF FrameReturns
  <2>5. returned' \in BOOLEAN
    BY <1>3 DEF FrameReturns
  <2>6. QED
    BY <1>3, <2>3, <2>4, <2>5 DEF FrameReturns
<1>4. QED
  BY <1>1, <1>2, <1>3

LEMMA TypeInvInductive ==
  /\ Init => TypeInv
  /\ LeaseInv /\ TypeInv /\ [Next]_vars => TypeInv'
<1>1. Init => TypeInv
  <2> SUFFICES ASSUME Init PROVE TypeInv
    OBVIOUS
  <2>1. LeaseTypeOK
    BY LeaseInvInductive DEF LeaseInv
  <2>2. queue \in Seq(Jobs) /\ cpu_queue \in Seq(Jobs)
    BY EmptySeq DEF Init
  <2>3. /\ submitted \in 0..MaxJobs /\ generation \in 0..MaxGeneration
        /\ idle_polls \in 0..IdlePolls
    BY DecodeDeviceAssumption DEF Init
  <2>4. /\ pull \in [Pulls -> {"out", "ready", "asleep", "holding"}]
        /\ pulled \in [Pulls -> Jobs \cup {NoJob}]
        /\ \A p \in Pulls : pull[p] # "holding"
    BY DEF Init
  <2>5. QED
    BY <2>1, <2>2, <2>3, <2>4 DEF Init, TypeInv, TypeOK, BackendStates, Colours
<1>2. ASSUME LeaseInv, TypeInv, [Next]_vars
      PROVE  TypeInv'
  <2>1. CASE EncodeThreads
    <3>1. LeaseTypeOK'
      BY <1>2, LeaseInvInductive DEF LeaseInv
    <3>2. QED
      BY <1>2, <2>1, <3>1 DEF EncodeThreads, TypeInv, TypeOK, batchVars, backendVars,
                              schedulerVars, pluginVars, resultVars
  <2>2. CASE UNCHANGED vars
    BY <1>2, <2>2 DEF vars, TypeInv, TypeOK, LeaseTypeOK, leaseVars, batchVars,
                      backendVars, schedulerVars, pluginVars, resultVars
  <2>3. QED
    BY <1>2, <2>1, <2>2, SchedulerKeepsTypes, BackendKeepsTypes, PullsKeepTypes,
       CpuAndPluginKeepTypes DEF Next
<1>3. QED
  BY <1>1, <1>2

(* Every queue, hand and pull of the composed system holds jobs, the flags  *)
(* and counters stay in range, and a stalled batch never polls past        *)
(* IDLE_POLLS_BEFORE_DRAIN (decode_pool.rs poll).                          *)
THEOREM TypesAreKept == Spec => []TypeOK
<1>1. TypeInv => TypeOK
  BY DEF TypeInv
<1>2. QED
  BY <1>1, TypeInvInductive, LeaseInvInductive, PTL DEF Spec

-----------------------------------------------------------------------------
(* What is set up for a batch, and when it is gone: the render is on       *)
(* record until end_batch closes the pulls, the pulls are open no longer   *)
(* than that, and the plugin's batch is closed when end has returned.      *)
SetUpInv ==
  /\ backend \in {"beginning", "running", "closing"} <=> batch_render # NoRender
  /\ backend \notin {"beginning", "running", "closing"} => ~pull_open
  /\ backend \in {"popping", "handling", "drained", "exited"} => session = "closed"

LEMMA SetUpInvInductive ==
  /\ Init => SetUpInv
  /\ TypeInv /\ SetUpInv /\ [Next]_vars => SetUpInv'
<1>1. Init => SetUpInv
  BY DEF Init, SetUpInv
<1>2. ASSUME TypeInv, SetUpInv, [Next]_vars
      PROVE  SetUpInv'
  <2> USE <1>2 DEF SetUpInv
  <2>1. ASSUME UNCHANGED <<backend, batch_render, session>>, pull_open' => pull_open
        PROVE  SetUpInv'
    BY <2>1
  <2>2. CASE Scheduler
    <3>1. UNCHANGED <<backend, batchVars, session>>
      BY <2>2 DEF Scheduler, SubmitToDevice, SubmitToCpu, Restart, DropClosesDeviceQueue,
                  DropClosesCpuQueue, backendVars, pluginVars
    <3>2. QED
      BY <2>1, <3>1 DEF batchVars
  <2>3. CASE Backend
    <3>1. CASE BackendPops \/ BackendExits \/ BackendFallsBack
      BY <3>1 DEF BackendPops, BackendExits, BackendFallsBack, HandToCpu, batchVars,
                  pluginVars
    <3>2. CASE BackendTakesDevice
      <4>1. hand.render \in Renders
        BY <3>2 DEF BackendTakesDevice, TypeInv, Jobs
      <4>2. QED
        BY <3>2, <4>1, DecodeDeviceAssumption DEF BackendTakesDevice
    <3>3. CASE BackendBegun
      BY <3>3 DEF BackendBegun, batchVars
    <3>4. CASE BackendDeclined
      BY <3>4 DEF BackendDeclined, HandToCpu, pluginVars
    <3>5. CASE BackendYields \/ BackendPolls
      BY <3>5 DEF BackendYields, BackendPolls, EndBatch, batchVars, pluginVars
    <3>6. CASE EndClosesPulls
      BY <3>6 DEF EndClosesPulls
    <3>7. CASE EndDrains \/ EndReroutes
      BY <3>7 DEF EndDrains, EndReroutes, batchVars, pluginVars
    <3>8. QED
      BY <2>3, <3>1, <3>2, <3>3, <3>4, <3>5, <3>6, <3>7 DEF Backend
  <2>4. CASE EncodeThreads \/ CpuDecodes
    BY <2>4, <2>1 DEF EncodeThreads, CpuDecodes, backendVars, batchVars, pluginVars
  <2>5. CASE PluginStartsBatch
    BY <2>5 DEF PluginStartsBatch, backendVars, batchVars
  <2>6. ASSUME NEW p \in Pulls, PullPops(p) \/ PullChecks(p)
        PROVE  SetUpInv'
    BY <2>6, <2>1 DEF PullPops, PullChecks, backendVars, batchVars
  <2>7. ASSUME NEW job \in in_flight, FrameReturns(job)
        PROVE  SetUpInv'
    BY <2>7, <2>1 DEF FrameReturns, backendVars, batchVars
  <2>8. CASE UNCHANGED vars
    BY <2>8, <2>1 DEF vars, backendVars, batchVars, pluginVars
  <2>9. QED
    BY <1>2, <2>2, <2>3, <2>4, <2>5, <2>6, <2>7, <2>8 DEF Next
<1>3. QED
  BY <1>1, <1>2

(* A batch is begun and served only with the lease and its render on       *)
(* record, and a backend back for its next job has left nothing of a batch *)
(* behind, whether it ended, was declined or never began (decode_pool.rs,  *)
(* handle, begin_batch, end_batch).                                        *)
THEOREM BatchRunsUnderLease == Spec => []BatchUnderLease
<1>1. LeaseInv /\ SetUpInv => BatchUnderLease
  BY DEF LeaseInv, HeldForBatch, SetUpInv, BatchUnderLease
<1>2. QED
  BY <1>1, LeaseInvInductive, TypeInvInductive, SetUpInvInductive, PTL DEF Spec

-----------------------------------------------------------------------------
(* Every submitted job is in one place.  Places differ in the ids they     *)
(* hold, and no queue, pipeline or set of pulls holds an id twice.         *)

OnceIds(q) == \A i, j \in 1..Len(q) : q[i].id = q[j].id => i = j
IdsApart(jobs) == \A a, b \in jobs : a.id = b.id => a = b
HandIdsOf(job) == IF job = NoJob THEN {} ELSE {job.id}
PulledAs(at, jobs) == {jobs[p].id : p \in {q \in Pulls : at[q] = "holding"}}
PullsApart(at, jobs) ==
  \A p, q \in Pulls :
    at[p] = "holding" /\ at[q] = "holding" /\ jobs[p].id = jobs[q].id => p = q

Apart(P) == \A m, n \in 1..7 : m < n => P[m] \cap P[n] = {}
Everywhere(P) == UNION {P[n] : n \in 1..7}

PlaceInv ==
  /\ Apart(Places) /\ Everywhere(Places) = 1..submitted
  /\ OnceIds(queue) /\ OnceIds(cpu_queue)
  /\ IdsApart(in_flight) /\ PullsApart(pull, pulled)
  /\ backend \notin {"handling", "beginning"} => hand = NoJob

LEMMA SevenPlaces ==
  \A n \in 1..7 : n = 1 \/ n = 2 \/ n = 3 \/ n = 4 \/ n = 5 \/ n = 6 \/ n = 7
OBVIOUS

LEMMA PlacesAre ==
  ASSUME NEW P, NEW Q, P = Places, Q = Places'
  PROVE  /\ P[1] = QueueIds(queue) /\ Q[1] = QueueIds(queue')
         /\ P[2] = QueueIds(cpu_queue) /\ Q[2] = QueueIds(cpu_queue')
         /\ P[3] = HandIdsOf(hand) /\ Q[3] = HandIdsOf(hand')
         /\ P[4] = PulledAs(pull, pulled) /\ Q[4] = PulledAs(pull', pulled')
         /\ P[5] = Ids(in_flight) /\ Q[5] = Ids(in_flight')
         /\ P[6] = decoded /\ Q[6] = decoded'
         /\ P[7] = discarded /\ Q[7] = discarded'
BY DEF Places, HandIds, HandIdsOf, PulledIds, PulledAs, QueueIds, Ids

LEMMA IdMoves ==
  ASSUME NEW P, NEW Q, Apart(P), NEW a \in 1..7, NEW b \in 1..7, a # b,
         NEW i \in P[a], Q[a] = P[a] \ {i}, Q[b] = P[b] \cup {i},
         \A n \in 1..7 : n # a /\ n # b => Q[n] = P[n]
  PROVE  Apart(Q) /\ Everywhere(Q) = Everywhere(P)
<1>1. \A m, n \in 1..7 : m # n => P[m] \cap P[n] = {}
  BY DEF Apart
<1>2. \A n \in 1..7 : n # a => i \notin P[n]
  BY <1>1
<1>3. \A n \in 1..7 : n # b => Q[n] \subseteq P[n] \ {i}
  BY <1>2
<1>4. \A m, n \in 1..7 : m # n => Q[m] \cap Q[n] = {}
  BY <1>1, <1>3
<1>5. Everywhere(Q) = Everywhere(P)
  BY <1>3 DEF Everywhere
<1>6. QED
  BY <1>4, <1>5 DEF Apart

LEMMA AllMove ==
  ASSUME NEW P, NEW Q, Apart(P), NEW a \in 1..7, NEW b \in 1..7, a # b,
         Q[a] = {}, Q[b] = P[b] \cup P[a],
         \A n \in 1..7 : n # a /\ n # b => Q[n] = P[n]
  PROVE  Apart(Q) /\ Everywhere(Q) = Everywhere(P)
<1>1. \A m, n \in 1..7 : m # n => P[m] \cap P[n] = {}
  BY DEF Apart
<1>2. \A n \in 1..7 : n # b => Q[n] \subseteq P[n] /\ Q[n] \cap P[a] = {}
  BY <1>1
<1>3. \A m, n \in 1..7 : m # n => Q[m] \cap Q[n] = {}
  BY <1>1, <1>2
<1>4. Everywhere(Q) = Everywhere(P)
  BY <1>2 DEF Everywhere
<1>5. QED
  BY <1>3, <1>4 DEF Apart

LEMMA IdsStay ==
  ASSUME NEW P, NEW Q, Apart(P), \A n \in 1..7 : Q[n] = P[n]
  PROVE  Apart(Q) /\ Everywhere(Q) = Everywhere(P)
BY DEF Apart, Everywhere

LEMMA QueueIdsAre ==
  ASSUME NEW q \in Seq(Jobs)
  PROVE  QueueIds(q) = {q[i].id : i \in 1..Len(q)}
<1>1. DOMAIN q = 1..Len(q)
  BY LenProperties
<1>2. QED
  BY <1>1 DEF QueueIds, Ids, ToSet

LEMMA ConcatIds ==
  ASSUME NEW q \in Seq(Jobs), NEW r \in Seq(Jobs)
  PROVE  /\ q \o r \in Seq(Jobs) /\ QueueIds(q \o r) = QueueIds(q) \cup QueueIds(r)
         /\ OnceIds(q) /\ OnceIds(r) /\ QueueIds(q) \cap QueueIds(r) = {}
              => OnceIds(q \o r)
<1> DEFINE s == q \o r
           k == Len(q)
           n == Len(r)
<1>1. /\ k \in Nat /\ n \in Nat /\ s \in Seq(Jobs) /\ Len(s) = k + n
      /\ \A i \in 1..(k + n) : s[i] = IF i <= k THEN q[i] ELSE r[i - k]
  BY ConcatProperties, LenProperties
<1>2. /\ QueueIds(q) = {q[i].id : i \in 1..k} /\ QueueIds(r) = {r[i].id : i \in 1..n}
      /\ QueueIds(s) = {s[i].id : i \in 1..(k + n)}
  BY <1>1, QueueIdsAre
<1> HIDE DEF s, k, n
<1>3. /\ \A i \in 1..k : i \in 1..(k + n) /\ s[i] = q[i]
      /\ \A i \in 1..n : i + k \in 1..(k + n) /\ s[i + k] = r[i]
      /\ \A i \in 1..(k + n) : i \in 1..k \/ (i - k \in 1..n /\ i = (i - k) + k)
  BY <1>1
<1>4. \A i \in 1..(k + n) : s[i].id \in QueueIds(q) \cup QueueIds(r)
  BY <1>2, <1>3
<1>5. QueueIds(q) \subseteq QueueIds(s) /\ QueueIds(r) \subseteq QueueIds(s)
  BY <1>2, <1>3
<1>6. QueueIds(s) = QueueIds(q) \cup QueueIds(r)
  BY <1>2, <1>4, <1>5
<1>7. ASSUME OnceIds(q), OnceIds(r), QueueIds(q) \cap QueueIds(r) = {},
             NEW i \in 1..(k + n), NEW j \in 1..(k + n), s[i].id = s[j].id
      PROVE  i = j
  <2>1. CASE i \in 1..k /\ j \in 1..k
    BY <1>3, <1>7, <2>1 DEF OnceIds, k
  <2>2. CASE i - k \in 1..n /\ j - k \in 1..n
    <3>1. s[i] = r[i - k] /\ s[j] = r[j - k]
      BY <1>1, <2>2
    <3>2. i - k = j - k
      BY <1>7, <2>2, <3>1 DEF OnceIds, n
    <3>3. QED
      BY <1>1, <3>2
  <2>3. ASSUME NEW a \in 1..k, NEW b \in 1..(k + n), b - k \in 1..n
        PROVE  s[a].id # s[b].id
    <3>1. s[a].id \in QueueIds(q)
      BY <1>2, <1>3
    <3>2. s[b] = r[b - k]
      BY <1>1, <2>3
    <3>3. s[b].id \in QueueIds(r)
      BY <1>2, <2>3, <3>2
    <3>4. QED
      BY <1>7, <3>1, <3>3
  <2>5. QED
    BY <1>3, <1>7, <2>1, <2>2, <2>3
<1>8. QED
  BY <1>1, <1>6, <1>7 DEF s, OnceIds

LEMMA OneJob ==
  ASSUME NEW job \in Jobs
  PROVE  /\ <<job>> \in Seq(Jobs) /\ QueueIds(<<job>>) = {job.id} /\ OnceIds(<<job>>)
         /\ \A q \in Seq(Jobs) : Append(q, job) = q \o <<job>>
<1>1. <<job>> \in Seq(Jobs) /\ Len(<<job>>) = 1 /\ <<job>>[1] = job /\ 1..1 = {1}
  OBVIOUS
<1>2. QueueIds(<<job>>) = {job.id} /\ OnceIds(<<job>>)
  BY <1>1, QueueIdsAre DEF OnceIds
<1>3. \A q \in Seq(Jobs) : Append(q, job) = q \o <<job>>
  BY AppendIsConcat
<1>4. QED
  BY <1>1, <1>2, <1>3

LEMMA JobJoins ==
  ASSUME NEW q \in Seq(Jobs), NEW job \in Jobs, OnceIds(q), job.id \notin QueueIds(q)
  PROVE  /\ QueueIds(Append(q, job)) = QueueIds(q) \cup {job.id} /\ OnceIds(Append(q, job))
         /\ QueueIds(<<job>> \o q) = QueueIds(q) \cup {job.id} /\ OnceIds(<<job>> \o q)
<1>1. /\ <<job>> \in Seq(Jobs) /\ QueueIds(<<job>>) = {job.id} /\ OnceIds(<<job>>)
      /\ Append(q, job) = q \o <<job>>
  BY OneJob
<1>2. QueueIds(q \o <<job>>) = QueueIds(q) \cup {job.id} /\ OnceIds(q \o <<job>>)
  BY <1>1, ConcatIds
<1>3. QueueIds(<<job>> \o q) = QueueIds(q) \cup {job.id} /\ OnceIds(<<job>> \o q)
  <2>1. QueueIds(<<job>>) \cap QueueIds(q) = {}
    BY <1>1
  <2>2. OnceIds(<<job>> \o q) /\ QueueIds(<<job>> \o q) = QueueIds(<<job>>) \cup QueueIds(q)
    BY <1>1, <2>1, ConcatIds
  <2>3. QED
    BY <1>1, <2>2
<1>4. QED
  BY <1>1, <1>2, <1>3

LEMMA JobLeaves ==
  ASSUME NEW q \in Seq(Jobs), q # <<>>, OnceIds(q)
  PROVE  /\ Head(q) \in Jobs /\ Head(q).id \in QueueIds(q)
         /\ QueueIds(Tail(q)) = QueueIds(q) \ {Head(q).id} /\ OnceIds(Tail(q))
<1> DEFINE t == Tail(q)
           n == Len(q)
<1>1. /\ n \in Nat \ {0} /\ Head(q) = q[1] /\ Head(q) \in Jobs
      /\ t \in Seq(Jobs) /\ Len(t) = n - 1
      /\ \A i \in 1..(n - 1) : t[i] = q[i + 1]
  BY HeadTailProperties, LenProperties, EmptySeq
<1>2. QueueIds(q) = {q[i].id : i \in 1..n} /\ QueueIds(t) = {t[i].id : i \in 1..(n - 1)}
  BY <1>1, QueueIdsAre
<1>3. \A i, j \in 1..n : q[i].id = q[j].id => i = j
  BY DEF OnceIds
<1> HIDE DEF t, n
<1>4. \A i \in 1..(n - 1) : i + 1 \in 1..n /\ i + 1 # 1 /\ t[i] = q[i + 1]
  BY <1>1
<1>5. \A i \in 1..n : i # 1 => i - 1 \in 1..(n - 1) /\ t[i - 1] = q[i]
  BY <1>1
<1>6. 1 \in 1..n
  BY <1>1
<1>7. QueueIds(t) \subseteq QueueIds(q) \ {q[1].id}
  BY <1>2, <1>3, <1>4, <1>6
<1>8. QueueIds(q) \ {q[1].id} \subseteq QueueIds(t)
  BY <1>2, <1>5
<1>9. \A i, j \in 1..(n - 1) : t[i].id = t[j].id => i = j
  <2> SUFFICES ASSUME NEW i \in 1..(n - 1), NEW j \in 1..(n - 1), t[i].id = t[j].id
               PROVE  i = j
    OBVIOUS
  <2>1. i + 1 = j + 1
    BY <1>3, <1>4
  <2>2. QED
    BY <2>1
<1>10. QED
  BY <1>1, <1>2, <1>6, <1>7, <1>8, <1>9 DEF t, OnceIds

LEMMA NoJobs == <<>> \in Seq(Jobs) /\ QueueIds(<<>>) = {} /\ OnceIds(<<>>)
<1>1. <<>> \in Seq(Jobs) /\ Len(<<>>) = 0 /\ 1..0 = {}
  BY EmptySeq
<1>2. QED
  BY <1>1, QueueIdsAre DEF OnceIds

LEMMA OnceIdsCount ==
  ASSUME NEW q \in Seq(Jobs), OnceIds(q)
  PROVE  Len(q) = Cardinality(QueueIds(q))
<1>1. Len(q) \in Nat /\ QueueIds(q) = {q[i].id : i \in 1..Len(q)}
  BY QueueIdsAre, LenProperties
<1>2. PICK f : f = [i \in 1..Len(q) |-> q[i].id]
  OBVIOUS
<1>3. f \in Bijection(1..Len(q), QueueIds(q))
  BY <1>1, <1>2 DEF Bijection, Injection, Surjection, IsInjective, OnceIds
<1>4. ExistsBijection(1..Len(q), QueueIds(q))
  BY <1>3 DEF ExistsBijection
<1>5. QED
  BY <1>1, <1>4, FS_CountingElements

LEMMA HoldersStay ==
  ASSUME NEW g, NEW h, NEW jobs, \A p \in Pulls : h[p] = "holding" <=> g[p] = "holding"
  PROVE  PulledAs(h, jobs) = PulledAs(g, jobs) /\ (PullsApart(g, jobs) => PullsApart(h, jobs))
BY DEF PulledAs, PullsApart

LEMMA PullTakes ==
  ASSUME NEW g, NEW h, NEW jobs, NEW now, NEW p \in Pulls, PullsApart(g, jobs),
         g[p] # "holding", h[p] = "holding", now[p].id \notin PulledAs(g, jobs),
         \A q \in Pulls \ {p} : h[q] = "holding" <=> g[q] = "holding",
         \A q \in Pulls \ {p} : now[q] = jobs[q]
  PROVE  /\ PullsApart(h, now)
         /\ PulledAs(h, now) = PulledAs(g, jobs) \cup {now[p].id}
<1>1. \A q \in Pulls : g[q] = "holding" => jobs[q].id # now[p].id
  BY DEF PulledAs
<1>2. QED
  BY <1>1 DEF PulledAs, PullsApart

LEMMA FlightLeaves ==
  ASSUME NEW jobs, NEW job \in jobs, IdsApart(jobs)
  PROVE  /\ job.id \in Ids(jobs) /\ IdsApart(jobs \ {job})
         /\ Ids(jobs \ {job}) = Ids(jobs) \ {job.id}
BY DEF Ids, IdsApart

LEMMA FlightGains ==
  ASSUME NEW jobs, NEW job, IdsApart(jobs), job.id \notin Ids(jobs)
  PROVE  /\ IdsApart(jobs \cup {job}) /\ Ids(jobs \cup {job}) = Ids(jobs) \cup {job.id}
BY DEF Ids, IdsApart

LEMMA NotifyKeepsHolders ==
  ASSUME NEW pulls \in [Pulls -> {"out", "ready", "asleep", "holding"}], NotifyOne(pulls)
  PROVE  \A p \in Pulls : pull'[p] = "holding" <=> pulls[p] = "holding"
BY DEF NotifyOne

LEMMA JobHasId == \A job \in Jobs : HandIdsOf(job) = {job.id} /\ job.id \in 1..MaxJobs
BY NoJobAssumption DEF HandIdsOf, Jobs

(* A step that moves no job.                                               *)
LEMMA PlacesKept ==
  ASSUME TypeInv, PlaceInv,
         UNCHANGED <<queue, cpu_queue, hand, pulled, in_flight, resultVars, submitted>>,
         \A p \in Pulls : pull'[p] = "holding" <=> pull[p] = "holding",
         backend' \notin {"handling", "beginning"} => hand = NoJob
  PROVE  PlaceInv'
<1>1. PICK P, Q : P = Places /\ Q = Places'
  OBVIOUS
<1>2. PulledAs(pull', pulled) = PulledAs(pull, pulled) /\ PullsApart(pull', pulled)
  BY HoldersStay DEF PlaceInv
<1>3. /\ Q[1] = P[1] /\ Q[2] = P[2] /\ Q[3] = P[3] /\ Q[4] = P[4] /\ Q[5] = P[5]
      /\ Q[6] = P[6] /\ Q[7] = P[7]
  BY <1>1, <1>2, PlacesAre DEF resultVars
<1>4. Apart(Q) /\ Everywhere(Q) = Everywhere(P)
  BY <1>1, <1>3, SevenPlaces, IdsStay DEF PlaceInv
<1>5. QED
  BY <1>1, <1>2, <1>4 DEF PlaceInv

LEMMA SchedulerKeepsPlaces ==
  ASSUME TypeInv, PlaceInv, Scheduler
  PROVE  PlaceInv'
<1>1. PICK P, Q : P = Places /\ Q = Places'
  OBVIOUS
<1>2. /\ queue \in Seq(Jobs) /\ cpu_queue \in Seq(Jobs) /\ submitted \in 0..MaxJobs
      /\ pull \in [Pulls -> {"out", "ready", "asleep", "holding"}]
  BY DEF TypeInv, TypeOK
<1>3. /\ Apart(P) /\ Everywhere(P) = 1..submitted /\ OnceIds(queue) /\ OnceIds(cpu_queue)
      /\ IdsApart(in_flight) /\ PullsApart(pull, pulled)
      /\ backend \notin {"handling", "beginning"} => hand = NoJob
  BY <1>1 DEF PlaceInv
<1>4. ASSUME NEW render \in Renders, SubmitToDevice(render)
      PROVE  PlaceInv'
  <2> DEFINE job == [id |-> submitted + 1, generation |-> generation,
                     render |-> render, colour |-> device_colour(render)]
  <2>1. submitted + 1 \in 1..MaxJobs /\ submitted' = submitted + 1
    BY <1>2, <1>4, DecodeDeviceAssumption DEF SubmitToDevice
  <2>2. job \in Jobs /\ job.id = submitted + 1
    BY <2>1 DEF Jobs, Colours, device_colour, TypeInv, TypeOK
  <2>3. queue' = Append(queue, job)
    BY <1>4 DEF SubmitToDevice
  <2>4. /\ UNCHANGED <<cpu_queue, hand, backend, pulled, in_flight, decoded, discarded>>
        /\ NotifyOne(pull)
    BY <1>4 DEF SubmitToDevice, backendVars, resultVars
  <2> HIDE DEF job
  <2>5. job.id \notin Everywhere(P)
    BY <1>2, <1>3, <2>2
  <2>6. job.id \notin QueueIds(queue)
    BY <1>1, <2>5, PlacesAre DEF Everywhere
  <2>7. QueueIds(queue') = QueueIds(queue) \cup {job.id} /\ OnceIds(queue')
    BY <1>2, <1>3, <2>2, <2>3, <2>6, JobJoins
  <2>8. \A p \in Pulls : pull'[p] = "holding" <=> pull[p] = "holding"
    BY <1>2, <2>4, NotifyKeepsHolders
  <2>9. PulledAs(pull', pulled) = PulledAs(pull, pulled) /\ PullsApart(pull', pulled)
    BY <1>3, <2>8, HoldersStay
  <2>10. /\ Q[1] = P[1] \cup {job.id} /\ Q[2] = P[2] /\ Q[3] = P[3] /\ Q[4] = P[4]
         /\ Q[5] = P[5] /\ Q[6] = P[6] /\ Q[7] = P[7]
    BY <1>1, <2>4, <2>7, <2>9, PlacesAre
  <2>11. Apart(Q) /\ Everywhere(Q) = Everywhere(P) \cup {job.id}
    <3>1. \A n \in 2..7 : Q[n] = P[n]
      BY <2>10
    <3>2. \A n \in 1..7 : job.id \notin P[n] /\ (n = 1 \/ n \in 2..7)
      BY <2>5 DEF Everywhere
    <3>3. Apart(Q)
      BY <1>3, <2>10, <3>1, <3>2 DEF Apart
    <3>4. QED
      BY <2>10, <3>1, <3>2, <3>3 DEF Everywhere
  <2>12. 1..submitted' = (1..submitted) \cup {job.id}
    BY <1>2, <2>1, <2>2
  <2>13. QED
    BY <1>1, <1>3, <2>4, <2>7, <2>9, <2>11, <2>12 DEF PlaceInv
<1>5. ASSUME NEW new_display \in Displays, Restart(new_display)
      PROVE  PlaceInv'
  <2>1. /\ queue' = <<>> /\ cpu_queue' = <<>>
        /\ discarded' = discarded \cup QueueIds(queue) \cup QueueIds(cpu_queue)
        /\ UNCHANGED <<hand, backend, pull, pulled, in_flight, decoded, submitted>>
    BY <1>5 DEF Restart, backendVars, pluginVars
  <2>2. PICK R : R = [n \in 1..7 |-> IF n = 1 THEN {} ELSE
                                      IF n = 7 THEN P[7] \cup P[1] ELSE P[n]]
    OBVIOUS
  <2>3. /\ R[1] = {} /\ R[7] = P[7] \cup P[1]
        /\ \A n \in 1..7 : n # 1 /\ n # 7 => R[n] = P[n]
    BY <2>2
  <2>4. Apart(R) /\ Everywhere(R) = Everywhere(P)
    BY <1>3, <2>3, AllMove
  <2>5. /\ Q[1] = {} /\ Q[2] = {} /\ Q[3] = P[3] /\ Q[4] = P[4] /\ Q[5] = P[5]
        /\ Q[6] = P[6] /\ Q[7] = P[7] \cup P[1] \cup P[2]
    BY <1>1, <2>1, NoJobs, PlacesAre
  <2>6. Q[2] = {} /\ Q[7] = R[7] \cup R[2]
    BY <2>2, <2>5
  <2>7. \A n \in 1..7 : n # 2 /\ n # 7 => Q[n] = R[n]
    BY <2>2, <2>5, SevenPlaces
  <2>8. Apart(Q) /\ Everywhere(Q) = Everywhere(R)
    BY <2>4, <2>6, <2>7, AllMove
  <2>9. QED
    BY <1>1, <1>3, <2>1, <2>4, <2>8, NoJobs DEF PlaceInv
<1>6. CASE DropClosesDeviceQueue
  <2>1. /\ queue' = <<>> /\ discarded' = discarded \cup QueueIds(queue) /\ pull' = Woken
        /\ UNCHANGED <<cpu_queue, hand, backend, pulled, in_flight, decoded, submitted>>
    BY <1>6 DEF DropClosesDeviceQueue, backendVars
  <2>2. \A p \in Pulls : pull'[p] = "holding" <=> pull[p] = "holding"
    BY <2>1 DEF Woken
  <2>3. PulledAs(pull', pulled) = PulledAs(pull, pulled) /\ PullsApart(pull', pulled)
    BY <1>3, <2>2, HoldersStay
  <2>4. /\ Q[1] = {} /\ Q[2] = P[2] /\ Q[3] = P[3] /\ Q[4] = P[4] /\ Q[5] = P[5]
        /\ Q[6] = P[6] /\ Q[7] = P[7] \cup P[1]
    BY <1>1, <2>1, <2>3, NoJobs, PlacesAre
  <2>5. \A n \in 1..7 : n # 1 /\ n # 7 => Q[n] = P[n]
    BY <2>4, SevenPlaces
  <2>6. Apart(Q) /\ Everywhere(Q) = Everywhere(P)
    BY <1>3, <2>4, <2>5, AllMove
  <2>7. QED
    BY <1>1, <1>3, <2>1, <2>3, <2>6, NoJobs DEF PlaceInv
<1>7. CASE DropClosesCpuQueue
  <2>1. /\ cpu_queue' = <<>> /\ discarded' = discarded \cup QueueIds(cpu_queue)
        /\ UNCHANGED <<queue, hand, backend, pull, pulled, in_flight, decoded, submitted>>
    BY <1>7 DEF DropClosesCpuQueue, backendVars, pluginVars
  <2>2. /\ Q[2] = {} /\ Q[1] = P[1] /\ Q[3] = P[3] /\ Q[4] = P[4] /\ Q[5] = P[5]
        /\ Q[6] = P[6] /\ Q[7] = P[7] \cup P[2]
    BY <1>1, <2>1, NoJobs, PlacesAre
  <2>3. \A n \in 1..7 : n # 2 /\ n # 7 => Q[n] = P[n]
    BY <2>2, SevenPlaces
  <2>4. Apart(Q) /\ Everywhere(Q) = Everywhere(P)
    BY <1>3, <2>2, <2>3, AllMove
  <2>5. QED
    BY <1>1, <1>3, <2>1, <2>4, NoJobs DEF PlaceInv
<1>9. ASSUME NEW render \in Renders, SubmitToCpu(render)
      PROVE  PlaceInv'
  <2> DEFINE job == [id |-> submitted + 1, generation |-> generation,
                     render |-> render, colour |-> device_colour(render)]
  <2>1. submitted + 1 \in 1..MaxJobs /\ submitted' = submitted + 1
    BY <1>2, <1>9, DecodeDeviceAssumption DEF SubmitToCpu
  <2>2. job \in Jobs /\ job.id = submitted + 1
    BY <2>1 DEF Jobs, Colours, device_colour, TypeInv, TypeOK
  <2>3. cpu_queue' = Append(cpu_queue, job)
    BY <1>9 DEF SubmitToCpu
  <2>4. UNCHANGED <<queue, hand, backend, pull, pulled, in_flight, decoded, discarded>>
    BY <1>9 DEF SubmitToCpu, backendVars, pluginVars, resultVars
  <2> HIDE DEF job
  <2>5. job.id \notin Everywhere(P)
    BY <1>2, <1>3, <2>2
  <2>6. job.id \notin QueueIds(cpu_queue)
    BY <1>1, <2>5, PlacesAre DEF Everywhere
  <2>7. QueueIds(cpu_queue') = QueueIds(cpu_queue) \cup {job.id} /\ OnceIds(cpu_queue')
    BY <1>2, <1>3, <2>2, <2>3, <2>6, JobJoins
  <2>8. /\ Q[1] = P[1] /\ Q[2] = P[2] \cup {job.id} /\ Q[3] = P[3] /\ Q[4] = P[4]
        /\ Q[5] = P[5] /\ Q[6] = P[6] /\ Q[7] = P[7]
    BY <1>1, <2>4, <2>7, PlacesAre
  <2>9. Apart(Q) /\ Everywhere(Q) = Everywhere(P) \cup {job.id}
    <3>1. \A n \in 1..7 : n # 2 => Q[n] = P[n]
      BY <2>8, SevenPlaces
    <3>2. \A n \in 1..7 : job.id \notin P[n]
      BY <2>5 DEF Everywhere
    <3>3. Apart(Q)
      BY <1>3, <2>8, <3>1, <3>2 DEF Apart
    <3>4. QED
      BY <2>8, <3>1, <3>2, <3>3 DEF Everywhere
  <2>10. 1..submitted' = (1..submitted) \cup {job.id}
    BY <1>2, <2>1, <2>2
  <2>11. QED
    BY <1>1, <1>3, <2>4, <2>7, <2>9, <2>10 DEF PlaceInv
<1>8. QED
  BY <1>4, <1>5, <1>6, <1>7, <1>9 DEF Scheduler

(* A job that leaves one place is nowhere else.                            *)
LEMMA NowhereElse ==
  ASSUME NEW P, Apart(P), NEW a \in 1..7, NEW i \in P[a]
  PROVE  \A n \in 1..7 : n # a => i \notin P[n]
BY DEF Apart

LEMMA PushFrontPlaces ==
  ASSUME TypeInv, PlaceInv, NEW job \in Jobs, job.id \notin QueueIds(queue),
         NEW pulls \in [Pulls -> {"out", "ready", "asleep", "holding"}],
         PushFront(job, pulls)
  PROVE  /\ \A p \in Pulls : pull'[p] = "holding" <=> pulls[p] = "holding"
         /\ OnceIds(queue')
         /\ \/ /\ QueueIds(queue') = QueueIds(queue) \cup {job.id}
               /\ discarded' = discarded
            \/ /\ QueueIds(queue') = QueueIds(queue)
               /\ discarded' = discarded \cup {job.id}
<1>1. queue \in Seq(Jobs) /\ OnceIds(queue)
  BY DEF TypeInv, TypeOK, PlaceInv
<1>2. CASE pool = "open"
  <2>1. queue' = <<job>> \o queue /\ NotifyOne(pulls) /\ UNCHANGED discarded
    BY <1>2 DEF PushFront
  <2>2. QueueIds(queue') = QueueIds(queue) \cup {job.id} /\ OnceIds(queue')
    BY <1>1, <2>1, JobJoins
  <2>3. \A p \in Pulls : pull'[p] = "holding" <=> pulls[p] = "holding"
    BY <2>1, NotifyKeepsHolders
  <2>4. QED
    BY <2>1, <2>2, <2>3
<1>3. CASE pool # "open"
  BY <1>1, <1>3 DEF PushFront
<1>4. QED
  BY <1>2, <1>3

LEMMA BackendKeepsPlaces ==
  ASSUME TypeInv, PlaceInv, Backend
  PROVE  PlaceInv'
<1>1. PICK P, Q : P = Places /\ Q = Places'
  OBVIOUS
<1>2. /\ queue \in Seq(Jobs) /\ cpu_queue \in Seq(Jobs)
      /\ pull \in [Pulls -> {"out", "ready", "asleep", "holding"}]
      /\ backend \in {"handling", "beginning"} => hand \in Jobs
  BY DEF TypeInv, TypeOK
<1>3. /\ Apart(P) /\ Everywhere(P) = 1..submitted /\ OnceIds(queue) /\ OnceIds(cpu_queue)
      /\ IdsApart(in_flight) /\ PullsApart(pull, pulled)
      /\ backend \notin {"handling", "beginning"} => hand = NoJob
  BY <1>1 DEF PlaceInv
<1>4. CASE BackendPops
  <2>1. /\ hand = NoJob /\ queue # <<>> /\ hand' = Head(queue) /\ queue' = Tail(queue)
        /\ backend' = "handling"
        /\ UNCHANGED <<cpu_queue, pull, pulled, in_flight, decoded, discarded, submitted>>
    BY <1>3, <1>4 DEF BackendPops, schedulerVars, pluginVars, resultVars
  <2>2. /\ hand' \in Jobs /\ hand'.id \in QueueIds(queue)
        /\ QueueIds(queue') = QueueIds(queue) \ {hand'.id} /\ OnceIds(queue')
    BY <1>2, <1>3, <2>1, JobLeaves
  <2>3. PICK i : i = hand'.id
    OBVIOUS
  <2>4. HandIdsOf(hand) = {} /\ HandIdsOf(hand') = {i}
    BY <2>1, <2>2, <2>3, JobHasId DEF HandIdsOf
  <2>5. /\ i \in P[1] /\ Q[1] = P[1] \ {i} /\ Q[2] = P[2] /\ Q[3] = P[3] \cup {i}
        /\ Q[4] = P[4] /\ Q[5] = P[5] /\ Q[6] = P[6] /\ Q[7] = P[7]
    BY <1>1, <2>1, <2>2, <2>3, <2>4, PlacesAre
  <2>6. \A n \in 1..7 : n # 1 /\ n # 3 => Q[n] = P[n]
    BY <2>5, SevenPlaces
  <2>7. Apart(Q) /\ Everywhere(Q) = Everywhere(P)
    BY <1>3, <2>5, <2>6, IdMoves
  <2>8. QED
    BY <1>1, <1>3, <2>1, <2>2, <2>7 DEF PlaceInv
<1>5. ASSUME hand \in Jobs, HandToCpu,
             UNCHANGED <<queue, pull, pulled, in_flight, decoded, discarded, submitted>>
      PROVE  PlaceInv'
  <2>1. cpu_queue' = Append(cpu_queue, hand) /\ hand' = NoJob /\ backend' = "popping"
    BY <1>5 DEF HandToCpu
  <2>2. PICK i : i = hand.id
    OBVIOUS
  <2>3. HandIdsOf(hand) = {i} /\ HandIdsOf(hand') = {}
    BY <1>5, <2>1, <2>2, JobHasId DEF HandIdsOf
  <2>4. i \in P[3] /\ P[3] = {i}
    BY <1>1, <2>3, PlacesAre
  <2>5. i \notin P[2]
    BY <1>3, <2>4, NowhereElse
  <2>6. hand.id \notin QueueIds(cpu_queue)
    BY <1>1, <2>2, <2>5, PlacesAre
  <2>7. QueueIds(cpu_queue') = QueueIds(cpu_queue) \cup {hand.id} /\ OnceIds(cpu_queue')
    BY <1>2, <1>3, <1>5, <2>1, <2>6, JobJoins
  <2>8. /\ Q[3] = P[3] \ {i} /\ Q[2] = P[2] \cup {i} /\ Q[1] = P[1] /\ Q[4] = P[4]
        /\ Q[5] = P[5] /\ Q[6] = P[6] /\ Q[7] = P[7]
    BY <1>1, <1>5, <2>2, <2>3, <2>7, PlacesAre
  <2>9. \A n \in 1..7 : n # 3 /\ n # 2 => Q[n] = P[n]
    BY <2>8, SevenPlaces
  <2>10. Apart(Q) /\ Everywhere(Q) = Everywhere(P)
    BY <1>3, <2>4, <2>8, <2>9, IdMoves
  <2>11. QED
    BY <1>1, <1>3, <1>5, <2>1, <2>7, <2>10 DEF PlaceInv
<1>6. CASE BackendFallsBack
  BY <1>2, <1>5, <1>6 DEF BackendFallsBack, schedulerVars, pluginVars, resultVars
<1>7. CASE BackendDeclined
  BY <1>2, <1>5, <1>7 DEF BackendDeclined, schedulerVars, pluginVars, resultVars
<1>8. CASE BackendBegun
  <2>1. /\ hand \in Jobs /\ PushFront(hand, pull) /\ hand' = NoJob /\ backend' = "running"
        /\ UNCHANGED <<cpu_queue, pulled, in_flight, decoded, submitted>>
    BY <1>2, <1>8 DEF BackendBegun, schedulerVars
  <2>2. PICK i : i = hand.id
    OBVIOUS
  <2>3. HandIdsOf(hand) = {i} /\ HandIdsOf(hand') = {}
    BY <2>1, <2>2, JobHasId DEF HandIdsOf
  <2>4. i \in P[3] /\ P[3] = {i}
    BY <1>1, <2>3, PlacesAre
  <2>5. i \notin P[1]
    BY <1>3, <2>4, NowhereElse
  <2>6. hand.id \notin QueueIds(queue)
    BY <1>1, <2>2, <2>5, PlacesAre
  <2>7. /\ \A p \in Pulls : pull'[p] = "holding" <=> pull[p] = "holding"
        /\ OnceIds(queue')
        /\ \/ /\ QueueIds(queue') = QueueIds(queue) \cup {hand.id}
              /\ discarded' = discarded
           \/ /\ QueueIds(queue') = QueueIds(queue)
              /\ discarded' = discarded \cup {hand.id}
    BY <1>2, <2>1, <2>6, PushFrontPlaces
  <2>8. PulledAs(pull', pulled) = PulledAs(pull, pulled) /\ PullsApart(pull', pulled)
    BY <1>3, <2>7, HoldersStay
  <2>9. /\ Q[3] = P[3] \ {i} /\ Q[2] = P[2] /\ Q[4] = P[4] /\ Q[5] = P[5] /\ Q[6] = P[6]
        /\ \/ Q[1] = P[1] \cup {i} /\ Q[7] = P[7]
           \/ Q[1] = P[1] /\ Q[7] = P[7] \cup {i}
    <3>1. Q[3] = P[3] \ {i} /\ Q[2] = P[2] /\ Q[4] = P[4] /\ Q[5] = P[5] /\ Q[6] = P[6]
      BY <1>1, <2>1, <2>3, <2>8, PlacesAre
    <3>2. (Q[1] = P[1] \cup {i} /\ Q[7] = P[7]) \/ (Q[1] = P[1] /\ Q[7] = P[7] \cup {i})
      BY <1>1, <2>2, <2>7, PlacesAre
    <3>3. QED
      BY <3>1, <3>2
  <2>10. Apart(Q) /\ Everywhere(Q) = Everywhere(P)
    <3>1. CASE Q[1] = P[1] \cup {i} /\ Q[7] = P[7]
      <4>1. \A n \in 1..7 : n # 3 /\ n # 1 => Q[n] = P[n]
        BY <2>9, <3>1, SevenPlaces
      <4>2. QED
        BY <1>3, <2>4, <2>9, <3>1, <4>1, IdMoves
    <3>2. CASE Q[1] = P[1] /\ Q[7] = P[7] \cup {i}
      <4>1. \A n \in 1..7 : n # 3 /\ n # 7 => Q[n] = P[n]
        BY <2>9, <3>2, SevenPlaces
      <4>2. QED
        BY <1>3, <2>4, <2>9, <3>2, <4>1, IdMoves
    <3>3. QED
      BY <2>9, <3>1, <3>2
  <2>11. QED
    BY <1>1, <1>3, <2>1, <2>7, <2>8, <2>10 DEF PlaceInv
<1>9. CASE EndReroutes
  <2>1. /\ backend' = "popping" /\ hand = NoJob
        /\ UNCHANGED <<hand, pull, pulled, in_flight, decoded, discarded, submitted>>
    BY <1>3, <1>9 DEF EndReroutes, schedulerVars, pluginVars, resultVars
  <2>2. CASE cpu_queue' = cpu_queue \o queue /\ queue' = <<>>
    <3>1. P[1] \cap P[2] = {}
      BY <1>3 DEF Apart
    <3>2. QueueIds(cpu_queue) \cap QueueIds(queue) = {}
      BY <1>1, <3>1, PlacesAre
    <3>3. /\ QueueIds(cpu_queue') = QueueIds(cpu_queue) \cup QueueIds(queue)
          /\ OnceIds(cpu_queue')
      BY <1>2, <1>3, <2>2, <3>2, ConcatIds
    <3>4. /\ Q[1] = {} /\ Q[2] = P[2] \cup P[1] /\ Q[3] = P[3] /\ Q[4] = P[4]
          /\ Q[5] = P[5] /\ Q[6] = P[6] /\ Q[7] = P[7]
      BY <1>1, <2>1, <2>2, <3>3, NoJobs, PlacesAre
    <3>5. \A n \in 1..7 : n # 1 /\ n # 2 => Q[n] = P[n]
      BY <3>4, SevenPlaces
    <3>6. Apart(Q) /\ Everywhere(Q) = Everywhere(P)
      BY <1>3, <3>4, <3>5, AllMove
    <3>7. QED
      BY <1>1, <1>3, <2>1, <2>2, <3>3, <3>6, NoJobs DEF PlaceInv
  <2>3. CASE UNCHANGED <<queue, cpu_queue>>
    BY <2>1, <2>3, PlacesKept DEF resultVars
  <2>4. QED
    BY <1>9, <2>2, <2>3 DEF EndReroutes
<1>10. CASE BackendExits \/ BackendTakesDevice \/ BackendYields \/ BackendPolls \/ EndDrains
  <2>1. /\ UNCHANGED <<queue, cpu_queue, hand, pull, pulled, in_flight, resultVars, submitted>>
        /\ backend' \notin {"handling", "beginning"} => hand = NoJob
    BY <1>3, <1>10 DEF BackendExits, BackendTakesDevice, BackendYields, BackendPolls,
       EndDrains, EndBatch, schedulerVars, pluginVars
  <2>2. QED
    BY <2>1, PlacesKept
<1>11. CASE EndClosesPulls
  <2>1. /\ UNCHANGED <<queue, cpu_queue, hand, pulled, in_flight, resultVars, submitted>>
        /\ hand = NoJob /\ pull' = Woken
    BY <1>3, <1>11 DEF EndClosesPulls, schedulerVars
  <2>2. \A p \in Pulls : pull'[p] = "holding" <=> pull[p] = "holding"
    BY <2>1 DEF Woken
  <2>3. QED
    BY <2>1, <2>2, PlacesKept
<1>12. QED
  BY <1>4, <1>6, <1>7, <1>8, <1>9, <1>10, <1>11 DEF Backend

LEMMA PullsKeepPlaces ==
  ASSUME TypeInv, PlaceInv, NEW p \in Pulls, PullPops(p) \/ PullChecks(p)
  PROVE  PlaceInv'
<1>1. PICK P, Q : P = Places /\ Q = Places'
  OBVIOUS
<1>2. /\ queue \in Seq(Jobs) /\ cpu_queue \in Seq(Jobs)
      /\ pull \in [Pulls -> {"out", "ready", "asleep", "holding"}]
      /\ pulled \in [Pulls -> Jobs \cup {NoJob}]
      /\ pull[p] = "holding" => pulled[p] \in Jobs
  BY DEF TypeInv, TypeOK
<1>3. /\ Apart(P) /\ Everywhere(P) = 1..submitted /\ OnceIds(queue) /\ OnceIds(cpu_queue)
      /\ IdsApart(in_flight) /\ PullsApart(pull, pulled)
      /\ backend \notin {"handling", "beginning"} => hand = NoJob
  BY <1>1 DEF PlaceInv
<1>4. CASE PullPops(p)
  <2>1. /\ pull[p] = "ready"
        /\ UNCHANGED <<cpu_queue, hand, backend, in_flight, resultVars, submitted>>
    BY <1>4 DEF PullPops, schedulerVars, backendVars
  <2>2. CASE /\ pull' = [pull EXCEPT ![p] = "holding"] /\ queue # <<>>
             /\ pulled' = [pulled EXCEPT ![p] = Head(queue)] /\ queue' = Tail(queue)
    <3>1. /\ Head(queue).id \in QueueIds(queue) /\ OnceIds(queue')
          /\ QueueIds(queue') = QueueIds(queue) \ {Head(queue).id}
      BY <1>2, <1>3, <2>2, JobLeaves
    <3>2. PICK i : i = Head(queue).id
      OBVIOUS
    <3>3. i \in P[1] /\ Q[1] = P[1] \ {i}
      BY <1>1, <3>1, <3>2, PlacesAre
    <3>4. i \notin P[4]
      BY <1>3, <3>3, NowhereElse
    <3>5. /\ pull[p] # "holding" /\ pull'[p] = "holding" /\ pulled'[p].id = i
          /\ \A q \in Pulls \ {p} : pull'[q] = "holding" <=> pull[q] = "holding"
          /\ \A q \in Pulls \ {p} : pulled'[q] = pulled[q]
      BY <1>2, <2>1, <2>2, <3>2
    <3>6. pulled'[p].id \notin PulledAs(pull, pulled)
      BY <1>1, <3>4, <3>5, PlacesAre
    <3>7. /\ PullsApart(pull', pulled')
          /\ PulledAs(pull', pulled') = PulledAs(pull, pulled) \cup {pulled'[p].id}
      BY <1>3, <3>5, <3>6, PullTakes
    <3>8. /\ Q[4] = P[4] \cup {i} /\ Q[2] = P[2] /\ Q[3] = P[3] /\ Q[5] = P[5]
          /\ Q[6] = P[6] /\ Q[7] = P[7]
      BY <1>1, <2>1, <3>5, <3>7, PlacesAre DEF resultVars
    <3>9. \A n \in 1..7 : n # 1 /\ n # 4 => Q[n] = P[n]
      BY <3>8, SevenPlaces
    <3>10. Apart(Q) /\ Everywhere(Q) = Everywhere(P)
      BY <1>3, <3>3, <3>8, <3>9, IdMoves
    <3>11. QED
      BY <1>1, <1>3, <2>1, <3>1, <3>7, <3>10 DEF PlaceInv
  <2>3. CASE /\ pull' = [pull EXCEPT ![p] = "out"] \/ pull' = [pull EXCEPT ![p] = "asleep"]
             /\ UNCHANGED <<queue, pulled>>
    <3>1. \A q \in Pulls : pull'[q] = "holding" <=> pull[q] = "holding"
      BY <1>2, <2>1, <2>3
    <3>2. QED
      BY <1>3, <2>1, <2>3, <3>1, PlacesKept
  <2>4. QED
    BY <1>4, <2>2, <2>3 DEF PullPops
<1>5. CASE PullChecks(p)
  <2> DEFINE job == pulled[p]
  <2>1. /\ pull[p] = "holding" /\ job \in Jobs /\ pulled' = [pulled EXCEPT ![p] = NoJob]
        /\ UNCHANGED <<hand, backend, decoded, submitted>>
    BY <1>2, <1>5 DEF PullChecks, schedulerVars, backendVars
  <2>2. PICK i : i = job.id
    OBVIOUS
  <2>3. \A q \in Pulls \ {p} : pulled'[q] = pulled[q]
    BY <1>2, <2>1
  <2>4. ASSUME pull'[p] # "holding",
               \A q \in Pulls \ {p} : pull'[q] = "holding" <=> pull[q] = "holding"
        PROVE  PullsApart(pull', pulled') /\ i \in P[4] /\ Q[4] = P[4] \ {i}
    <3>1. /\ pulled[p].id \in PulledAs(pull, pulled) /\ PullsApart(pull', pulled')
          /\ PulledAs(pull', pulled') = PulledAs(pull, pulled) \ {pulled[p].id}
      <4>1. pull[p] = "holding" /\ pull'[p] # "holding"
        BY <2>1, <2>4
      <4>2. pulled[p].id \in PulledAs(pull, pulled)
        BY <4>1 DEF PulledAs
      <4>3. PullsApart(pull, pulled) /\ PullsApart(pull', pulled')
        BY <1>3, <2>3, <2>4, <4>1 DEF PullsApart
      <4>4. \A q \in Pulls \ {p} : pull[q] = "holding" => pulled[q].id # pulled[p].id
        BY <4>1, <4>3 DEF PullsApart
      <4>5. PulledAs(pull', pulled') = PulledAs(pull, pulled) \ {pulled[p].id}
        BY <2>3, <2>4, <4>1, <4>4 DEF PulledAs
      <4>6. QED
        BY <4>2, <4>3, <4>5
    <3>2. QED
      BY <1>1, <2>2, <3>1, PlacesAre
  <2>5. i \in P[4]
    BY <1>1, <2>1, <2>2, PlacesAre DEF PulledAs
  <2>6. /\ i \notin P[1] /\ i \notin P[2] /\ i \notin P[5]
    BY <1>3, <2>5, NowhereElse
  <2>7. /\ job.id \notin QueueIds(queue) /\ job.id \notin QueueIds(cpu_queue)
        /\ job.id \notin Ids(in_flight)
    BY <1>1, <2>2, <2>6, PlacesAre
  <2>8. CASE /\ cpu_queue' = Append(cpu_queue, job) /\ pull' = [pull EXCEPT ![p] = "ready"]
             /\ UNCHANGED <<queue, in_flight, discarded>>
    <3>1. /\ pull'[p] # "holding"
          /\ \A q \in Pulls \ {p} : pull'[q] = "holding" <=> pull[q] = "holding"
      BY <1>2, <2>8
    <3>2. PullsApart(pull', pulled') /\ i \in P[4] /\ Q[4] = P[4] \ {i}
      BY <2>4, <3>1
    <3>3. QueueIds(cpu_queue') = QueueIds(cpu_queue) \cup {job.id} /\ OnceIds(cpu_queue')
      BY <1>2, <1>3, <2>1, <2>7, <2>8, JobJoins
    <3>4. /\ Q[2] = P[2] \cup {i} /\ Q[1] = P[1] /\ Q[3] = P[3] /\ Q[5] = P[5]
          /\ Q[6] = P[6] /\ Q[7] = P[7]
      BY <1>1, <2>1, <2>2, <2>8, <3>3, PlacesAre
    <3>5. \A n \in 1..7 : n # 4 /\ n # 2 => Q[n] = P[n]
      BY <3>4, SevenPlaces
    <3>6. Apart(Q) /\ Everywhere(Q) = Everywhere(P)
      BY <1>3, <3>2, <3>4, <3>5, IdMoves
    <3>7. QED
      BY <1>1, <1>3, <2>1, <2>8, <3>2, <3>3, <3>6 DEF PlaceInv
  <2>9. CASE /\ PushFront(job, [pull EXCEPT ![p] = "out"])
             /\ UNCHANGED <<cpu_queue, in_flight>>
    <3>1. PICK left : left = [pull EXCEPT ![p] = "out"]
      OBVIOUS
    <3>2. /\ left \in [Pulls -> {"out", "ready", "asleep", "holding"}]
          /\ PushFront(job, left) /\ left[p] # "holding"
          /\ \A q \in Pulls \ {p} : left[q] = pull[q]
      BY <1>2, <2>9, <3>1
    <3>3. /\ \A q \in Pulls : pull'[q] = "holding" <=> left[q] = "holding"
          /\ OnceIds(queue')
          /\ \/ /\ QueueIds(queue') = QueueIds(queue) \cup {job.id}
                /\ discarded' = discarded
             \/ /\ QueueIds(queue') = QueueIds(queue)
                /\ discarded' = discarded \cup {job.id}
      BY <2>1, <2>7, <3>2, PushFrontPlaces
    <3>4. /\ pull'[p] # "holding"
          /\ \A q \in Pulls \ {p} : pull'[q] = "holding" <=> pull[q] = "holding"
      BY <3>2, <3>3
    <3>5. PullsApart(pull', pulled') /\ i \in P[4] /\ Q[4] = P[4] \ {i}
      BY <2>4, <3>4
    <3>6. Q[2] = P[2] /\ Q[3] = P[3] /\ Q[5] = P[5] /\ Q[6] = P[6]
      BY <1>1, <2>1, <2>9, PlacesAre
    <3>7. (Q[1] = P[1] \cup {i} /\ Q[7] = P[7]) \/ (Q[1] = P[1] /\ Q[7] = P[7] \cup {i})
      BY <1>1, <2>2, <3>3, PlacesAre
    <3>8. Apart(Q) /\ Everywhere(Q) = Everywhere(P)
      <4>1. CASE Q[1] = P[1] \cup {i} /\ Q[7] = P[7]
        <5>1. \A n \in 1..7 : n # 4 /\ n # 1 => Q[n] = P[n]
          BY <3>6, <4>1, SevenPlaces
        <5>2. QED
          BY <1>3, <3>5, <4>1, <5>1, IdMoves
      <4>2. CASE Q[1] = P[1] /\ Q[7] = P[7] \cup {i}
        <5>1. \A n \in 1..7 : n # 4 /\ n # 7 => Q[n] = P[n]
          BY <3>6, <4>2, SevenPlaces
        <5>2. QED
          BY <1>3, <3>5, <4>2, <5>1, IdMoves
      <4>3. QED
        BY <3>7, <4>1, <4>2
    <3>9. QED
      BY <1>1, <1>3, <2>1, <2>9, <3>3, <3>5, <3>8 DEF PlaceInv
  <2>10. CASE /\ in_flight' = in_flight \cup {job} /\ pull' = [pull EXCEPT ![p] = "ready"]
              /\ UNCHANGED <<queue, cpu_queue, discarded>>
    <3>1. /\ pull'[p] # "holding"
          /\ \A q \in Pulls \ {p} : pull'[q] = "holding" <=> pull[q] = "holding"
      BY <1>2, <2>10
    <3>2. PullsApart(pull', pulled') /\ i \in P[4] /\ Q[4] = P[4] \ {i}
      BY <2>4, <3>1
    <3>3. IdsApart(in_flight') /\ Ids(in_flight') = Ids(in_flight) \cup {job.id}
      BY <1>3, <2>7, <2>10, FlightGains
    <3>4. /\ Q[5] = P[5] \cup {i} /\ Q[1] = P[1] /\ Q[2] = P[2] /\ Q[3] = P[3]
          /\ Q[6] = P[6] /\ Q[7] = P[7]
      BY <1>1, <2>1, <2>2, <2>10, <3>3, PlacesAre
    <3>5. \A n \in 1..7 : n # 4 /\ n # 5 => Q[n] = P[n]
      BY <3>4, SevenPlaces
    <3>6. Apart(Q) /\ Everywhere(Q) = Everywhere(P)
      BY <1>3, <3>2, <3>4, <3>5, IdMoves
    <3>7. QED
      BY <1>1, <1>3, <2>1, <2>10, <3>2, <3>3, <3>6 DEF PlaceInv
  <2>11. QED
    BY <1>5, <2>8, <2>9, <2>10 DEF PullChecks
<1>6. QED
  BY <1>4, <1>5

LEMMA DecodesKeepPlaces ==
  ASSUME TypeInv, PlaceInv, CpuDecodes \/ \E job \in in_flight : FrameReturns(job)
  PROVE  PlaceInv'
<1>1. PICK P, Q : P = Places /\ Q = Places'
  OBVIOUS
<1>2. cpu_queue \in Seq(Jobs) /\ in_flight \subseteq Jobs
  BY DEF TypeInv, TypeOK
<1>3. /\ Apart(P) /\ Everywhere(P) = 1..submitted /\ OnceIds(queue) /\ OnceIds(cpu_queue)
      /\ IdsApart(in_flight) /\ PullsApart(pull, pulled)
      /\ backend \notin {"handling", "beginning"} => hand = NoJob
  BY <1>1 DEF PlaceInv
<1>4. CASE CpuDecodes
  <2>1. /\ cpu_queue # <<>> /\ cpu_queue' = Tail(cpu_queue)
        /\ UNCHANGED <<queue, hand, backend, pull, pulled, in_flight, submitted>>
    BY <1>4 DEF CpuDecodes, schedulerVars, backendVars, pluginVars
  <2>2. /\ Head(cpu_queue).id \in QueueIds(cpu_queue) /\ OnceIds(cpu_queue')
        /\ QueueIds(cpu_queue') = QueueIds(cpu_queue) \ {Head(cpu_queue).id}
    BY <1>2, <1>3, <2>1, JobLeaves
  <2>3. PICK i : i = Head(cpu_queue).id
    OBVIOUS
  <2>4. /\ i \in P[2] /\ Q[2] = P[2] \ {i} /\ Q[1] = P[1] /\ Q[3] = P[3]
        /\ Q[4] = P[4] /\ Q[5] = P[5]
    BY <1>1, <2>1, <2>2, <2>3, PlacesAre
  <2>5. \/ decoded' = decoded \cup {i} /\ discarded' = discarded
        \/ discarded' = discarded \cup {i} /\ decoded' = decoded
    BY <1>4, <2>3 DEF CpuDecodes
  <2>6. (Q[6] = P[6] \cup {i} /\ Q[7] = P[7]) \/ (Q[6] = P[6] /\ Q[7] = P[7] \cup {i})
    BY <1>1, <2>5, PlacesAre
  <2>7. Apart(Q) /\ Everywhere(Q) = Everywhere(P)
    <3>1. CASE Q[6] = P[6] \cup {i} /\ Q[7] = P[7]
      <4>1. \A n \in 1..7 : n # 2 /\ n # 6 => Q[n] = P[n]
        BY <2>4, <3>1, SevenPlaces
      <4>2. QED
        BY <1>3, <2>4, <3>1, <4>1, IdMoves
    <3>2. CASE Q[6] = P[6] /\ Q[7] = P[7] \cup {i}
      <4>1. \A n \in 1..7 : n # 2 /\ n # 7 => Q[n] = P[n]
        BY <2>4, <3>2, SevenPlaces
      <4>2. QED
        BY <1>3, <2>4, <3>2, <4>1, IdMoves
    <3>3. QED
      BY <2>6, <3>1, <3>2
  <2>8. QED
    BY <1>1, <1>3, <2>1, <2>2, <2>7 DEF PlaceInv
<1>5. ASSUME NEW job \in in_flight, FrameReturns(job)
      PROVE  PlaceInv'
  <2>1. /\ job \in Jobs /\ in_flight' = in_flight \ {job}
        /\ UNCHANGED <<queue, hand, backend, pull, pulled, discarded, submitted>>
    BY <1>2, <1>5 DEF FrameReturns, schedulerVars, backendVars
  <2>2. /\ job.id \in Ids(in_flight) /\ IdsApart(in_flight')
        /\ Ids(in_flight') = Ids(in_flight) \ {job.id}
    BY <1>3, <2>1, FlightLeaves
  <2>3. PICK i : i = job.id
    OBVIOUS
  <2>4. /\ i \in P[5] /\ Q[5] = P[5] \ {i} /\ Q[1] = P[1] /\ Q[3] = P[3]
        /\ Q[4] = P[4] /\ Q[7] = P[7]
    BY <1>1, <2>1, <2>2, <2>3, PlacesAre
  <2>5. CASE decoded' = decoded \cup {job.id} /\ UNCHANGED cpu_queue
    <3>1. Q[6] = P[6] \cup {i} /\ Q[2] = P[2]
      BY <1>1, <2>3, <2>5, PlacesAre
    <3>2. \A n \in 1..7 : n # 5 /\ n # 6 => Q[n] = P[n]
      BY <2>4, <3>1, SevenPlaces
    <3>3. Apart(Q) /\ Everywhere(Q) = Everywhere(P)
      BY <1>3, <2>4, <3>1, <3>2, IdMoves
    <3>4. QED
      BY <1>1, <1>3, <2>1, <2>2, <2>5, <3>3 DEF PlaceInv
  <2>6. CASE cpu_queue' = Append(cpu_queue, job) /\ UNCHANGED decoded
    <3>1. i \notin P[2]
      BY <1>3, <2>4, NowhereElse
    <3>2. job.id \notin QueueIds(cpu_queue)
      BY <1>1, <2>3, <3>1, PlacesAre
    <3>3. QueueIds(cpu_queue') = QueueIds(cpu_queue) \cup {job.id} /\ OnceIds(cpu_queue')
      BY <1>2, <1>3, <2>1, <2>6, <3>2, JobJoins
    <3>4. Q[2] = P[2] \cup {i} /\ Q[6] = P[6]
      BY <1>1, <2>3, <2>6, <3>3, PlacesAre
    <3>5. \A n \in 1..7 : n # 5 /\ n # 2 => Q[n] = P[n]
      BY <2>4, <3>4, SevenPlaces
    <3>6. Apart(Q) /\ Everywhere(Q) = Everywhere(P)
      BY <1>3, <2>4, <3>4, <3>5, IdMoves
    <3>7. QED
      BY <1>1, <1>3, <2>1, <2>2, <2>6, <3>3, <3>6 DEF PlaceInv
  <2>7. QED
    BY <1>5, <2>5, <2>6 DEF FrameReturns
<1>6. QED
  BY <1>4, <1>5

(* While the plugin has no decode batch open, every pull has ended.        *)
SessionInv == session = "closed" => \A p \in Pulls : pull[p] = "out"

LEMMA SessionInvKept ==
  ASSUME TypeInv, SessionInv, [Next]_vars
  PROVE  SessionInv'
<1>1. CASE session = "open" /\ UNCHANGED session
  BY <1>1 DEF SessionInv
<1>2. CASE session = "closed" /\ UNCHANGED session
  <2>1. \A p \in Pulls : pull[p] = "out"
    BY <1>2 DEF SessionInv
  <2>2. pull' = pull
    <3>1. pull \in [Pulls -> {"out", "ready", "asleep", "holding"}]
      BY DEF TypeInv, TypeOK
    <3>2. NotifyOne(pull) => pull' = pull
      BY <2>1 DEF NotifyOne
    <3>3. Woken = pull
      BY <2>1, <3>1 DEF Woken
    <3>4. Scheduler => pull' = pull
      BY <3>2, <3>3 DEF Scheduler, SubmitToDevice, SubmitToCpu, Restart, DropClosesDeviceQueue,
                        DropClosesCpuQueue, pluginVars
    <3>5. Backend => pull' = pull
      BY <1>2, <3>3 DEF Backend, BackendPops, BackendExits, BackendFallsBack,
         BackendTakesDevice, BackendBegun, BackendDeclined, BackendYields, BackendPolls,
         EndClosesPulls, EndDrains, EndReroutes, pluginVars
    <3>6. \A p \in Pulls : ~PullPops(p) /\ ~PullChecks(p)
      BY <2>1 DEF PullPops, PullChecks
    <3>7. PluginStartsBatch => session' = "open"
      BY DEF PluginStartsBatch
    <3>8. QED
      BY <1>2, <3>4, <3>5, <3>6, <3>7 DEF Next, EncodeThreads, CpuDecodes, FrameReturns,
         vars, pluginVars
  <2>3. QED
    BY <2>1, <2>2 DEF SessionInv
<1>3. CASE session' # session
  <2>1. PluginStartsBatch \/ EndDrains
    BY <1>3 DEF Next, Scheduler, SubmitToDevice, SubmitToCpu, Restart, DropClosesDeviceQueue,
       DropClosesCpuQueue, Backend, BackendPops, BackendExits, BackendFallsBack,
       BackendTakesDevice, BackendBegun, BackendDeclined, BackendYields, BackendPolls,
       EndClosesPulls, EndReroutes, EncodeThreads, CpuDecodes, PullPops, PullChecks,
       FrameReturns, vars, pluginVars
  <2>2. CASE PluginStartsBatch
    BY <2>2 DEF PluginStartsBatch, SessionInv
  <2>3. CASE EndDrains
    BY <2>3 DEF EndDrains, SessionInv
  <2>4. QED
    BY <2>1, <2>2, <2>3
<1>4. session \in {"closed", "open"}
  BY DEF TypeInv, TypeOK
<1>5. QED
  BY <1>1, <1>2, <1>3, <1>4

LEMMA PlaceInvInductive ==
  /\ Init => PlaceInv /\ SessionInv
  /\ TypeInv /\ PlaceInv /\ SessionInv /\ [Next]_vars => PlaceInv'
<1>1. ASSUME Init
      PROVE  PlaceInv /\ SessionInv
  <2>1. /\ submitted = 0 /\ queue = <<>> /\ cpu_queue = <<>> /\ hand = NoJob
        /\ in_flight = {} /\ decoded = {} /\ discarded = {}
        /\ \A p \in Pulls : pull[p] = "out"
    BY <1>1 DEF Init
  <2>2. PulledAs(pull, pulled) = {} /\ PullsApart(pull, pulled) /\ SessionInv
    BY <2>1 DEF PulledAs, PullsApart, SessionInv
  <2>3. IdsApart(in_flight) /\ Ids(in_flight) = {}
    BY <2>1 DEF IdsApart, Ids
  <2>4. PICK P : P = Places
    OBVIOUS
  <2>5. /\ P[1] = {} /\ P[2] = {} /\ P[3] = {} /\ P[4] = {} /\ P[5] = {} /\ P[6] = {}
        /\ P[7] = {}
    BY <2>1, <2>2, <2>3, <2>4, NoJobs DEF Places, HandIds, PulledIds, PulledAs
  <2>6. \A n \in 1..7 : P[n] = {}
    BY <2>5, SevenPlaces
  <2>7. Apart(P) /\ Everywhere(P) = {} /\ 1..0 = {}
    BY <2>6 DEF Apart, Everywhere
  <2>8. QED
    BY <2>1, <2>2, <2>3, <2>4, <2>7, NoJobs DEF PlaceInv
<1>2. ASSUME TypeInv, PlaceInv, SessionInv, [Next]_vars
      PROVE  PlaceInv'
  <2>1. backend \notin {"handling", "beginning"} => hand = NoJob
    BY <1>2 DEF PlaceInv
  <2>2. CASE EncodeThreads \/ UNCHANGED vars
    BY <1>2, <2>1, <2>2, PlacesKept DEF EncodeThreads, vars, schedulerVars, backendVars,
       pluginVars
  <2>3. CASE PluginStartsBatch
    <3>1. /\ UNCHANGED <<queue, cpu_queue, hand, backend, pulled, in_flight, resultVars,
                         submitted>>
          /\ \A p \in Pulls : pull'[p] = "holding" <=> pull[p] = "holding"
      BY <1>2, <2>3 DEF PluginStartsBatch, SessionInv, schedulerVars, backendVars
    <3>2. QED
      BY <1>2, <2>1, <3>1, PlacesKept
  <2>4. QED
    BY <1>2, <2>2, <2>3, SchedulerKeepsPlaces, BackendKeepsPlaces, PullsKeepPlaces,
       DecodesKeepPlaces DEF Next
<1>3. QED
  BY <1>1, <1>2

(* A job the scheduler submitted is in one place and in no other: the      *)
(* device queue, the cpu queue, the backend's hand, a pull, the plugin's   *)
(* pipeline, or among the jobs decoded or thrown away; so a fall back, a   *)
(* push to the front, a declined batch, a frame the device refuses and the *)
(* end of a batch or of the pool neither lose a job nor decode one twice   *)
(* (decode_pool.rs, handle, end_batch, pull_frame, frame_callback).        *)
THEOREM EveryJobHasOnePlace == Spec => []NoJobLostOrDoubled
<1>1. TypeInv /\ PlaceInv => NoJobLostOrDoubled
  <2> SUFFICES ASSUME TypeInv, PlaceInv PROVE NoJobLostOrDoubled
    OBVIOUS
  <2>1. PICK P : P = Places
    OBVIOUS
  <2>2. Apart(P) /\ Everywhere(P) = 1..submitted /\ DOMAIN P = 1..7
    BY <2>1 DEF PlaceInv, Places
  <2>3. /\ \A i \in 1..submitted : \E n \in DOMAIN P : i \in P[n]
        /\ \A m, n \in DOMAIN P : m < n => P[m] \cap P[n] = {}
    BY <2>2 DEF Apart, Everywhere
  <2>4. Len(queue) = Cardinality(QueueIds(queue))
    BY OnceIdsCount DEF TypeInv, TypeOK, PlaceInv
  <2>5. Len(cpu_queue) = Cardinality(QueueIds(cpu_queue))
    BY OnceIdsCount DEF TypeInv, TypeOK, PlaceInv
  <2>6. QED
    BY <2>1, <2>3, <2>4, <2>5 DEF NoJobLostOrDoubled
<1>2. QED
  BY <1>1, LeaseInvInductive, TypeInvInductive, SessionInvKept, PlaceInvInductive,
     PTL DEF Spec

=============================================================================
