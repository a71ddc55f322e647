------------------------------ MODULE JobQueue -------------------------------
(***************************************************************************)
(* The queue of jobs a wizard process runs, one at a time, and its jobs    *)
(* file (src/src/job_queue.rs).                                            *)
(*                                                                         *)
(* Several threads call it: the panels submit, move and cancel, one worker *)
(* takes, starts and finishes jobs, and closing the program drains it.     *)
(* Most operations hold the history lock throughout and are one action;    *)
(* start, take_next's first check and stop_for_exit are not and are        *)
(* several.  The process may stop at any point, also between two lines of  *)
(* one operation, and load_jobs_file reads what it left.  The worker's     *)
(* loop, the panels and the build itself belong to the wizards: external.  *)
(***************************************************************************)
EXTENDS Naturals, SequencesExt, FiniteSets

CONSTANTS
  MaxJobs,          \* bound: job ids handed out
  MaxStops          \* bound: times the running process stops and starts again

ASSUME JobQueueAssumption ==
  MaxJobs \in Nat \ {0} /\ MaxStops \in Nat

VARIABLES
  jobs_file,        \* the last record of each id, in the order of those records
  process,          \* "stopped", "rewriting" or "running"
  stops,
  loaded,           \* what load has read, while the file is rewritten
  next_id, reserved,
  queue,
  current_id, current_state,
  cancel,
  history,
  worker,           \* where the worker thread is
  closing, exit,    \* stop_for_exit: the flag, and where its caller is
  cancel_asked,     \* history variable: running jobs the user cancelled
  recorded          \* history variable: what had been recorded at the last stop

memoryVars == <<loaded, next_id, reserved, queue, current_id, current_state,
                cancel, history, worker, closing, exit, cancel_asked>>
processVars == <<process, stops, recorded>>
vars == <<jobs_file, processVars, memoryVars>>

Ids == 1..MaxJobs
NoJob == 0
FinalStates == {"Completed", "Failed", "Cancelled"}
JobStates == {"Queued", "Running"} \cup FinalStates
StoredJobs == [id : Ids, state : JobStates]

TypeOK ==
  /\ jobs_file \in Seq(StoredJobs) /\ loaded \in Seq(StoredJobs)
  /\ process \in {"stopped", "rewriting", "running"} /\ stops \in 0..MaxStops
  /\ next_id \in 1..(MaxJobs + 1) /\ reserved \subseteq Ids
  /\ queue \in Seq(Ids) /\ history \in Seq([id : Ids, state : FinalStates])
  /\ current_id \in Ids \cup {NoJob} /\ current_state \in JobStates
  /\ cancel \in BOOLEAN /\ closing \in BOOLEAN
  /\ worker \in {"none", "looping", "taking", "taken", "started", "building",
                 "finished", "leaving"}
  /\ exit \in {"none", "draining", "cancelling", "waiting", "returned"}
  /\ cancel_asked \subseteq Ids /\ recorded \subseteq Ids

Fresh ==
  /\ loaded = <<>> /\ next_id = 1 /\ reserved = {}
  /\ queue = <<>> /\ history = <<>>
  /\ current_id = NoJob /\ current_state = "Queued" /\ cancel = FALSE
  /\ worker = "none" /\ closing = FALSE /\ exit = "none" /\ cancel_asked = {}

Init ==
  Fresh /\ jobs_file = <<>> /\ process = "running" /\ stops = 0 /\ recorded = {}

-----------------------------------------------------------------------------
(* The elements of s at the positions in I, in order.                       *)
Kept(s, I) ==
  LET at == CHOOSE f \in [1..Cardinality(I) -> I] :
              \A m, n \in DOMAIN f : m < n => f[m] < f[n]
  IN  [n \in 1..Cardinality(I) |-> s[at[n]]]

(* The jobs file: lines appended, as load will read them.                   *)
WithRecords(file, ids, state) ==
  Kept(file, {n \in DOMAIN file : file[n].id \notin ToSet(ids)})
    \o [n \in DOMAIN ids |-> [id |-> ids[n], state |-> state]]

WithRecord(file, id, state) == WithRecords(file, <<id>>, state)

Record(id, state) == jobs_file' = WithRecord(jobs_file, id, state)

(* Bugs: the list takes the state from the slot, or is not told at all.     *)
RecordFinishedFromSlot(id, state) ==
  /\ Record(id, state)
  /\ history' = Append(history, [id |-> id, state |-> current_state])

RecordFinishedUnlisted(id, state) == Record(id, state) /\ UNCHANGED history

RecordFinished(id, state) ==
  /\ Record(id, state)
  /\ history' = Append(history, [id |-> id, state |-> state])

QueuedIn(file) == {file[i].id : i \in {j \in DOMAIN file : file[j].state = "Queued"}}

-----------------------------------------------------------------------------
(* The panels.                                                             *)
Panel == process = "running" /\ UNCHANGED processVars

reserve_job_id ==
  /\ Panel /\ next_id <= MaxJobs
  /\ next_id' = next_id + 1 /\ reserved' = reserved \cup {next_id}
  /\ UNCHANGED <<jobs_file, loaded, queue, current_id, current_state, cancel,
                 history, worker, closing, exit, cancel_asked>>

submit(id) ==
  /\ Panel /\ id \in reserved /\ reserved' = reserved \ {id}
  /\ Record(id, "Queued") /\ queue' = Append(queue, id)
  /\ UNCHANGED <<loaded, next_id, current_id, current_state, cancel, history,
                 worker, closing, exit, cancel_asked>>

PositionOf(id) == CHOOSE n \in DOMAIN queue : queue[n] = id

(* The queue with the job at `from` taken to the place of the one at `to`:  *)
(* moving back, it lands just ahead of it.                                 *)
Rotated(from, to) ==
  LET without == RemoveAt(queue, from)
  IN  InsertAt(without, IF from < to THEN to - 1 ELSE to, queue[from])

MovedBefore(id, before) ==
  Rotated(PositionOf(id), IF before = NoJob THEN 1 ELSE PositionOf(before))

MayMove(id, before) ==
  /\ id # before /\ id \in ToSet(queue)
  /\ before \in ToSet(queue) \cup {NoJob}

(* A bug: only the job that moved is recorded again.                        *)
MoveRecordsOne(id, before) ==
  /\ Panel /\ MayMove(id, before)
  /\ queue' = MovedBefore(id, before) /\ Record(id, "Queued")
  /\ UNCHANGED <<loaded, next_id, reserved, current_id, current_state, cancel,
                 history, worker, closing, exit, cancel_asked>>

(* move_before: the whole new order is recorded again.                     *)
move_before(id, before) ==
  /\ Panel /\ MayMove(id, before)
  /\ queue' = MovedBefore(id, before)
  /\ jobs_file' = WithRecords(jobs_file, queue', "Queued")
  /\ UNCHANGED <<loaded, next_id, reserved, current_id, current_state, cancel,
                 history, worker, closing, exit, cancel_asked>>

(* cancel: flag the job in the slot unless it has finished there, or drop a *)
(* queued one.                                                             *)
cancel_job(id) ==
  /\ Panel
  /\ \/ /\ current_id = id /\ current_state \in {"Queued", "Running"}
        /\ cancel' = TRUE /\ cancel_asked' = cancel_asked \cup {id}
        /\ UNCHANGED <<jobs_file, queue, history>>
     \/ /\ current_id # id /\ id \in ToSet(queue)
        /\ queue' = RemoveAt(queue, PositionOf(id))
        /\ RecordFinished(id, "Cancelled")
        /\ UNCHANGED <<cancel, cancel_asked>>
  /\ UNCHANGED <<loaded, next_id, reserved, current_id, current_state, worker,
                 closing, exit>>

-----------------------------------------------------------------------------
(* The worker: a wizard starts one when a job is queued and none runs.      *)
WorkerAt(from, to) == process = "running" /\ worker = from /\ worker' = to

WorkerSpawns ==
  /\ WorkerAt("none", "looping") /\ current_id = NoJob /\ queue # <<>>
  /\ UNCHANGED <<jobs_file, processVars, loaded, next_id, reserved, queue,
                 current_id, current_state, cancel, history, closing, exit,
                 cancel_asked>>

(* take_next, before it takes the lock.                                    *)
WorkerChecksClosing ==
  /\ WorkerAt("looping", IF closing THEN "leaving" ELSE "taking")
  /\ UNCHANGED <<jobs_file, processVars, loaded, next_id, reserved, queue,
                 current_id, current_state, cancel, history, closing, exit,
                 cancel_asked>>

(* take_next under the lock: the front job moves to the slot, and `flag`   *)
(* takes the place of the cancel flag of the job before it.                *)
TakesNextWith(flag) ==
  /\ \/ /\ queue = <<>> /\ WorkerAt("taking", "leaving")
        /\ UNCHANGED <<queue, current_id, current_state, cancel>>
     \/ /\ queue # <<>> /\ WorkerAt("taking", "taken")
        /\ current_id' = Head(queue) /\ queue' = Tail(queue)
        /\ current_state' = "Queued" /\ cancel' = flag
  /\ UNCHANGED <<jobs_file, processVars, loaded, next_id, reserved, history,
                 closing, exit, cancel_asked>>

(* Bugs: the flag of the job before is inherited, or a close is forgotten.  *)
TakesNextUncleared == TakesNextWith(cancel \/ closing)
TakesNextCleared == TakesNextWith(FALSE)

take_next == TakesNextWith(closing)

(* start: the slot, then the file, with no lock across the two.             *)
StartMarks ==
  /\ WorkerAt("taken", "started") /\ current_state' = "Running"
  /\ UNCHANGED <<jobs_file, processVars, loaded, next_id, reserved, queue,
                 current_id, cancel, history, closing, exit, cancel_asked>>

StartRecords ==
  /\ WorkerAt("started", "building") /\ Record(current_id, "Running")
  /\ UNCHANGED <<processVars, loaded, next_id, reserved, queue, current_id,
                 current_state, cancel, history, closing, exit, cancel_asked>>

(* finish, with the state the build ended at.                              *)
finish(state) ==
  /\ WorkerAt("building", "finished")
  /\ state = "Cancelled" => cancel
  /\ RecordFinished(current_id, state) /\ current_state' = state
  /\ UNCHANGED <<processVars, loaded, next_id, reserved, queue, current_id,
                 cancel, closing, exit, cancel_asked>>

WorkerLoops ==
  /\ WorkerAt("finished", "looping")
  /\ UNCHANGED <<jobs_file, processVars, loaded, next_id, reserved, queue,
                 current_id, current_state, cancel, history, closing, exit,
                 cancel_asked>>

clear_current ==
  /\ WorkerAt("leaving", "none") /\ current_id' = NoJob
  /\ UNCHANGED <<jobs_file, processVars, loaded, next_id, reserved, queue,
                 current_state, cancel, history, closing, exit, cancel_asked>>

-----------------------------------------------------------------------------
(* stop_for_exit.                                                          *)
ExitAt(from, to) == process = "running" /\ exit = from /\ exit' = to

ExitCloses ==
  /\ ExitAt("none", "draining") /\ closing' = TRUE
  /\ UNCHANGED <<jobs_file, processVars, loaded, next_id, reserved, queue,
                 current_id, current_state, cancel, history, worker,
                 cancel_asked>>

(* A bug: the drained jobs are recorded and stay queued.                    *)
ExitRecordsOnly ==
  /\ ExitAt("draining", "cancelling")
  /\ jobs_file' = WithRecords(jobs_file, queue, "Cancelled")
  /\ UNCHANGED <<processVars, loaded, next_id, reserved, queue, current_id,
                 current_state, cancel, history, worker, closing, cancel_asked>>

ExitDrains ==
  /\ ExitAt("draining", "cancelling")
  /\ queue' = <<>>
  /\ jobs_file' = WithRecords(jobs_file, queue, "Cancelled")
  /\ history' = history \o [n \in DOMAIN queue |->
                              [id |-> queue[n], state |-> "Cancelled"]]
  /\ UNCHANGED <<processVars, loaded, next_id, reserved, current_id,
                 current_state, cancel, worker, closing, cancel_asked>>

ExitCancels ==
  /\ ExitAt("cancelling", "waiting") /\ cancel' = TRUE
  /\ UNCHANGED <<jobs_file, processVars, loaded, next_id, reserved, queue,
                 current_id, current_state, history, worker, closing,
                 cancel_asked>>

(* The slot is clear, or STOP_FOR_EXIT_WAIT has passed.                     *)
ExitReturns ==
  /\ ExitAt("waiting", "returned")
  /\ UNCHANGED <<jobs_file, processVars, loaded, next_id, reserved, queue,
                 current_id, current_state, cancel, history, worker, closing,
                 cancel_asked>>

-----------------------------------------------------------------------------
(* A stop, and the next start.                                             *)

StopsLeaving(file) ==
  /\ process = "running" /\ stops < MaxStops
  /\ process' = "stopped" /\ stops' = stops + 1
  /\ jobs_file' = file /\ recorded' = QueuedIn(file)
  /\ loaded' = <<>> /\ next_id' = 1 /\ reserved' = {}
  /\ queue' = <<>> /\ history' = <<>>
  /\ current_id' = NoJob /\ current_state' = "Queued" /\ cancel' = FALSE
  /\ worker' = "none" /\ closing' = FALSE /\ exit' = "none"
  /\ cancel_asked' = {}

(* Between two operations, or after some of the lines of one: an operation  *)
(* that appends one line has no other point to stop at.                    *)
ProcessStops == StopsLeaving(jobs_file)

(* A bug: the move writes the new order as a new file.                      *)
StopsInMoveRewrite(id, before) ==
  /\ MayMove(id, before)
  /\ \E n \in 1..Len(queue) :
       StopsLeaving(WithRecords(<<>>, SubSeq(MovedBefore(id, before), 1, n), "Queued"))

StopsInMove(id, before) ==
  /\ MayMove(id, before)
  /\ \E n \in 1..Len(queue) :
       StopsLeaving(WithRecords(jobs_file, SubSeq(MovedBefore(id, before), 1, n),
                                "Queued"))

StopsInExit ==
  /\ exit = "draining"
  /\ \E n \in 1..Len(queue) :
       StopsLeaving(WithRecords(jobs_file, SubSeq(queue, 1, n), "Cancelled"))

(* load: a job left running is failed, and fs::write empties the file       *)
(* before it writes it.                                                    *)
Interrupted(job) ==
  IF job.state = "Running" THEN [job EXCEPT !.state = "Failed"] ELSE job

LoadReads ==
  /\ process = "stopped" /\ process' = "rewriting"
  /\ loaded' = [n \in DOMAIN jobs_file |-> Interrupted(jobs_file[n])]
  /\ jobs_file' = <<>>
  /\ UNCHANGED <<stops, recorded, next_id, reserved, queue, current_id,
                 current_state, cancel, history, worker, closing, exit,
                 cancel_asked>>

(* The rewrite, then load_jobs_file's share.                               *)
load_jobs_file ==
  /\ process = "rewriting" /\ process' = "running"
  /\ jobs_file' = loaded
  /\ LET queued == Kept(loaded, {n \in DOMAIN loaded : loaded[n].state = "Queued"}) IN
     queue' = [n \in DOMAIN queued |-> queued[n].id]
  /\ history' = Kept(loaded, {n \in DOMAIN loaded : loaded[n].state # "Queued"})
  /\ next_id' = Max({loaded[n].id : n \in DOMAIN loaded} \cup {0}) + 1
  /\ loaded' = <<>>
  /\ UNCHANGED <<stops, recorded, reserved, current_id, current_state, cancel,
                 worker, closing, exit, cancel_asked>>

(* The process stops again inside the rewrite, with some lines written.     *)
StopsWhileRewriting ==
  /\ process = "rewriting" /\ process' = "stopped"
  /\ \E n \in 0..Len(loaded) : jobs_file' = SubSeq(loaded, 1, n)
  /\ loaded' = <<>>
  /\ UNCHANGED <<stops, recorded, next_id, reserved, queue, current_id,
                 current_state, cancel, history, worker, closing, exit,
                 cancel_asked>>

-----------------------------------------------------------------------------
Worker ==
  \/ WorkerSpawns \/ WorkerChecksClosing \/ take_next \/ StartMarks
  \/ StartRecords \/ \E state \in FinalStates : finish(state)
  \/ WorkerLoops \/ clear_current

Exit == ExitCloses \/ ExitDrains \/ ExitCancels \/ ExitReturns

Next ==
  \/ reserve_job_id
  \/ \E id \in Ids : submit(id) \/ cancel_job(id)
  \/ \E id \in Ids, before \in Ids \cup {NoJob} :
       move_before(id, before) \/ StopsInMove(id, before)
  \/ Worker \/ Exit
  \/ ProcessStops \/ StopsInExit \/ LoadReads \/ load_jobs_file \/ StopsWhileRewriting

Spec == Init /\ [][Next]_vars

-----------------------------------------------------------------------------
(* Properties.                                                             *)

SlotIds == IF current_id # NoJob /\ current_state \in {"Queued", "Running"}
           THEN {current_id} ELSE {}
HistoryIds == {history[n].id : n \in DOMAIN history}
FileIds == {jobs_file[n].id : n \in DOMAIN jobs_file}

(* snapshot: "a job moving to the history is in exactly one of the three":  *)
(* at every moment of its life a recorded job is listed once, in the slot,  *)
(* in the queue or in the history.                                         *)
ListedExactlyOnce ==
  process = "running" =>
    /\ FileIds = SlotIds \cup ToSet(queue) \cup HistoryIds
    /\ SlotIds \cap ToSet(queue) = {} /\ SlotIds \cap HistoryIds = {}
    /\ ToSet(queue) \cap HistoryIds = {}
    /\ Len(queue) = Cardinality(ToSet(queue))
    /\ Len(history) = Cardinality(HistoryIds)

(* The jobs file is always a true picture: the jobs it holds as queued are   *)
(* the queue, in the queue's order, behind a job taken but not yet recorded *)
(* running, and a finished job's record is the state the list shows.        *)
Awaited == (IF worker \in {"taken", "started"} THEN <<current_id>> ELSE <<>>) \o queue

OncePerId(jobs) == \A m, n \in DOMAIN jobs : jobs[m].id = jobs[n].id => m = n

Ahead(jobs, a, b) ==
  \E m, n \in DOMAIN jobs : m < n /\ jobs[m].id = a /\ jobs[n].id = b

FileMatchesQueue ==
  process = "running" =>
    /\ OncePerId(jobs_file) /\ QueuedIn(jobs_file) = ToSet(Awaited)
    /\ \A m, n \in DOMAIN Awaited : m < n => Ahead(jobs_file, Awaited[m], Awaited[n])
    /\ \A n \in DOMAIN history : \E k \in DOMAIN jobs_file : jobs_file[k] = history[n]

(* A cancel reaches the job it named and no later one: while the program    *)
(* runs on, a raised flag is one the user raised for the job in the slot.   *)
CancelHitsItsJob ==
  cancel /\ ~closing /\ SlotIds # {} => current_id \in cancel_asked

(* Once the close has returned, a job that still runs has been cancelled,   *)
(* also one taken while the close was under way.                           *)
ExitCancelsWhatRuns == exit = "returned" /\ SlotIds # {} => cancel

(* What has ended stays ended: no move, cancel, stop or load turns the       *)
(* record of a finished job into one that is still to run.                  *)
Holds(file, id, states) ==
  \E n \in DOMAIN file : file[n].id = id /\ file[n].state \in states

EndedStaysEnded ==
  \A id \in Ids :
    Holds(jobs_file, id, FinalStates) \/ Holds(loaded, id, FinalStates) =>
      ~Holds(jobs_file', id, {"Queued", "Running"})

FinishedStaysFinished == [][EndedStaysEnded]_vars

(* A stop, also between two lines of a move or of an exit, costs no waiting  *)
(* job its turn: each one is still queued in the file, or is one of those   *)
(* the exit had cancelled, which are the front of the queue, and the file   *)
(* holds no other as queued.  The order a half written move leaves may be   *)
(* neither the old nor the new, and nothing is said of it.                  *)
StopKeepsTheQueue ==
  process = "running" /\ process' = "stopped" =>
    \E front \in IF exit = "draining" THEN 0..Len(queue) ELSE {0} :
      /\ \A n \in 1..front : Holds(jobs_file', queue[n], {"Cancelled"})
      /\ QueuedIn(jobs_file') = ToSet(Awaited) \ {queue[n] : n \in 1..front}

StopsKeepTheQueue == [][StopKeepsTheQueue]_vars

(* job_queue.rs:3, "a stopped process does not lose what was queued": after *)
(* the next start every job the file held as queued is in the queue, the   *)
(* slot or the history.                                                    *)
NothingQueuedIsLost ==
  process = "running" =>
    recorded \subseteq SlotIds \cup ToSet(queue) \cup HistoryIds

=============================================================================
