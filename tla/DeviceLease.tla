----------------------------- MODULE DeviceLease -----------------------------
(***************************************************************************)
(* The one accelerator device and the lease that shares it between encode  *)
(* batches and the player's decode batch (src/src/device_lease.rs).  The   *)
(* lease is three fields under one mutex and a condition variable, so each *)
(* critical section is one action.  Encodes are the threads that run       *)
(* grok_encoder's Batch::begin; the player is the decode pool's backend.   *)
(***************************************************************************)
EXTENDS Naturals, FiniteSets

CONSTANT Encodes      \* encode batches that will ask for the device

ASSUME EncodesAssumption == IsFiniteSet(Encodes)

VARIABLES
  encode_holds,       \* LeaseState.encode_holds
  encodes_waiting,    \* LeaseState.encodes_waiting
  playback_holds,     \* LeaseState.playback_holds
  encode              \* how far each encode thread is

leaseVars == <<encode_holds, encodes_waiting, playback_holds, encode>>

EncodeStates == {"idle", "waiting", "holding", "running", "done"}

LeaseTypeOK ==
  /\ encode_holds \in BOOLEAN
  /\ encodes_waiting \in Nat
  /\ playback_holds \in BOOLEAN
  /\ encode \in [Encodes -> EncodeStates]

LeaseInit ==
  /\ encode_holds = FALSE
  /\ encodes_waiting = 0
  /\ playback_holds = FALSE
  /\ encode = [e \in Encodes |-> "idle"]

EncodeAt(e, from, to) ==
  /\ encode[e] = from
  /\ encode' = [encode EXCEPT ![e] = to]

DeviceHeld == encode_holds \/ playback_holds

(* A bug: the count is not raised for an encode that has to wait.           *)
EncodeAsksUncounted(e) ==
  \/ ~DeviceHeld /\ EncodeAt(e, "idle", "holding") /\ encode_holds' = TRUE
     /\ UNCHANGED <<encodes_waiting, playback_holds>>
  \/ DeviceHeld /\ EncodeAt(e, "idle", "waiting")
     /\ UNCHANGED <<encode_holds, encodes_waiting, playback_holds>>

(* acquire_for_encode: take a free device at once, else count as waiting.  *)
EncodeAsks(e) ==
  \/ /\ ~DeviceHeld
     /\ EncodeAt(e, "idle", "holding")
     /\ encode_holds' = TRUE
     /\ UNCHANGED <<encodes_waiting, playback_holds>>
  \/ /\ DeviceHeld
     /\ EncodeAt(e, "idle", "waiting")
     /\ encodes_waiting' = encodes_waiting + 1
     /\ UNCHANGED <<encode_holds, playback_holds>>

(* The same call woken by the condition variable once nobody holds it.     *)
EncodeTakes(e) ==
  /\ ~DeviceHeld
  /\ EncodeAt(e, "waiting", "holding")
  /\ encodes_waiting' = encodes_waiting - 1
  /\ encode_holds' = TRUE
  /\ UNCHANGED playback_holds

(* grk_plugin_batch_memory_begin accepts and the encode batch runs.        *)
EncodeBegins(e) ==
  /\ EncodeAt(e, "holding", "running")
  /\ UNCHANGED <<encode_holds, encodes_waiting, playback_holds>>

(* Drop for EncodeLease: at once when the plugin declined or failed to     *)
(* begin, else after Batch::end has drained the batch.                     *)
EncodeReleases(e) ==
  /\ EncodeAt(e, "holding", "done") \/ EncodeAt(e, "running", "done")
  /\ encode_holds' = FALSE
  /\ UNCHANGED <<encodes_waiting, playback_holds>>

(* Bugs: the player overlooks an encode that holds, or one that waits.      *)
PlaybackOverlooksHolder == encodes_waiting = 0 /\ ~playback_holds
PlaybackOverlooksWaiting == ~encode_holds /\ ~playback_holds

PlaybackMayTake == ~encode_holds /\ encodes_waiting = 0 /\ ~playback_holds

(* try_acquire_for_playback when it returns a lease.                       *)
PlaybackTakes ==
  /\ PlaybackMayTake
  /\ playback_holds' = TRUE
  /\ UNCHANGED <<encode_holds, encodes_waiting, encode>>

(* Drop for PlaybackLease.                                                 *)
PlaybackReleases ==
  /\ playback_holds' = FALSE
  /\ UNCHANGED <<encode_holds, encodes_waiting, encode>>

(* A bug: only an encode that has the device counts.                        *)
encode_has_the_device == encode_holds

encode_wants_the_device == encode_holds \/ encodes_waiting > 0

EncodeNext ==
  \E e \in Encodes :
    EncodeAsks(e) \/ EncodeTakes(e) \/ EncodeBegins(e) \/ EncodeReleases(e)

=============================================================================
