----------------------------- MODULE FrameCache -----------------------------
(***************************************************************************)
(* The decoded frames the player keeps: FrameCache of                      *)
(* src/grok_player/decode_pool.rs.  One entry per frame index, written by  *)
(* the pool's workers in whatever order their decodes end and read by the  *)
(* scheduler, every call under the one lock of the cache.  Each operator   *)
(* here is one method, as the cache before and the cache after.            *)
(*                                                                         *)
(* An entry keeps the generation and the decode scale it was made at, the  *)
(* display transform it was made for, the frame it is a picture of (from), *)
(* and whether the decode succeeded.  The code keeps the pixels in place   *)
(* of the last three, and the time of arrival, which only a counter reads. *)
(***************************************************************************)
EXTENDS Integers, FiniteSets

NewCache == [dropped_before |-> 0, rerendered_from |-> 0, frames |-> <<>>]

\* The entries of a cache at the indices of a set.
Only(frames, indices) == [i \in DOMAIN frames \cap indices |-> frames[i]]

Accepts(cache, generation) == generation >= cache.dropped_before

(* A bug: an answer replaces whatever is held.                             *)
StoreNewestLast(cache, index, entry) ==
  IF Accepts(cache, entry.generation)
    THEN [cache EXCEPT !.frames =
            [i \in DOMAIN cache.frames \cup {index} |->
               IF i = index THEN entry ELSE cache.frames[i]]]
    ELSE cache

(* An answer from before a seek is dropped, and one from before a change   *)
(* of rendering does not replace one made after it.                        *)
Store(cache, index, entry) ==
  IF /\ Accepts(cache, entry.generation)
     /\ index \in DOMAIN cache.frames
          => cache.frames[index].generation <= entry.generation
    THEN [cache EXCEPT !.frames =
            [i \in DOMAIN cache.frames \cup {index} |->
               IF i = index THEN entry ELSE cache.frames[i]]]
    ELSE cache

\* Whether the frame is held, decoded or failed, as it would be made now.
HoldsAt(cache, index, reduce) ==
  /\ index \in DOMAIN cache.frames
  /\ cache.frames[index].reduce = reduce
  /\ cache.frames[index].generation >= cache.rerendered_from

Decoded(cache, index) ==
  index \in DOMAIN cache.frames /\ cache.frames[index].decoded

DecodedAt(cache, index, reduce) ==
  Decoded(cache, index) /\ HoldsAt(cache, index, reduce)

\* A failure at any scale and of any generation.
Failure(cache, index) ==
  index \in DOMAIN cache.frames /\ ~cache.frames[index].decoded

\* The decoded frames of an interval: newest_decoded_in is the last of them.
DecodedIn(cache, first, last) == {i \in first..last : Decoded(cache, i)}

Restart(cache, generation) ==
  [cache EXCEPT !.dropped_before = generation, !.frames = <<>>]

RerenderFrom(cache, generation) ==
  [cache EXCEPT !.rerendered_from = generation]

ForgetBefore(cache, first) ==
  [cache EXCEPT !.frames = Only(@, {i \in DOMAIN @ : i >= first})]

ForgetFrom(cache, first, generation) ==
  [cache EXCEPT !.dropped_before = generation,
                !.frames = Only(@, {i \in DOMAIN @ : i < first})]

(* A bug: the answers on their way keep the numbers of the old frames.     *)
RebaseWithoutDropping(cache, first, generation) ==
  [cache EXCEPT !.frames =
     [i \in {j - first : j \in {k \in DOMAIN @ : k >= first}} |-> @[i + first]]]

\* The frames from first on become the frames from 0.
Rebase(cache, first, generation) ==
  [cache EXCEPT !.dropped_before = generation,
                !.frames =
     [i \in {j - first : j \in {k \in DOMAIN @ : k >= first}} |-> @[i + first]]]
=============================================================================
