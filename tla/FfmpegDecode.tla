---------------------------- MODULE FfmpegDecode ----------------------------
(***************************************************************************)
(* FrameDecoder of src/ffmpeg_decode.rs: a source thread demuxes and       *)
(* decodes, a graph thread filters, each hands frames on over a bounded    *)
(* channel, and a reader takes them, until the frames end, something fails *)
(* or the reader stops both threads.  One decoder for each layer of a      *)
(* picture; CompositeFrames is their reader.                               *)
(*                                                                         *)
(* Abstracted: a frame in a channel is a mark, since the channels keep     *)
(* their order; a packet may give any of the frames read so far; the       *)
(* filters and the constant rate step make a few frames of one.            *)
(***************************************************************************)
EXTENDS Integers, Sequences, SequencesExt

CONSTANTS
  Layers,       \* the decoders
  Total,        \* the frames each source holds
  Limit,        \* the frame limit of each
  Queue,        \* DECODED_FRAMES_QUEUED and FILTERED_FRAMES_QUEUED
  Copies,       \* how many frames the filters may make of one
  Damaged,      \* the frames, <<layer, frame>>, that do not decode
  BadFilters,   \* the layers whose filters may fail
  BadRaster,    \* the layers whose frames are not the size asked for
  None

\* Who may report a failure.
Reporters == {"source", "graph", "reader"}

ASSUME DecodeAssumption ==
  /\ Total \in [Layers -> Nat \ {0}] /\ Limit \in [Layers -> Nat \ {0}]
  /\ Queue \in Nat \ {0}
  /\ Copies \subseteq Nat /\ Copies # {}
  /\ BadFilters \subseteq Layers /\ BadRaster \subseteq Layers
  /\ None \notin Layers \cup Reporters /\ None \notin Layers \X Reporters

VARIABLES
  source,    \* the source threads
  graph,     \* the graph threads
  decoded,   \* the channel between them
  filtered,  \* the channel to the reader
  frames,    \* whether the reader still holds its end of that channel
  stop,      \* the stop flags
  failure    \* Outcome::failure, None or who reported first

decodeVars == <<source, graph, decoded, filtered, frames, stop, failure>>

DecodeInit ==
  /\ source = [l \in Layers |-> [pc |-> "read", packets |-> 0, decoded |-> 0,
                                 eof |-> FALSE]]
  /\ graph = [l \in Layers |-> [pc |-> "receive", left |-> 0, sent |-> 0,
                                ended |-> FALSE]]
  /\ decoded = [l \in Layers |-> <<>>]
  /\ filtered = [l \in Layers |-> <<>>]
  /\ frames = [l \in Layers |-> TRUE]
  /\ stop = [l \in Layers |-> FALSE]
  /\ failure = [l \in Layers |-> None]

\* Outcome::fail keeps the first failure.
Fail(l, who) ==
  failure' = [failure EXCEPT ![l] = IF @ = None THEN who ELSE @]

(* A bug: a thread that failed hangs up before it says why.                *)
HungUpFirst(thread) == thread.pc \in {"failed", "reported", "done"}

\* A thread drops its sender as it ends, after its failure is stored.
HungUp(thread) == thread.pc = "done"

\* The graph's receiver goes with the loop over it, before the outcome is
\* locked.
GraphTakes(l) == graph[l].pc \in {"receive", "emit"}

-----------------------------------------------------------------------------
(* The source thread.                                                      *)
SourceGoes(l, pc) == source' = [source EXCEPT ![l].pc = pc]

\* The stop flag is read once a packet; the file may end.
SourceReads(l) ==
  /\ source[l].pc = "read"
  /\ \/ stop[l] /\ SourceGoes(l, "done")
     \/ /\ ~stop[l] /\ source[l].packets = Total[l]
        /\ source' = [source EXCEPT ![l].pc = "drain", ![l].eof = TRUE]
     \/ /\ ~stop[l] /\ source[l].packets # Total[l]
        /\ source' = [source EXCEPT ![l].pc = "drain", ![l].packets = @ + 1]
  /\ UNCHANGED <<graph, decoded, filtered, frames, stop, failure>>

\* The decoder gives a frame it has, or asks for more packets.
SourceDrains(l) ==
  LET s == source[l] IN
  /\ s.pc = "drain"
  /\ \/ /\ s.decoded < s.packets
        /\ SourceGoes(l, IF <<l, s.decoded>> \in Damaged THEN "failed" ELSE "send")
     \/ ~s.eof /\ SourceGoes(l, "read")
     \/ s.eof /\ s.decoded = Total[l] /\ SourceGoes(l, "end")
  /\ UNCHANGED <<graph, decoded, filtered, frames, stop, failure>>

(* A bug: a send never waits for room.                                     *)
HasRoomAlways(channel) == TRUE

HasRoom(channel) == Len(channel) < Queue

\* A send waits for room, and fails once the graph takes no more.
SourceSends(l) ==
  /\ source[l].pc = "send"
  /\ \/ /\ GraphTakes(l) /\ HasRoom(decoded[l])
        /\ decoded' = [decoded EXCEPT ![l] = Append(@, "frame")]
        /\ source' = [source EXCEPT ![l].pc = "drain", ![l].decoded = @ + 1]
     \/ /\ ~GraphTakes(l)
        /\ SourceGoes(l, "done")
        /\ UNCHANGED decoded
  /\ UNCHANGED <<graph, filtered, frames, stop, failure>>

SourceSendsEnd(l) ==
  /\ source[l].pc = "end"
  /\ \/ /\ GraphTakes(l) /\ HasRoom(decoded[l])
        /\ decoded' = [decoded EXCEPT ![l] = Append(@, "end")]
     \/ ~GraphTakes(l) /\ UNCHANGED decoded
  /\ SourceGoes(l, "done")
  /\ UNCHANGED <<graph, filtered, frames, stop, failure>>

SourceFails(l) ==
  /\ source[l].pc = "failed"
  /\ Fail(l, "source")
  /\ SourceGoes(l, "reported")
  /\ UNCHANGED <<graph, decoded, filtered, frames, stop>>

SourceHangsUp(l) ==
  /\ source[l].pc = "reported"
  /\ SourceGoes(l, "done")
  /\ UNCHANGED <<graph, decoded, filtered, frames, stop, failure>>

-----------------------------------------------------------------------------
(* The graph thread.  ended says that it came to the end of the frames or  *)
(* to the limit; the code has no such field.                               *)
GraphReceives(l) ==
  LET g == graph[l] IN
  /\ g.pc = "receive"
  /\ \/ /\ decoded[l] # <<>>
        /\ decoded' = [decoded EXCEPT ![l] = Tail(@)]
        /\ \/ stop[l] /\ graph' = [graph EXCEPT ![l].pc = "returned"]
           \/ /\ ~stop[l] /\ l \in BadFilters
              /\ graph' = [graph EXCEPT ![l].pc = "failed"]
           \/ /\ ~stop[l]
              /\ \E copies \in Copies :
                   graph' = [graph EXCEPT ![l].pc = "emit", ![l].left = copies,
                               ![l].ended = Head(decoded[l]) = "end"]
     \/ /\ decoded[l] = <<>> /\ HungUp(source[l])
        /\ graph' = [graph EXCEPT ![l].pc = "returned"]
        /\ UNCHANGED decoded
  /\ UNCHANGED <<source, filtered, frames, stop, failure>>

\* One frame to the reader.  At the limit, or once the reader is gone, the
\* graph wants no more.
GraphEmits(l) ==
  LET g == graph[l] IN
  /\ g.pc = "emit"
  /\ \/ /\ g.left = 0
        /\ graph' = [graph EXCEPT ![l].pc =
                       IF g.ended THEN "returned" ELSE "receive"]
        /\ UNCHANGED filtered
     \/ /\ g.left > 0 /\ frames[l] /\ HasRoom(filtered[l])
        /\ filtered' = [filtered EXCEPT ![l] = Append(@, "frame")]
        /\ \/ /\ g.sent + 1 = Limit[l]
              /\ graph' = [graph EXCEPT ![l].pc = "returned", ![l].sent = @ + 1,
                                        ![l].ended = TRUE]
           \/ /\ g.sent + 1 # Limit[l]
              /\ graph' = [graph EXCEPT ![l].left = @ - 1, ![l].sent = @ + 1]
     \/ /\ g.left > 0 /\ ~frames[l]
        /\ graph' = [graph EXCEPT ![l].pc = "returned"]
        /\ UNCHANGED filtered
  /\ UNCHANGED <<source, decoded, frames, stop, failure>>

\* With the receiver gone, a failure and the findings are stored.
GraphReports(l) ==
  /\ graph[l].pc \in {"failed", "returned"}
  /\ IF graph[l].pc = "failed" THEN Fail(l, "graph") ELSE UNCHANGED failure
  /\ graph' = [graph EXCEPT ![l].pc = "reported"]
  /\ decoded' = [decoded EXCEPT ![l] = <<>>]
  /\ UNCHANGED <<source, filtered, frames, stop>>

GraphHangsUp(l) ==
  /\ graph[l].pc = "reported"
  /\ graph' = [graph EXCEPT ![l].pc = "done"]
  /\ UNCHANGED <<source, decoded, filtered, frames, stop, failure>>

Threads(l) ==
  \/ SourceReads(l) \/ SourceDrains(l) \/ SourceSends(l)
  \/ SourceSendsEnd(l) \/ SourceFails(l) \/ SourceHangsUp(l)
  \/ GraphReceives(l) \/ GraphEmits(l) \/ GraphReports(l) \/ GraphHangsUp(l)

-----------------------------------------------------------------------------
(* The reader.                                                             *)

\* next: a frame, or none once the graph has hung up.
ReaderTakes(l) ==
  /\ frames[l] /\ filtered[l] # <<>>
  /\ filtered' = [filtered EXCEPT ![l] = Tail(@)]
  /\ UNCHANGED <<source, graph, decoded, frames, stop, failure>>

ReaderSeesTheEnd(l) ==
  \/ ~frames[l]
  \/ filtered[l] = <<>> /\ HungUp(graph[l])

\* A frame of another size is a failure the reader reports itself.
ReaderRefuses(l) ==
  /\ l \in BadRaster
  /\ frames[l] /\ filtered[l] # <<>>
  /\ filtered' = [filtered EXCEPT ![l] = Tail(@)]
  /\ Fail(l, "reader")
  /\ UNCHANGED <<source, graph, decoded, frames, stop>>

SetStop(l) ==
  /\ stop' = [stop EXCEPT ![l] = TRUE]
  /\ UNCHANGED <<source, graph, decoded, filtered, frames, failure>>

(* A bug: the threads are joined with the receiver still held.             *)
KeepReceiver(l) == UNCHANGED decodeVars

DropReceiver(l) ==
  /\ frames' = [frames EXCEPT ![l] = FALSE]
  /\ filtered' = [filtered EXCEPT ![l] = <<>>]
  /\ UNCHANGED <<source, graph, decoded, stop, failure>>

(* A bug: the outcome is read while the graph may still be running.        *)
SourceJoined(l) == source[l].pc = "done"

\* Both threads are joined.
Joined(l) == source[l].pc = "done" /\ graph[l].pc = "done"
=============================================================================
