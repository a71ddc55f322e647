------------------------ MODULE CompositeFramesProofs ------------------------
(***************************************************************************)
(* Proofs about the decoders of a composite and their reader, for any      *)
(* number of layers, frames, copies and any bound of the channels: every   *)
(* end has an explanation, finish names the right one and misses none.     *)
(***************************************************************************)
EXTENDS CompositeFrames, SequenceTheorems, TLAPS

SourceThread == [pc : {"read", "drain", "send", "end", "failed", "reported", "done"},
                 packets : Nat, decoded : Nat, eof : BOOLEAN]

GraphThread == [pc : {"receive", "emit", "failed", "returned", "reported", "done"},
                left : Nat, sent : Nat, ended : BOOLEAN]

ThreadsTyped ==
  /\ source \in [Layers -> SourceThread]
  /\ graph \in [Layers -> GraphThread]
  /\ decoded \in [Layers -> Seq({"frame", "end"})]
  /\ filtered \in [Layers -> Seq({"frame"})]
  /\ frames \in [Layers -> BOOLEAN] /\ stop \in [Layers -> BOOLEAN]
  /\ failure \in [Layers -> Reporters \cup {None}]

(* The bounds: a source sends no frame it has not read, and a graph that   *)
(* still emits has not come to its limit.                                  *)
CountsInv(l) ==
  /\ source[l].packets <= Total[l] /\ source[l].decoded <= source[l].packets
  /\ source[l].pc = "send" => source[l].decoded < source[l].packets
  /\ graph[l].sent <= Limit[l]
  /\ GraphTakes(l) => graph[l].sent < Limit[l]
  /\ Len(decoded[l]) <= Queue /\ Len(filtered[l]) <= Queue

(* Why a thread nobody stopped is gone: a source that hung up on a graph   *)
(* still taking frames sent its end before it or said why not, and a graph *)
(* out of its loop came to the end or somebody said why it did not.        *)
EndOnItsWay(l) ==
  graph[l].ended \/ \E i \in 1..Len(decoded[l]) : decoded[l][i] = "end"

ReasonInv(l) ==
  /\ graph[l].pc = "receive" => ~graph[l].ended
  /\ ~frames[l] => stop[l]
  /\ ~stop[l] =>
       /\ source[l].pc = "reported" => failure[l] # None
       /\ source[l].pc = "done" /\ GraphTakes(l)
            => failure[l] # None \/ EndOnItsWay(l)
       /\ graph[l].pc \in {"returned", "reported", "done"}
            => graph[l].ended \/ failure[l] # None

LayersInv == \A l \in Layers : CountsInv(l) /\ ReasonInv(l)

(* The reader: where it is, what it has stopped, and what it knows.        *)
ReaderTyped ==
  /\ reader \in [pc : {"read", "refused", "join", "finish", "take", "done"},
                 at : 1..Len(Order)]
  /\ frames_read \in 0..FrameCount
  /\ early \in Layers \cup {None}

(* The layers whose failure finish has taken, with both threads joined.    *)
Taken(k) ==
  reader.pc = "done" \/ (reader.pc \in {"finish", "take"} /\ k < reader.at)

EarlyExplained ==
  early # None =>
    /\ graph[early].pc = "done"
    /\ graph[early].ended \/ failure[early] # None \/ verdict # None

VerdictExplained ==
  \/ verdict = None
  \/ verdict \in Layers \X Reporters
  \/ /\ reader.pc = "done" /\ verdict = <<early, "early">>
     /\ early # None /\ graph[early].ended

ReaderInv ==
  /\ reader.pc = "read" => \A l \in Layers : ~stop[l] /\ frames[l]
  /\ reader.pc \in {"refused", "join"} => failure[Layer] # None
  /\ reader.pc \in {"join", "take"} => stop[Layer]
  /\ \A k \in 1..Len(Order) :
       Taken(k) => Joined(Order[k]) /\ failure[Order[k]] = None
  /\ EarlyExplained
  /\ VerdictExplained

CompositeInv == ThreadsTyped /\ LayersInv /\ ReaderTyped /\ ReaderInv

-----------------------------------------------------------------------------
(* What the assumptions say of the constants.                              *)
LEMMA Constants ==
  /\ Total \in [Layers -> Nat \ {0}] /\ Limit \in [Layers -> Nat \ {0}]
  /\ Queue \in Nat \ {0} /\ Copies \subseteq Nat
  /\ None \notin Layers \cup Reporters /\ None \notin Layers \X Reporters
  /\ FrameCount \in Nat
  /\ Len(Order) \in Nat \ {0} /\ \A k \in 1..Len(Order) : Order[k] \in Layers
<1>1. Order \in Seq(Layers) /\ Order # <<>>
  BY CompositeAssumption
<1>2. QED
  BY <1>1, DecodeAssumption, CompositeAssumption

(* A count or a flag set in one thread leaves all of them threads.         *)
LEMMA SourceCounts ==
  ASSUME NEW f \in [Layers -> SourceThread], NEW l \in Layers, NEW n \in Nat
  PROVE  /\ [f EXCEPT ![l].packets = n] \in [Layers -> SourceThread]
         /\ [f EXCEPT ![l].decoded = n] \in [Layers -> SourceThread]
BY DEF SourceThread

LEMMA GraphCounts ==
  ASSUME NEW f \in [Layers -> GraphThread], NEW l \in Layers,
         NEW n \in Nat, NEW b \in BOOLEAN
  PROVE  /\ [f EXCEPT ![l].left = n] \in [Layers -> GraphThread]
         /\ [f EXCEPT ![l].sent = n] \in [Layers -> GraphThread]
         /\ [f EXCEPT ![l].ended = b] \in [Layers -> GraphThread]
BY DEF GraphThread

(* What a thread of layer l leaves of the other layers.                    *)
OthersUnchanged(l) ==
  \A k \in Layers \ {l} :
    /\ source'[k] = source[k] /\ graph'[k] = graph[k]
    /\ decoded'[k] = decoded[k] /\ filtered'[k] = filtered[k]
    /\ frames'[k] = frames[k] /\ stop'[k] = stop[k] /\ failure'[k] = failure[k]

(* What it may do to its own: a thread that is done stays so, and a joined *)
(* layer reports no more.                                                  *)
EndsAreFinal(l) ==
  /\ source[l].pc = "done" => source'[l].pc = "done"
  /\ graph[l].pc = "done" => graph'[l] = graph[l]
  /\ failure[l] # None => failure'[l] # None
  /\ Joined(l) => failure'[l] = failure[l]

ThreadStep(l) ==
  /\ ThreadsTyped' /\ UNCHANGED <<frames, stop>>
  /\ CountsInv(l)' /\ ReasonInv(l)'
  /\ OthersUnchanged(l) /\ EndsAreFinal(l)

LEMMA SourceReadsStep ==
  ASSUME ThreadsTyped, LayersInv, NEW l \in Layers, SourceReads(l)
  PROVE  ThreadStep(l)
<1> USE Constants
<1> DEFINE s == source[l]
<1>1. s \in SourceThread /\ source \in [Layers -> SourceThread]
  BY DEF ThreadsTyped
<1>2. UNCHANGED <<graph, decoded, filtered, frames, stop, failure>>
  BY DEF SourceReads
<1>3. /\ s.pc = "read" /\ source'[l].decoded = s.decoded
      /\ \/ source'[l].pc = "done" /\ stop[l] /\ source'[l].packets = s.packets
         \/ source'[l].pc = "drain" /\ source'[l].packets = s.packets
         \/ source'[l].pc = "drain" /\ source'[l].packets = s.packets + 1
            /\ s.packets # Total[l]
      /\ \A k \in Layers \ {l} : source'[k] = source[k]
  BY DEF SourceReads, SourceGoes, ThreadsTyped, SourceThread
<1>4. source' \in [Layers -> SourceThread]
  <2>1. CASE SourceGoes(l, "done")
    BY <2>1 DEF SourceGoes, ThreadsTyped, SourceThread
  <2>2. CASE source' = [source EXCEPT ![l].pc = "drain", ![l].eof = TRUE]
    <3> DEFINE drained == [source EXCEPT ![l].pc = "drain"]
    <3>1. drained \in [Layers -> SourceThread]
      BY <1>1 DEF SourceThread
    <3>2. source' = [drained EXCEPT ![l].eof = TRUE]
      BY <2>2
    <3> HIDE DEF drained
    <3>3. QED
      BY <3>1, <3>2 DEF SourceThread
  <2>3. CASE source' = [source EXCEPT ![l].pc = "drain", ![l].packets = @ + 1]
    <3>1. source' = [source EXCEPT ![l] = [pc |-> "drain", packets |-> s.packets + 1,
                                           decoded |-> s.decoded, eof |-> s.eof]]
      BY <1>1, <2>3 DEF SourceThread
    <3>2. QED
      BY <1>1, <3>1 DEF ThreadsTyped, SourceThread
  <2>4. QED
    BY <2>1, <2>2, <2>3 DEF SourceReads
<1>5. ThreadsTyped' /\ OthersUnchanged(l) /\ EndsAreFinal(l)
  BY <1>2, <1>3, <1>4 DEF ThreadsTyped, OthersUnchanged, EndsAreFinal, Joined
<1>6. CountsInv(l)'
  BY <1>1, <1>2, <1>3 DEF LayersInv, CountsInv, SourceThread, GraphTakes
<1>7. ReasonInv(l)'
  BY <1>2, <1>3 DEF LayersInv, ReasonInv, EndOnItsWay, GraphTakes
<1>8. QED
  BY <1>2, <1>5, <1>6, <1>7 DEF ThreadStep

LEMMA SourceDrainsStep ==
  ASSUME ThreadsTyped, LayersInv, NEW l \in Layers, SourceDrains(l)
  PROVE  ThreadStep(l)
<1> USE Constants
<1> DEFINE s == source[l]
<1>1. s \in SourceThread /\ source \in [Layers -> SourceThread]
  BY DEF ThreadsTyped
<1>2. UNCHANGED <<graph, decoded, filtered, frames, stop, failure>>
  BY DEF SourceDrains
<1>3. PICK pc \in {"failed", "send", "read", "end"} :
        SourceGoes(l, pc) /\ (pc = "send" => s.decoded < s.packets)
  BY DEF SourceDrains
<1>4. /\ s.pc = "drain" /\ source'[l].pc = pc
      /\ source'[l].decoded = s.decoded /\ source'[l].packets = s.packets
      /\ \A k \in Layers \ {l} : source'[k] = source[k]
  BY <1>1, <1>3 DEF SourceDrains, SourceGoes, ThreadsTyped, SourceThread
<1>5. source' \in [Layers -> SourceThread]
  BY <1>3 DEF SourceGoes, ThreadsTyped, SourceThread
<1>6. ThreadsTyped' /\ OthersUnchanged(l) /\ EndsAreFinal(l)
  BY <1>2, <1>4, <1>5 DEF ThreadsTyped, OthersUnchanged, EndsAreFinal, Joined
<1>7. CountsInv(l)'
  BY <1>1, <1>2, <1>3, <1>4 DEF LayersInv, CountsInv, SourceThread, GraphTakes
<1>8. ReasonInv(l)'
  BY <1>2, <1>3, <1>4 DEF LayersInv, ReasonInv, EndOnItsWay, GraphTakes
<1>9. QED
  BY <1>2, <1>6, <1>7, <1>8 DEF ThreadStep

LEMMA SourceSendsStep ==
  ASSUME ThreadsTyped, LayersInv, NEW l \in Layers, SourceSends(l)
  PROVE  ThreadStep(l)
<1> USE Constants
<1> DEFINE s == source[l]
<1>1. s \in SourceThread /\ source \in [Layers -> SourceThread]
      /\ decoded \in [Layers -> Seq({"frame", "end"})]
  BY DEF ThreadsTyped
<1>2. UNCHANGED <<graph, filtered, frames, stop, failure>> /\ s.pc = "send"
  BY DEF SourceSends
<1>3. CASE GraphTakes(l) /\ HasRoom(decoded[l])
           /\ decoded' = [decoded EXCEPT ![l] = Append(@, "frame")]
           /\ source' = [source EXCEPT ![l].pc = "drain", ![l].decoded = @ + 1]
  <2>1. /\ source'[l].pc = "drain" /\ source'[l].packets = s.packets
        /\ source'[l].decoded = s.decoded + 1
        /\ \A k \in Layers \ {l} : source'[k] = source[k] /\ decoded'[k] = decoded[k]
    BY <1>1, <1>3 DEF SourceThread
  <2> DEFINE drained == [source EXCEPT ![l].pc = "drain"]
  <2>2. drained \in [Layers -> SourceThread] /\ drained[l].decoded \in Nat
    BY <1>1 DEF SourceThread
  <2>3. source' \in [Layers -> SourceThread]
    <3>1. source' = [drained EXCEPT ![l].decoded = s.decoded + 1] /\ s.decoded + 1 \in Nat
      BY <1>1, <1>3 DEF SourceThread
    <3> HIDE DEF drained
    <3>2. QED
      BY <2>2, <3>1, SourceCounts
  <2>4. /\ decoded'[l] \in Seq({"frame", "end"})
        /\ Len(decoded'[l]) = Len(decoded[l]) + 1
        /\ \A i \in 1..Len(decoded[l]) :
             i \in 1..Len(decoded'[l]) /\ decoded'[l][i] = decoded[l][i]
    BY <1>1, <1>3
  <2>5. decoded' \in [Layers -> Seq({"frame", "end"})]
    BY <1>1, <1>3, <2>4
  <2>6. ThreadsTyped' /\ OthersUnchanged(l) /\ EndsAreFinal(l)
    BY <1>2, <2>1, <2>3, <2>5 DEF ThreadsTyped, OthersUnchanged, EndsAreFinal, Joined
  <2>7. CountsInv(l)'
    BY <1>1, <1>2, <1>3, <2>1, <2>4
    DEF LayersInv, CountsInv, SourceThread, GraphTakes, HasRoom
  <2>8. ReasonInv(l)'
    BY <1>2, <2>1, <2>4 DEF LayersInv, ReasonInv, EndOnItsWay, GraphTakes
  <2>9. QED
    BY <1>2, <2>6, <2>7, <2>8 DEF ThreadStep
<1>4. CASE ~GraphTakes(l) /\ SourceGoes(l, "done") /\ UNCHANGED decoded
  <2>1. /\ source'[l].pc = "done" /\ source'[l].packets = s.packets
        /\ source'[l].decoded = s.decoded
        /\ \A k \in Layers \ {l} : source'[k] = source[k]
        /\ source' \in [Layers -> SourceThread]
    BY <1>1, <1>4 DEF SourceThread, SourceGoes
  <2>2. ThreadsTyped' /\ OthersUnchanged(l) /\ EndsAreFinal(l)
    BY <1>2, <1>4, <2>1 DEF ThreadsTyped, OthersUnchanged, EndsAreFinal, Joined
  <2>3. CountsInv(l)'
    BY <1>2, <1>4, <2>1 DEF LayersInv, CountsInv, GraphTakes
  <2>4. ReasonInv(l)'
    BY <1>2, <1>4, <2>1 DEF LayersInv, ReasonInv, EndOnItsWay, GraphTakes
  <2>5. QED
    BY <1>2, <2>2, <2>3, <2>4 DEF ThreadStep
<1>5. QED
  BY <1>3, <1>4 DEF SourceSends

LEMMA SourceSendsEndStep ==
  ASSUME ThreadsTyped, LayersInv, NEW l \in Layers, SourceSendsEnd(l)
  PROVE  ThreadStep(l)
<1> USE Constants
<1> DEFINE s == source[l]
<1>1. source \in [Layers -> SourceThread]
      /\ decoded \in [Layers -> Seq({"frame", "end"})]
  BY DEF ThreadsTyped
<1>2. UNCHANGED <<graph, filtered, frames, stop, failure>> /\ s.pc = "end"
  BY DEF SourceSendsEnd
<1>3. /\ source'[l].pc = "done" /\ source'[l].packets = s.packets
      /\ source'[l].decoded = s.decoded
      /\ \A k \in Layers \ {l} : source'[k] = source[k]
      /\ source' \in [Layers -> SourceThread]
  BY <1>1 DEF SourceThread, SourceGoes, SourceSendsEnd
<1>4. /\ decoded' \in [Layers -> Seq({"frame", "end"})]
      /\ Len(decoded'[l]) <= Queue
      /\ GraphTakes(l) =>
           Len(decoded'[l]) \in 1..Len(decoded'[l])
           /\ decoded'[l][Len(decoded'[l])] = "end"
      /\ \A k \in Layers \ {l} : decoded'[k] = decoded[k]
  <2>1. CASE GraphTakes(l) /\ HasRoom(decoded[l])
             /\ decoded' = [decoded EXCEPT ![l] = Append(@, "end")]
    BY <1>1, <2>1 DEF HasRoom
  <2>2. CASE ~GraphTakes(l) /\ UNCHANGED decoded
    BY <1>1, <2>2 DEF LayersInv, CountsInv
  <2>3. QED
    BY <2>1, <2>2 DEF SourceSendsEnd
<1>5. ThreadsTyped' /\ OthersUnchanged(l) /\ EndsAreFinal(l)
  BY <1>2, <1>3, <1>4 DEF ThreadsTyped, OthersUnchanged, EndsAreFinal, Joined
<1>6. CountsInv(l)'
  BY <1>2, <1>3, <1>4 DEF LayersInv, CountsInv, GraphTakes
<1>7. ReasonInv(l)'
  BY <1>2, <1>3, <1>4 DEF LayersInv, ReasonInv, EndOnItsWay, GraphTakes
<1>8. QED
  BY <1>2, <1>5, <1>6, <1>7 DEF ThreadStep

(* The two steps of a source that failed: the reason, and only then the    *)
(* hang-up.                                                                *)
LEMMA SourceFailsStep ==
  ASSUME ThreadsTyped, LayersInv, NEW l \in Layers,
         SourceFails(l) \/ SourceHangsUp(l)
  PROVE  ThreadStep(l)
<1> USE Constants
<1> DEFINE s == source[l]
<1>1. source \in [Layers -> SourceThread]
      /\ failure \in [Layers -> Reporters \cup {None}]
  BY DEF ThreadsTyped
<1>2. UNCHANGED <<graph, decoded, filtered, frames, stop>>
  BY DEF SourceFails, SourceHangsUp
<1>3. /\ \/ s.pc = "failed" /\ source'[l].pc = "reported" /\ failure'[l] # None
         \/ s.pc = "reported" /\ source'[l].pc = "done" /\ failure' = failure
      /\ source'[l].packets = s.packets /\ source'[l].decoded = s.decoded
      /\ \A k \in Layers \ {l} : source'[k] = source[k] /\ failure'[k] = failure[k]
  BY <1>1 DEF SourceThread, SourceGoes, SourceFails, SourceHangsUp, Fail, Reporters
<1>4. source' \in [Layers -> SourceThread]
  <2>1. CASE SourceGoes(l, "reported")
    BY <1>1, <2>1 DEF SourceThread, SourceGoes
  <2>2. CASE SourceGoes(l, "done")
    BY <1>1, <2>2 DEF SourceThread, SourceGoes
  <2>3. QED
    BY <2>1, <2>2 DEF SourceFails, SourceHangsUp
<1>5. failure' \in [Layers -> Reporters \cup {None}]
  BY <1>1 DEF SourceFails, SourceHangsUp, Fail, Reporters
<1>6. ThreadsTyped' /\ OthersUnchanged(l) /\ EndsAreFinal(l)
  BY <1>2, <1>3, <1>4, <1>5 DEF ThreadsTyped, OthersUnchanged, EndsAreFinal, Joined
<1>7. CountsInv(l)'
  BY <1>2, <1>3 DEF LayersInv, CountsInv, GraphTakes
<1>8. ReasonInv(l)'
  BY <1>2, <1>3 DEF LayersInv, ReasonInv, EndOnItsWay, GraphTakes
<1>9. QED
  BY <1>2, <1>6, <1>7, <1>8 DEF ThreadStep

LEMMA GraphReceivesStep ==
  ASSUME ThreadsTyped, LayersInv, NEW l \in Layers, GraphReceives(l)
  PROVE  ThreadStep(l)
<1> USE Constants
<1> DEFINE g == graph[l]
<1>1. graph \in [Layers -> GraphThread] /\ g \in GraphThread
      /\ decoded \in [Layers -> Seq({"frame", "end"})]
  BY DEF ThreadsTyped
<1>2. UNCHANGED <<source, filtered, frames, stop, failure>> /\ g.pc = "receive"
  BY DEF GraphReceives
<1>3. decoded[l] # <<>> => /\ Tail(decoded[l]) \in Seq({"frame", "end"})
                           /\ Len(Tail(decoded[l])) = Len(decoded[l]) - 1
                           /\ \A i \in 2..Len(decoded[l]) :
                                /\ i - 1 \in 1..Len(Tail(decoded[l]))
                                /\ Tail(decoded[l])[i - 1] = decoded[l][i]
                           /\ Head(decoded[l]) = decoded[l][1]
                           /\ Len(decoded[l]) \in Nat
  BY <1>1, HeadTailProperties
<1>4. CASE \E copies \in Copies :
             /\ decoded[l] # <<>> /\ decoded' = [decoded EXCEPT ![l] = Tail(@)]
             /\ graph' = [graph EXCEPT ![l].pc = "emit", ![l].left = copies,
                            ![l].ended = Head(decoded[l]) = "end"]
  <2>1. PICK copies \in Copies :
             /\ decoded[l] # <<>> /\ decoded' = [decoded EXCEPT ![l] = Tail(@)]
             /\ graph' = [graph EXCEPT ![l].pc = "emit", ![l].left = copies,
                            ![l].ended = Head(decoded[l]) = "end"]
    BY <1>4
  <2>2. /\ graph'[l].pc = "emit" /\ graph'[l].sent = g.sent
        /\ graph'[l].ended <=> decoded[l][1] = "end"
        /\ \A k \in Layers \ {l} : graph'[k] = graph[k]
    BY <1>1, <1>3, <2>1 DEF GraphThread
  <2>3. graph' \in [Layers -> GraphThread]
    <3> DEFINE emitting == [graph EXCEPT ![l].pc = "emit"]
               loaded == [emitting EXCEPT ![l].left = copies]
    <3>1. emitting \in [Layers -> GraphThread]
      BY <1>1 DEF GraphThread
    <3>2. graph' = [loaded EXCEPT ![l].ended = (Head(decoded[l]) = "end")]
      BY <2>1
    <3> HIDE DEF emitting
    <3>3. loaded \in [Layers -> GraphThread]
      BY <3>1 DEF GraphThread
    <3> HIDE DEF loaded
    <3>4. (Head(decoded[l]) = "end") \in BOOLEAN
      OBVIOUS
    <3>5. QED
      BY <3>2, <3>3, <3>4, GraphCounts
  <2>4. /\ decoded'[l] = Tail(decoded[l]) /\ decoded' \in [Layers -> Seq({"frame", "end"})]
        /\ \A k \in Layers \ {l} : decoded'[k] = decoded[k]
    BY <1>1, <1>3, <2>1
  <2>5. ThreadsTyped' /\ OthersUnchanged(l) /\ EndsAreFinal(l)
    BY <1>2, <2>2, <2>3, <2>4 DEF ThreadsTyped, OthersUnchanged, EndsAreFinal, Joined
  <2>6. CountsInv(l)'
    BY <1>2, <1>3, <2>1, <2>2, <2>4 DEF LayersInv, CountsInv, GraphTakes
  <2>7. EndOnItsWay(l) => EndOnItsWay(l)'
    BY <1>2, <1>3, <2>1, <2>2, <2>4 DEF EndOnItsWay, LayersInv, ReasonInv
  <2>8. ReasonInv(l)'
    BY <1>2, <2>2, <2>7 DEF LayersInv, ReasonInv, GraphTakes
  <2>9. QED
    BY <1>2, <2>5, <2>6, <2>8 DEF ThreadStep
<1>5. CASE \/ decoded[l] # <<>> /\ decoded' = [decoded EXCEPT ![l] = Tail(@)]
              /\ \/ stop[l] /\ graph' = [graph EXCEPT ![l].pc = "returned"]
                 \/ graph' = [graph EXCEPT ![l].pc = "failed"]
           \/ decoded[l] = <<>> /\ HungUp(source[l]) /\ UNCHANGED decoded
              /\ graph' = [graph EXCEPT ![l].pc = "returned"]
  <2>1. /\ graph'[l].sent = g.sent /\ graph'[l].ended = g.ended
        /\ \/ graph'[l].pc = "failed"
           \/ graph'[l].pc = "returned" /\ stop[l]
           \/ graph'[l].pc = "returned" /\ decoded[l] = <<>> /\ source[l].pc = "done"
        /\ \A k \in Layers \ {l} : graph'[k] = graph[k]
    BY <1>1, <1>5 DEF GraphThread, HungUp
  <2>1a. graph' \in [Layers -> GraphThread]
    <3>1. CASE graph' = [graph EXCEPT ![l].pc = "returned"]
      BY <1>1, <3>1 DEF GraphThread
    <3>2. CASE graph' = [graph EXCEPT ![l].pc = "failed"]
      BY <1>1, <3>2 DEF GraphThread
    <3>3. QED
      BY <1>5, <3>1, <3>2
  <2>2. /\ decoded' \in [Layers -> Seq({"frame", "end"})]
        /\ Len(decoded'[l]) <= Queue
        /\ \A k \in Layers \ {l} : decoded'[k] = decoded[k]
    <3>1. Len(decoded[l]) <= Queue /\ Len(decoded[l]) \in Nat
      BY <1>1 DEF LayersInv, CountsInv
    <3>2. CASE decoded[l] # <<>> /\ decoded' = [decoded EXCEPT ![l] = Tail(@)]
      BY <1>1, <1>3, <3>1, <3>2
    <3>3. CASE UNCHANGED decoded
      BY <1>1, <3>1, <3>3
    <3>4. QED
      BY <1>5, <3>2, <3>3
  <2>3. ThreadsTyped' /\ OthersUnchanged(l) /\ EndsAreFinal(l)
    BY <1>2, <2>1, <2>1a, <2>2 DEF ThreadsTyped, OthersUnchanged, EndsAreFinal, Joined
  <2>4. CountsInv(l)'
    BY <1>2, <2>1, <2>2 DEF LayersInv, CountsInv, GraphTakes
  <2>5. decoded[l] = <<>> => (EndOnItsWay(l) <=> g.ended)
    BY DEF EndOnItsWay
  <2>6. ReasonInv(l)'
    BY <1>2, <2>1, <2>5 DEF LayersInv, ReasonInv, GraphTakes
  <2>7. QED
    BY <1>2, <2>3, <2>4, <2>6 DEF ThreadStep
<1>6. QED
  BY <1>4, <1>5 DEF GraphReceives

LEMMA GraphEmitsStep ==
  ASSUME ThreadsTyped, LayersInv, NEW l \in Layers, GraphEmits(l)
  PROVE  ThreadStep(l)
<1> USE Constants
<1> DEFINE g == graph[l]
<1>1. graph \in [Layers -> GraphThread] /\ g \in GraphThread
      /\ filtered \in [Layers -> Seq({"frame"})]
  BY DEF ThreadsTyped
<1>2. UNCHANGED <<source, decoded, frames, stop, failure>> /\ g.pc = "emit"
  BY DEF GraphEmits
<1>3. CASE \/ g.left = 0 /\ UNCHANGED filtered
              /\ graph' = [graph EXCEPT ![l].pc =
                             IF g.ended THEN "returned" ELSE "receive"]
           \/ ~frames[l] /\ UNCHANGED filtered
              /\ graph' = [graph EXCEPT ![l].pc = "returned"]
  <2>1. /\ graph'[l].sent = g.sent /\ graph'[l].ended = g.ended
        /\ \/ graph'[l].pc = "returned" /\ (g.ended \/ ~frames[l])
           \/ graph'[l].pc = "receive" /\ ~g.ended
        /\ \A k \in Layers \ {l} : graph'[k] = graph[k]
    BY <1>1, <1>3 DEF GraphThread
  <2>1a. graph' \in [Layers -> GraphThread]
    <3>1. CASE graph' = [graph EXCEPT ![l].pc = "returned"]
      BY <1>1, <3>1 DEF GraphThread
    <3>2. CASE graph' = [graph EXCEPT ![l].pc = "receive"]
      BY <1>1, <3>2 DEF GraphThread
    <3>3. QED
      BY <1>3, <3>1, <3>2
  <2>2. ThreadsTyped' /\ OthersUnchanged(l) /\ EndsAreFinal(l)
    BY <1>2, <1>3, <2>1, <2>1a DEF ThreadsTyped, OthersUnchanged, EndsAreFinal, Joined
  <2>3. CountsInv(l)'
    BY <1>2, <1>3, <2>1 DEF LayersInv, CountsInv, GraphTakes
  <2>4. ReasonInv(l)'
    BY <1>2, <1>3, <2>1 DEF LayersInv, ReasonInv, GraphTakes, EndOnItsWay
  <2>5. QED
    BY <1>2, <2>2, <2>3, <2>4 DEF ThreadStep
<1>4. CASE /\ g.left > 0 /\ HasRoom(filtered[l])
           /\ filtered' = [filtered EXCEPT ![l] = Append(@, "frame")]
           /\ \/ /\ g.sent + 1 = Limit[l]
                 /\ graph' = [graph EXCEPT ![l].pc = "returned", ![l].sent = @ + 1,
                                           ![l].ended = TRUE]
              \/ /\ g.sent + 1 # Limit[l]
                 /\ graph' = [graph EXCEPT ![l].left = @ - 1, ![l].sent = @ + 1]
  <2>1. /\ graph'[l].sent = g.sent + 1
        /\ \/ graph'[l].pc = "returned" /\ graph'[l].ended /\ g.sent + 1 = Limit[l]
           \/ graph'[l].pc = "emit" /\ graph'[l].ended = g.ended
              /\ g.sent + 1 # Limit[l]
        /\ \A k \in Layers \ {l} : graph'[k] = graph[k]
    BY <1>1, <1>2, <1>4 DEF GraphThread
  <2>2. graph' \in [Layers -> GraphThread]
    <3>1. CASE graph' = [graph EXCEPT ![l].pc = "returned", ![l].sent = @ + 1,
                                      ![l].ended = TRUE]
      <4> DEFINE returned == [graph EXCEPT ![l].pc = "returned"]
                 counted == [returned EXCEPT ![l].sent = g.sent + 1]
      <4>1. returned \in [Layers -> GraphThread] /\ returned[l].sent \in Nat
        BY <1>1 DEF GraphThread
      <4>2. graph' = [counted EXCEPT ![l].ended = TRUE]
        BY <1>1, <3>1 DEF GraphThread
      <4>3. g.sent + 1 \in Nat
        BY <1>1 DEF GraphThread
      <4> HIDE DEF returned
      <4>4. counted \in [Layers -> GraphThread]
        BY <4>1, <4>3, GraphCounts
      <4> HIDE DEF counted
      <4>5. QED
        BY <4>2, <4>4 DEF GraphThread
    <3>2. CASE graph' = [graph EXCEPT ![l].left = @ - 1, ![l].sent = @ + 1]
      <4> DEFINE counted == [graph EXCEPT ![l].left = g.left - 1]
      <4>1. g.left - 1 \in Nat /\ g.sent + 1 \in Nat
        BY <1>1, <1>4 DEF GraphThread
      <4>2. counted \in [Layers -> GraphThread]
        BY <1>1, <4>1, GraphCounts
      <4>3. graph' = [counted EXCEPT ![l].sent = g.sent + 1]
        BY <1>1, <3>2 DEF GraphThread
      <4> HIDE DEF counted
      <4>4. QED
        BY <4>1, <4>2, <4>3, GraphCounts
    <3>3. QED
      BY <1>4, <3>1, <3>2
  <2>3. /\ filtered' \in [Layers -> Seq({"frame"})]
        /\ Len(filtered'[l]) <= Queue
        /\ \A k \in Layers \ {l} : filtered'[k] = filtered[k]
    BY <1>1, <1>4 DEF HasRoom
  <2>4. ThreadsTyped' /\ OthersUnchanged(l) /\ EndsAreFinal(l)
    BY <1>2, <2>1, <2>2, <2>3 DEF ThreadsTyped, OthersUnchanged, EndsAreFinal, Joined
  <2>5. CountsInv(l)'
    <3>1. g.sent \in Nat /\ Limit[l] \in Nat /\ g.sent < Limit[l] /\ CountsInv(l)
      BY <1>1, <1>2 DEF LayersInv, CountsInv, GraphTakes, GraphThread
    <3>2. g.sent + 1 <= Limit[l] /\ (GraphTakes(l)' => g.sent + 1 < Limit[l])
      BY <2>1, <3>1 DEF GraphTakes
    <3>3. QED
      BY <1>2, <2>1, <2>3, <3>1, <3>2 DEF CountsInv
  <2>6. ReasonInv(l)'
    BY <1>2, <2>1 DEF LayersInv, ReasonInv, GraphTakes, EndOnItsWay
  <2>7. QED
    BY <1>2, <2>4, <2>5, <2>6 DEF ThreadStep
<1>5. QED
  BY <1>3, <1>4 DEF GraphEmits

(* The two steps of a graph out of its loop: what it has to say, and only  *)
(* then the hang-up.                                                       *)
LEMMA GraphReportsStep ==
  ASSUME ThreadsTyped, LayersInv, NEW l \in Layers,
         GraphReports(l) \/ GraphHangsUp(l)
  PROVE  ThreadStep(l)
<1> USE Constants
<1> DEFINE g == graph[l]
<1>1. graph \in [Layers -> GraphThread] /\ g \in GraphThread
      /\ decoded \in [Layers -> Seq({"frame", "end"})]
      /\ failure \in [Layers -> Reporters \cup {None}]
  BY DEF ThreadsTyped
<1>2. UNCHANGED <<source, filtered, frames, stop>>
  BY DEF GraphReports, GraphHangsUp
<1>3. /\ graph'[l].sent = g.sent /\ graph'[l].ended = g.ended
      /\ \/ g.pc = "failed" /\ graph'[l].pc = "reported" /\ failure'[l] # None
         \/ g.pc = "returned" /\ graph'[l].pc = "reported" /\ failure' = failure
         \/ g.pc = "reported" /\ graph'[l].pc = "done" /\ failure' = failure
      /\ \A k \in Layers \ {l} : graph'[k] = graph[k] /\ failure'[k] = failure[k]
  BY <1>1 DEF GraphThread, GraphReports, GraphHangsUp, Fail, Reporters
<1>4. graph' \in [Layers -> GraphThread]
  <2>1. CASE graph' = [graph EXCEPT ![l].pc = "reported"]
    BY <1>1, <2>1 DEF GraphThread
  <2>2. CASE graph' = [graph EXCEPT ![l].pc = "done"]
    BY <1>1, <2>2 DEF GraphThread
  <2>3. QED
    BY <2>1, <2>2 DEF GraphReports, GraphHangsUp
<1>5. failure' \in [Layers -> Reporters \cup {None}]
  <2>1. CASE Fail(l, "graph")
    BY <1>1, <2>1 DEF Fail, Reporters
  <2>2. QED
    BY <1>1, <2>1 DEF GraphReports, GraphHangsUp
<1>6. /\ decoded' \in [Layers -> Seq({"frame", "end"})]
      /\ Len(decoded'[l]) <= Queue
      /\ \A k \in Layers \ {l} : decoded'[k] = decoded[k]
  <2>1. Len(decoded[l]) <= Queue
    BY DEF LayersInv, CountsInv
  <2>2. CASE UNCHANGED decoded
    BY <1>1, <2>1, <2>2
  <2>3. CASE decoded' = [decoded EXCEPT ![l] = <<>>]
    BY <1>1, <2>3
  <2>4. QED
    BY <2>2, <2>3 DEF GraphReports, GraphHangsUp
<1>7. ThreadsTyped' /\ OthersUnchanged(l) /\ EndsAreFinal(l)
  BY <1>2, <1>3, <1>4, <1>5, <1>6
  DEF ThreadsTyped, OthersUnchanged, EndsAreFinal, Joined
<1>8. CountsInv(l)'
  BY <1>2, <1>3, <1>6 DEF LayersInv, CountsInv, GraphTakes
<1>9. ReasonInv(l)'
  BY <1>2, <1>3 DEF LayersInv, ReasonInv, EndOnItsWay, GraphTakes
<1>10. QED
  BY <1>2, <1>7, <1>8, <1>9 DEF ThreadStep

LEMMA ThreadsStep ==
  ASSUME ThreadsTyped, LayersInv, NEW l \in Layers, Threads(l)
  PROVE  ThreadStep(l)
BY SourceReadsStep, SourceDrainsStep, SourceSendsStep, SourceSendsEndStep,
   SourceFailsStep, GraphReceivesStep, GraphEmitsStep, GraphReportsStep
DEF Threads

-----------------------------------------------------------------------------
LEMMA EveryLayerIsInTheOrder ==
  \A l \in Layers : \E k \in 1..Len(Order) : Order[k] = l
<1>1. Order \in Seq(Layers) /\ DOMAIN Order = 1..Len(Order)
  BY CompositeAssumption
<1>2. QED
  BY <1>1, CompositeAssumption DEF Range

(* A step of the threads of one layer keeps what is known of the others    *)
(* and of the reader.                                                      *)
LEMMA ThreadsPreserve ==
  ASSUME CompositeInv, NEW l \in Layers, Threads(l), UNCHANGED readerVars
  PROVE  CompositeInv'
<1> USE Constants
<1>1. ThreadStep(l)
  BY ThreadsStep DEF CompositeInv
<1>2. ThreadsTyped' /\ UNCHANGED <<frames, stop>>
      /\ OthersUnchanged(l) /\ EndsAreFinal(l)
  BY <1>1 DEF ThreadStep
<1>3. UNCHANGED <<reader, frames_read, early, verdict>>
  BY DEF readerVars
<1>4. LayersInv'
  <2> SUFFICES ASSUME NEW k \in Layers
               PROVE  CountsInv(k)' /\ ReasonInv(k)'
    BY DEF LayersInv
  <2>1. CASE k = l
    BY <1>1, <2>1 DEF ThreadStep
  <2>2. CASE k # l
    <3>1. /\ source'[k] = source[k] /\ graph'[k] = graph[k]
          /\ decoded'[k] = decoded[k] /\ filtered'[k] = filtered[k]
          /\ frames'[k] = frames[k] /\ stop'[k] = stop[k] /\ failure'[k] = failure[k]
      BY <1>2, <2>2 DEF OthersUnchanged
    <3>2. CountsInv(k) /\ ReasonInv(k)
      BY DEF CompositeInv, LayersInv
    <3>3. QED
      BY <3>1, <3>2 DEF CountsInv, ReasonInv, EndOnItsWay, GraphTakes
  <2>3. QED
    BY <2>1, <2>2
<1>5. \A k \in Layers :
        /\ graph[k].pc = "done" => graph'[k] = graph[k]
        /\ failure[k] # None => failure'[k] # None
        /\ Joined(k) => Joined(k)' /\ failure'[k] = failure[k]
  BY <1>2 DEF OthersUnchanged, EndsAreFinal, Joined
<1>6. ReaderTyped' /\ reader.at \in 1..Len(Order) /\ Layer \in Layers /\ Layer' = Layer
  BY <1>3 DEF CompositeInv, ReaderTyped, Layer
<1>7. EarlyExplained' /\ VerdictExplained'
  <2>1. CASE early = None
    BY <1>3, <2>1 DEF CompositeInv, ReaderInv, EarlyExplained, VerdictExplained
  <2>2. CASE early # None
    <3>1. early \in Layers /\ EarlyExplained /\ VerdictExplained
      BY <2>2 DEF CompositeInv, ReaderTyped, ReaderInv
    <3>2. graph'[early] = graph[early] /\ (failure[early] # None => failure'[early] # None)
      BY <1>5, <2>2, <3>1 DEF EarlyExplained
    <3>3. QED
      BY <1>3, <3>1, <3>2 DEF EarlyExplained, VerdictExplained
  <2>3. QED
    BY <2>1, <2>2
<1>8. \A k \in 1..Len(Order) :
        Taken(k)' => Joined(Order[k])' /\ failure'[Order[k]] = None
  BY <1>3, <1>5 DEF CompositeInv, ReaderInv, Taken
<1>9. /\ reader.pc = "read" => \A k \in Layers : ~stop[k] /\ frames[k]
      /\ reader.pc \in {"refused", "join"} => failure[Layer] # None
      /\ reader.pc \in {"join", "take"} => stop[Layer]
  BY DEF CompositeInv, ReaderInv
<1>10. ReaderInv'
  BY <1>2, <1>3, <1>5, <1>6, <1>7, <1>8, <1>9 DEF ReaderInv
<1>11. QED
  BY <1>2, <1>4, <1>6, <1>10 DEF CompositeInv

(* What the threads' invariant reads is only theirs.                       *)
LEMMA ReaderLeavesTheThreads ==
  ASSUME ThreadsTyped, LayersInv, UNCHANGED decodeVars
  PROVE  ThreadsTyped' /\ LayersInv'
BY DEF decodeVars, ThreadsTyped, LayersInv, CountsInv, ReasonInv, EndOnItsWay, GraphTakes

(* The end of reading, for whatever reason.                                *)
LEMMA ToFinishPreserves ==
  ASSUME CompositeInv, ReadIsWhole \/ EncodeStops \/ LayerEnds \/ RefusedEnds
  PROVE  CompositeInv'
<1> USE Constants
<1>1. UNCHANGED decodeVars /\ UNCHANGED <<frames_read, verdict>> /\ ToFinish
      /\ reader.pc \in {"read", "join"}
  BY DEF ReadIsWhole, EncodeStops, LayerEnds, RefusedEnds, Reading
<1>2. UNCHANGED <<source, graph, decoded, filtered, frames, stop, failure>>
  BY <1>1 DEF decodeVars
<1>3. ThreadsTyped' /\ LayersInv'
  BY <1>1, ReaderLeavesTheThreads DEF CompositeInv
<1>4. Layer \in Layers /\ early \in Layers \cup {None} /\ frames_read \in 0..FrameCount
  BY DEF CompositeInv, ReaderTyped, Layer
<1>5. \/ UNCHANGED early
      \/ early' = Layer /\ graph[Layer].pc = "done"
         /\ (graph[Layer].ended \/ failure[Layer] # None)
  <2>1. CASE ReadIsWhole \/ EncodeStops
    BY <2>1 DEF ReadIsWhole, EncodeStops
  <2>2. CASE LayerEnds
    <3>1. ~stop[Layer] /\ frames[Layer]
      BY <1>4, <2>2 DEF LayerEnds, Reading, CompositeInv, ReaderInv
    <3>2. graph[Layer].pc = "done"
      BY <2>2, <3>1 DEF LayerEnds, ReaderSeesTheEnd, HungUp
    <3>3. ReasonInv(Layer)
      BY <1>4 DEF CompositeInv, LayersInv
    <3>4. QED
      BY <2>2, <3>1, <3>2, <3>3 DEF LayerEnds, ReasonInv
  <2>3. CASE RefusedEnds
    BY <2>3 DEF RefusedEnds, Joined, CompositeInv, ReaderInv
  <2>4. QED
    BY <2>1, <2>2, <2>3
<1>6. EarlyExplained'
  BY <1>1, <1>2, <1>5 DEF CompositeInv, ReaderInv, EarlyExplained
<1>7. VerdictExplained'
  BY <1>1 DEF CompositeInv, ReaderInv, VerdictExplained
<1>8. reader' = [pc |-> "finish", at |-> 1]
  BY <1>1 DEF ToFinish
<1>9. ReaderTyped'
  BY <1>1, <1>4, <1>5, <1>8 DEF ReaderTyped
<1>10. \A k \in 1..Len(Order) : ~Taken(k)'
  BY <1>8 DEF Taken
<1>11. ReaderInv'
  BY <1>6, <1>7, <1>8, <1>10 DEF ReaderInv
<1>12. QED
  BY <1>3, <1>9, <1>11 DEF CompositeInv

(* A frame taken from one layer's channel, whole or refused.               *)
LEMMA ReadingPreserves ==
  ASSUME CompositeInv, ReadLayer \/ LayerIsRefused
  PROVE  CompositeInv'
<1> USE Constants
<1>1. Reading /\ UNCHANGED <<source, graph, decoded, frames, stop, early, verdict>>
      /\ filtered[Layer] # <<>> /\ filtered' = [filtered EXCEPT ![Layer] = Tail(@)]
  BY DEF ReadLayer, LayerIsRefused, ReaderTakes, ReaderRefuses
<1>2. Layer \in Layers /\ reader.at \in 1..Len(Order) /\ reader.pc = "read"
      /\ frames_read \in 0..FrameCount /\ frames_read < FrameCount
  BY <1>1 DEF CompositeInv, ReaderTyped, Layer, Reading
<1>3. \/ failure' = failure
      \/ failure' = [failure EXCEPT ![Layer] = IF @ = None THEN "reader" ELSE @]
  BY DEF ReadLayer, LayerIsRefused, ReaderTakes, ReaderRefuses, Fail
<1>4. failure \in [Layers -> Reporters \cup {None}]
      /\ filtered \in [Layers -> Seq({"frame"})]
  BY DEF CompositeInv, ThreadsTyped
<1>5. /\ failure' \in [Layers -> Reporters \cup {None}]
      /\ \A l \in Layers : failure[l] # None => failure'[l] # None
  BY <1>2, <1>3, <1>4 DEF Reporters
<1>6. /\ Tail(filtered[Layer]) \in Seq({"frame"})
      /\ Len(Tail(filtered[Layer])) <= Len(filtered[Layer])
  BY <1>1, <1>2, <1>4, HeadTailProperties
<1>7. filtered' \in [Layers -> Seq({"frame"})]
  BY <1>1, <1>2, <1>4, <1>6
<1>8. ThreadsTyped'
  BY <1>1, <1>5, <1>7 DEF CompositeInv, ThreadsTyped
<1>9. LayersInv'
  <2> SUFFICES ASSUME NEW l \in Layers PROVE CountsInv(l)' /\ ReasonInv(l)'
    BY DEF LayersInv
  <2>1. CountsInv(l) /\ ReasonInv(l)
    BY DEF CompositeInv, LayersInv
  <2>2. Len(filtered'[l]) <= Queue
    <3>1. CASE l = Layer
      BY <1>1, <1>2, <1>4, <1>6, <2>1, <3>1 DEF CountsInv
    <3>2. CASE l # Layer
      BY <1>1, <1>2, <1>4, <2>1, <3>2 DEF CountsInv
    <3>3. QED
      BY <3>1, <3>2
  <2>3. CountsInv(l)'
    BY <1>1, <2>1, <2>2 DEF CountsInv, GraphTakes
  <2>4. ReasonInv(l)'
    BY <1>1, <1>5, <2>1 DEF ReasonInv, EndOnItsWay, GraphTakes
  <2>5. QED
    BY <2>3, <2>4
<1>10. EarlyExplained' /\ VerdictExplained'
  BY <1>1, <1>2, <1>5 DEF CompositeInv, ReaderTyped, ReaderInv, EarlyExplained, VerdictExplained
<1>11. \A l \in Layers : ~stop[l] /\ frames[l]
  BY <1>2 DEF CompositeInv, ReaderInv
<1>12. CASE ReadLayer
  <2>1. ReaderTyped' /\ reader'.pc = "read"
    <3>1. \/ reader' = [reader EXCEPT !.at = 1]
          \/ reader' = [reader EXCEPT !.at = @ + 1] /\ reader.at # Len(Order)
      BY <1>12 DEF ReadLayer
    <3>2. reader \in [pc : {"read", "refused", "join", "finish", "take", "done"},
                       at : 1..Len(Order)]
      BY DEF CompositeInv, ReaderTyped
    <3>3. /\ reader' \in [pc : {"read", "refused", "join", "finish", "take", "done"},
                           at : 1..Len(Order)]
          /\ reader'.pc = "read"
      <4>1. CASE reader' = [reader EXCEPT !.at = 1]
        BY <1>2, <3>2, <4>1
      <4>2. CASE reader' = [reader EXCEPT !.at = @ + 1] /\ reader.at # Len(Order)
        <5>1. reader.at + 1 \in 1..Len(Order)
          BY <1>2, <4>2
        <5>2. QED
          BY <1>2, <3>2, <4>2, <5>1
      <4>3. QED
        BY <3>1, <4>1, <4>2
    <3>4. frames_read' \in 0..FrameCount
      BY <1>2, <1>12 DEF ReadLayer
    <3>5. QED
      BY <1>1, <3>3, <3>4 DEF CompositeInv, ReaderTyped
  <2>2. \A k \in 1..Len(Order) : ~Taken(k)'
    BY <2>1 DEF Taken
  <2>3. ReaderInv'
    BY <1>1, <1>10, <1>11, <2>1, <2>2 DEF ReaderInv
  <2>4. QED
    BY <1>8, <1>9, <2>1, <2>3 DEF CompositeInv
<1>13. CASE LayerIsRefused
  <2>1. reader' = [reader EXCEPT !.pc = "refused"] /\ UNCHANGED frames_read
    BY <1>13 DEF LayerIsRefused
  <2>2. ReaderTyped' /\ reader'.pc = "refused" /\ Layer' = Layer
    BY <1>1, <2>1 DEF CompositeInv, ReaderTyped, Layer
  <2>3. failure'[Layer] # None
    BY <1>2, <1>4, <1>13 DEF LayerIsRefused, ReaderRefuses, Fail, Reporters
  <2>4. \A k \in 1..Len(Order) : ~Taken(k)'
    BY <2>2 DEF Taken
  <2>5. ReaderInv'
    BY <1>10, <2>2, <2>3, <2>4 DEF ReaderInv
  <2>6. QED
    BY <1>8, <1>9, <2>2, <2>5 DEF CompositeInv
<1>14. QED
  BY <1>12, <1>13

(* Stopping one layer: the flag, then the receiver.                        *)
LEMMA StoppingPreserves ==
  ASSUME CompositeInv, FlagIsSet \/ ReceiverGoes \/ AlreadyStopped
  PROVE  CompositeInv'
<1> USE Constants
<1>1. UNCHANGED <<source, graph, decoded, failure, frames_read, early, verdict>>
      /\ reader.pc \in {"refused", "finish"}
  BY DEF FlagIsSet, ReceiverGoes, AlreadyStopped, SetStop, DropReceiver, decodeVars,
         readerVars, Stopping
<1>2. Layer \in Layers /\ reader.at \in 1..Len(Order)
      /\ reader \in [pc : {"read", "refused", "join", "finish", "take", "done"},
                     at : 1..Len(Order)]
  BY DEF CompositeInv, ReaderTyped, Layer
<1>3. stop \in [Layers -> BOOLEAN] /\ frames \in [Layers -> BOOLEAN]
      /\ filtered \in [Layers -> Seq({"frame"})]
  BY DEF CompositeInv, ThreadsTyped
<1>4. /\ stop' \in [Layers -> BOOLEAN] /\ frames' \in [Layers -> BOOLEAN]
      /\ filtered' \in [Layers -> Seq({"frame"})]
      /\ \A l \in Layers :
           /\ stop[l] => stop'[l]
           /\ ~frames'[l] => ~frames[l] \/ stop'[l]
           /\ filtered'[l] = filtered[l] \/ filtered'[l] = <<>>
  <2>1. CASE FlagIsSet
    BY <1>2, <1>3, <2>1 DEF FlagIsSet, SetStop
  <2>2. CASE ReceiverGoes
    BY <1>2, <1>3, <2>2 DEF ReceiverGoes, DropReceiver
  <2>3. CASE AlreadyStopped
    BY <1>3, <2>3 DEF AlreadyStopped, decodeVars
  <2>4. QED
    BY <2>1, <2>2, <2>3
<1>5. /\ reader'.at = reader.at
      /\ \/ reader'.pc = reader.pc
         \/ reader'.pc = "join" /\ reader.pc = "refused" /\ stop'[Layer]
         \/ reader'.pc = "take" /\ reader.pc = "finish" /\ stop'[Layer]
      /\ reader' \in [pc : {"read", "refused", "join", "finish", "take", "done"},
                      at : 1..Len(Order)]
  <2>1. CASE FlagIsSet
    BY <1>2, <2>1 DEF FlagIsSet, readerVars
  <2>2. CASE ReceiverGoes
    <3>1. stop'[Layer] /\ reader' = [reader EXCEPT !.pc =
                                      IF reader.pc = "refused" THEN "join" ELSE "take"]
      BY <2>2 DEF ReceiverGoes, DropReceiver
    <3>2. QED
      BY <1>1, <1>2, <3>1
  <2>3. CASE AlreadyStopped
    BY <1>1, <1>2, <2>3 DEF AlreadyStopped, decodeVars
  <2>4. QED
    BY <2>1, <2>2, <2>3
<1>6. ThreadsTyped' /\ ReaderTyped' /\ Layer' = Layer
  BY <1>1, <1>4, <1>5 DEF CompositeInv, ThreadsTyped, ReaderTyped, Layer
<1>7. LayersInv'
  <2> SUFFICES ASSUME NEW l \in Layers PROVE CountsInv(l)' /\ ReasonInv(l)'
    BY DEF LayersInv
  <2>1. CountsInv(l) /\ ReasonInv(l)
    BY DEF CompositeInv, LayersInv
  <2>2. Len(filtered'[l]) <= Queue
    BY <1>4, <2>1 DEF CountsInv
  <2>3. CountsInv(l)'
    BY <1>1, <2>1, <2>2 DEF CountsInv, GraphTakes
  <2>4. ReasonInv(l)'
    BY <1>1, <1>4, <2>1 DEF ReasonInv, EndOnItsWay, GraphTakes
  <2>5. QED
    BY <2>3, <2>4
<1>8. EarlyExplained' /\ VerdictExplained'
  BY <1>1, <1>5 DEF CompositeInv, ReaderInv, EarlyExplained, VerdictExplained
<1>9. \A k \in 1..Len(Order) :
        Taken(k)' => Joined(Order[k])' /\ failure'[Order[k]] = None
  BY <1>1, <1>5 DEF CompositeInv, ReaderInv, Taken, Joined
<1>10. ReaderInv'
  BY <1>1, <1>5, <1>6, <1>8, <1>9 DEF CompositeInv, ReaderInv
<1>11. QED
  BY <1>6, <1>7, <1>10 DEF CompositeInv

(* finish takes one layer's failure, and at the last layer's it decides.   *)
LEMMA TakeFailurePreserves ==
  ASSUME CompositeInv, TakeFailure
  PROVE  CompositeInv'
<1> USE Constants
<1> DEFINE found == IF verdict # None \/ failure[Layer] = None
                      THEN verdict ELSE <<Layer, failure[Layer]>>
           last == reader.at = Len(Order)
<1>1. /\ UNCHANGED <<source, graph, decoded, filtered, frames, stop, frames_read, early>>
      /\ reader.pc = "take" /\ Joined(Layer)
      /\ failure' = [failure EXCEPT ![Layer] = None]
      /\ verdict' = EarlyLast(found, last)
      /\ reader' = IF last THEN [reader EXCEPT !.pc = "done"]
                   ELSE [pc |-> "finish", at |-> reader.at + 1]
  BY DEF TakeFailure
<1>2. Layer \in Layers /\ reader.at \in 1..Len(Order)
      /\ reader \in [pc : {"read", "refused", "join", "finish", "take", "done"},
                     at : 1..Len(Order)]
  BY DEF CompositeInv, ReaderTyped, Layer
<1>3. failure \in [Layers -> Reporters \cup {None}] /\ stop[Layer]
  BY <1>1 DEF CompositeInv, ThreadsTyped, ReaderInv
<1>4. /\ failure' \in [Layers -> Reporters \cup {None}] /\ failure'[Layer] = None
      /\ \A l \in Layers : l # Layer => failure'[l] = failure[l]
  BY <1>1, <1>2, <1>3
<1>5. ThreadsTyped'
  BY <1>1, <1>4 DEF CompositeInv, ThreadsTyped
<1>6. LayersInv'
  <2> SUFFICES ASSUME NEW l \in Layers PROVE CountsInv(l)' /\ ReasonInv(l)'
    BY DEF LayersInv
  <2>1. CountsInv(l) /\ ReasonInv(l) /\ (~stop[l] => failure'[l] = failure[l])
    BY <1>3, <1>4 DEF CompositeInv, LayersInv
  <2>2. CountsInv(l)'
    BY <1>1, <2>1 DEF CountsInv, GraphTakes
  <2>3. ReasonInv(l)'
    BY <1>1, <2>1 DEF ReasonInv, EndOnItsWay, GraphTakes
  <2>4. QED
    BY <2>2, <2>3
<1>7. /\ reader' \in [pc : {"read", "refused", "join", "finish", "take", "done"},
                      at : 1..Len(Order)]
      /\ reader'.pc \in {"finish", "done"}
      /\ reader'.pc = "done" => last
      /\ reader'.pc = "finish" => reader'.at = reader.at + 1
  <2>1. CASE last
    BY <1>1, <1>2, <2>1
  <2>2. CASE ~last
    <3>1. reader.at + 1 \in 1..Len(Order)
      BY <1>2, <2>2
    <3>2. QED
      BY <1>1, <2>2, <3>1
  <2>3. QED
    BY <2>1, <2>2
<1>8. ReaderTyped'
  BY <1>1, <1>7 DEF CompositeInv, ReaderTyped
<1>9. \A k \in 1..Len(Order) :
        Taken(k)' => Joined(Order[k])' /\ failure'[Order[k]] = None
  <2> SUFFICES ASSUME NEW k \in 1..Len(Order), Taken(k)'
               PROVE  Joined(Order[k]) /\ failure'[Order[k]] = None
    BY <1>1 DEF Joined
  <2>1. k <= reader.at
    BY <1>2, <1>7 DEF Taken
  <2>2. CASE k = reader.at
    BY <1>1, <1>4, <2>2 DEF Layer
  <2>3. CASE k < reader.at
    <3>1. Order[k] \in Layers /\ Joined(Order[k]) /\ failure[Order[k]] = None
      BY <1>1, <2>3 DEF CompositeInv, ReaderInv, Taken
    <3>2. QED
      BY <1>4, <3>1
  <2>4. QED
    BY <1>2, <2>1, <2>2, <2>3
<1>10. found = None \/ found \in Layers \X Reporters
  BY <1>1, <1>2, <1>3 DEF CompositeInv, ReaderInv, VerdictExplained
<1>11. early # None =>
         /\ graph[early].pc = "done"
         /\ graph[early].ended \/ failure[early] # None \/ verdict # None
  BY DEF CompositeInv, ReaderInv, EarlyExplained
<1>12. found = None => verdict = None /\ failure[Layer] = None
  BY <1>2, <1>3
<1>13. EarlyExplained'
  <2> SUFFICES ASSUME early # None, ~graph[early].ended, failure'[early] = None
               PROVE  verdict' # None
    BY <1>1, <1>11 DEF EarlyExplained
  <2>1. early \in Layers
    BY DEF CompositeInv, ReaderTyped
  <2>2. found # None
    BY <1>4, <1>11, <1>12, <2>1
  <2>3. QED
    BY <1>1, <2>2 DEF EarlyLast
<1>14. VerdictExplained'
  <2>1. CASE last /\ early # None /\ found = None
    <3>1. early \in Layers
      BY <2>1 DEF CompositeInv, ReaderTyped
    <3>2. PICK k \in 1..Len(Order) : Order[k] = early
      BY <3>1, EveryLayerIsInTheOrder
    <3>3. failure[early] = None
      <4>1. CASE k = reader.at
        BY <1>12, <2>1, <3>2, <4>1 DEF Layer
      <4>2. CASE k # reader.at
        <5>1. Taken(k)
          BY <1>1, <1>2, <2>1, <4>2 DEF Taken
        <5>2. QED
          BY <3>2, <5>1 DEF CompositeInv, ReaderInv
      <4>3. QED
        BY <4>1, <4>2
    <3>4. graph[early].ended
      BY <1>11, <1>12, <2>1, <3>3
    <3>5. reader'.pc = "done" /\ verdict' = <<early, "early">>
      BY <1>1, <1>2, <2>1 DEF EarlyLast
    <3>6. QED
      BY <1>1, <2>1, <3>4, <3>5 DEF VerdictExplained
  <2>2. CASE ~(last /\ early # None /\ found = None)
    <3>1. verdict' = found
      BY <1>1, <2>2 DEF EarlyLast
    <3>2. QED
      BY <1>10, <3>1 DEF VerdictExplained
  <2>3. QED
    BY <2>1, <2>2
<1>15. ReaderInv'
  BY <1>7, <1>9, <1>13, <1>14 DEF ReaderInv
<1>16. QED
  BY <1>5, <1>6, <1>8, <1>15 DEF CompositeInv

LEMMA InitInv == Init => CompositeInv
<1> SUFFICES ASSUME Init PROVE CompositeInv
  OBVIOUS
<1> USE Constants
<1>1. ThreadsTyped
  BY DEF Init, DecodeInit, ThreadsTyped, SourceThread, GraphThread
<1>2. LayersInv
  BY DEF Init, DecodeInit, LayersInv, CountsInv, ReasonInv, GraphTakes
<1>3. ReaderTyped /\ ReaderInv
  BY DEF Init, DecodeInit, ReaderTyped, ReaderInv, Taken, EarlyExplained, VerdictExplained
<1>4. QED
  BY <1>1, <1>2, <1>3 DEF CompositeInv

LEMMA NextInv == CompositeInv /\ [Next]_vars => CompositeInv'
<1> SUFFICES ASSUME CompositeInv, [Next]_vars PROVE CompositeInv'
  OBVIOUS
<1>1. CASE \E l \in Layers : Threads(l) /\ UNCHANGED readerVars
  BY <1>1, ThreadsPreserve
<1>2. CASE Reader \/ EncodeStops
  BY <1>2, ToFinishPreserves, ReadingPreserves, StoppingPreserves, TakeFailurePreserves
  DEF Reader
<1>3. CASE UNCHANGED vars
  <2>1. UNCHANGED decodeVars /\ UNCHANGED <<reader, frames_read, early, verdict>>
    BY <1>3 DEF vars, readerVars
  <2>2. ThreadsTyped' /\ LayersInv'
    BY <2>1, ReaderLeavesTheThreads DEF CompositeInv
  <2>3. ReaderTyped' /\ ReaderInv'
    BY <2>1 DEF decodeVars, CompositeInv, ReaderTyped, ReaderInv, Taken, Joined, Layer,
                EarlyExplained, VerdictExplained
  <2>4. QED
    BY <2>2, <2>3 DEF CompositeInv
<1>4. QED
  BY <1>1, <1>2, <1>3 DEF Next

LEMMA AlwaysCompositeInv == Spec => []CompositeInv
BY InitInv, NextInv, PTL DEF Spec

-----------------------------------------------------------------------------
(* Whatever the threads and the reader do, the counts and the channels     *)
(* keep to their bounds.                                                   *)
THEOREM DecodeTypesHold == Spec => []DecodeTypeOK
<1>1. CompositeInv => DecodeTypeOK
  <2> SUFFICES ASSUME CompositeInv PROVE DecodeTypeOK
    OBVIOUS
  <2> USE Constants
  <2>1. ASSUME NEW l \in Layers
        PROVE  /\ source[l].packets \in 0..Total[l]
               /\ source[l].decoded \in 0..source[l].packets
               /\ graph[l].sent \in 0..Limit[l]
               /\ Len(decoded[l]) <= Queue /\ Len(filtered[l]) <= Queue
               /\ failure[l] \in Reporters \cup {None}
    <3>1. source[l] \in SourceThread /\ graph[l] \in GraphThread
          /\ failure[l] \in Reporters \cup {None} /\ CountsInv(l)
      BY DEF CompositeInv, ThreadsTyped, LayersInv
    <3>2. QED
      BY <3>1 DEF SourceThread, GraphThread, CountsInv
  <2>2. QED
    BY <2>1 DEF CompositeInv, ReaderTyped, DecodeTypeOK
<1>2. QED
  BY <1>1, AlwaysCompositeInv, PTL

(* No decoder hangs up on its reader without a reason: one that nobody     *)
(* stopped came to its end or has said what failed.                        *)
THEOREM EveryEndIsExplained == Spec => []EndIsExplained
<1>1. CompositeInv => EndIsExplained
  BY DEF CompositeInv, LayersInv, ReasonInv, EndIsExplained
<1>2. QED
  BY <1>1, AlwaysCompositeInv, PTL

(* finish says that a layer ended early only when the layer had no more    *)
(* frames and no decoder has a failure that would say more.                *)
THEOREM VerdictsNameTheCause == Spec => []VerdictNamesTheCause
<1>1. CompositeInv => VerdictNamesTheCause
  <2> SUFFICES ASSUME CompositeInv, verdict # None, verdict[2] = "early"
               PROVE  graph[early].ended
    BY DEF VerdictNamesTheCause
  <2>1. verdict \notin Layers \X Reporters
    BY DEF Reporters
  <2>2. QED
    BY <2>1 DEF CompositeInv, ReaderInv, VerdictExplained
<1>2. QED
  BY <1>1, AlwaysCompositeInv, PTL

(* When finish has returned no decoder holds a failure it did not see.     *)
THEOREM EveryFailureIsTaken == Spec => []NoFailureIsLost
<1>1. CompositeInv => NoFailureIsLost
  <2> SUFFICES ASSUME CompositeInv, reader.pc = "done", NEW l \in Layers
               PROVE  failure[l] = None
    BY DEF NoFailureIsLost
  <2>1. PICK k \in 1..Len(Order) : Order[k] = l
    BY EveryLayerIsInTheOrder
  <2>2. QED
    BY <2>1 DEF CompositeInv, ReaderInv, Taken
<1>2. QED
  BY <1>1, AlwaysCompositeInv, PTL
=============================================================================
