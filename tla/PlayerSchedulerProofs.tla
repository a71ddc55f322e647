------------------------ MODULE PlayerSchedulerProofs ------------------------
(***************************************************************************)
(* Proofs about the player's scheduler, for any compositions, workers,     *)
(* scales, failing frames and commands: the cache holds the frames it      *)
(* names, the screen shows the current frame, the picture never runs ahead *)
(* of the clock, and a frame counted as in flight is on its way.           *)
(***************************************************************************)
EXTENDS PlayerScheduler, WellFoundedInduction, TLAPS

PlayerFields ==
  {"timeline", "queued", "current_frame", "needs_publish", "playing", "eof",
   "reduce", "display", "clock", "due", "generation", "in_flight", "cache",
   "shown", "unshown"}
CacheFields == {"dropped_before", "rerendered_from", "frames"}

(* The scheduler's fields, the entries of its cache apart.                 *)
Shaped(s) ==
  /\ DOMAIN s = PlayerFields /\ DOMAIN s.cache = CacheFields
  /\ s.timeline \in Compositions \cup {None}
  /\ s.queued \in Compositions \cup {None}
  /\ s.current_frame \in Nat
  /\ s.needs_publish \in BOOLEAN /\ s.playing \in BOOLEAN
  /\ s.eof \in BOOLEAN /\ s.unshown \in BOOLEAN
  /\ s.reduce \in Scales /\ s.display \in Displays
  /\ s.clock \in {"none", "wall", "sound"} /\ s.due \in Nat
  /\ s.generation \in Nat /\ s.in_flight \subseteq Nat
  /\ s.cache.dropped_before \in 0..s.generation
  /\ s.cache.rerendered_from \in 0..s.generation
  /\ s.shown \in {None} \cup Pictures

(* A player that plays has something to play, a clock, and an end ahead.   *)
Placed(s) ==
  /\ s.queued # None => s.timeline # None
  /\ s.timeline # None => s.current_frame < FrameCount[s.timeline]
  /\ s.playing <=> s.clock # "none"
  /\ s.playing => s.timeline # None /\ ~s.eof

Cached(s) ==
  /\ s.timeline = None => DOMAIN s.cache.frames = {}
  /\ \A i \in DOMAIN s.cache.frames :
       /\ i \in Nat /\ i < FramesAhead(s)
       /\ s.cache.frames[i] \in EntryType
       /\ s.cache.frames[i].from = FrameAt(s, i)
       /\ s.cache.frames[i].generation <= s.generation

Shows(s) ==
  IF s.timeline = None THEN s.shown = None
  ELSE \/ s.needs_publish \/ s.unshown
       \/ s.shown # None /\ s.shown.from = <<s.timeline, s.current_frame>>

Timed(s) == s.playing => s.current_frame <= s.due

Good(s) == Shaped(s) /\ Placed(s) /\ Cached(s) /\ Shows(s) /\ Timed(s)

(* The jobs in the pool: their answers are of the frames of now.           *)
JobsInv(s, pool) ==
  /\ s.timeline = None => pool = {}
  /\ \A job \in pool :
       /\ job \in [index : Nat, entry : EntryType]
       /\ job.index < FramesAhead(s)
       /\ job.entry.from = FrameAt(s, job.index)
       /\ s.cache.dropped_before <= job.entry.generation
       /\ job.entry.generation <= s.generation
       /\ job.entry.generation = s.generation => job.entry.reduce = s.reduce

OnItsWay(s, pool, i) ==
  \/ /\ i \in DOMAIN s.cache.frames
     /\ s.cache.frames[i].generation = s.generation
     /\ s.cache.frames[i].reduce = s.reduce
  \/ \E job \in pool : job.index = i /\ job.entry.generation = s.generation

InFlightInv(s, pool) ==
  \A i \in s.in_flight : i >= s.current_frame => OnItsWay(s, pool, i)

-----------------------------------------------------------------------------
(* Numbers and frames.                                                     *)

LEMMA LesserOfTwo ==
  ASSUME NEW a \in Int, NEW b \in Int
  PROVE  Min({a, b}) \in {a, b} /\ Min({a, b}) <= a /\ Min({a, b}) <= b
<1>1. CASE a <= b
  BY <1>1 DEF Min
<1>2. CASE b < a
  BY <1>2 DEF Min
<1>3. QED
  BY <1>1, <1>2

LEMMA GreatestOfSome ==
  ASSUME NEW a \in Int, NEW b \in Int, NEW S \in SUBSET (a..b), S # {}
  PROVE  Max(S) \in S
<1> DEFINE Below == {b - x : x \in S}
<1>1. \A x \in S : x \in Int /\ x <= b /\ b - x \in Nat
  OBVIOUS
<1>2. Below \subseteq Nat /\ Below # {}
  BY <1>1
<1>3. PICK m \in Below : \A n \in Below : ~(<<n, m>> \in OpToRel(<, Nat))
  <2> HIDE DEF Below
  <2>1. QED
    BY <1>2, WFMin, NatLessThanWellFounded, Zenon
<1>4. \A n \in Below : m <= n
  <2> SUFFICES ASSUME NEW n \in Below PROVE m <= n
    OBVIOUS
  <2>1. m \in Nat /\ n \in Nat
    BY <1>2
  <2>2. ~(<<n, m>> \in OpToRel(<, Nat))
    BY <1>3
  <2>3. ~(n < m)
    BY <2>1, <2>2 DEF OpToRel
  <2>4. QED
    BY <2>1, <2>3
<1>5. PICK x \in S : m = b - x
  OBVIOUS
<1>6. \A y \in S : x >= y
  <2> SUFFICES ASSUME NEW y \in S PROVE x >= y
    OBVIOUS
  <2>1. b - y \in Below
    OBVIOUS
  <2>2. b - x <= b - y /\ x \in Int /\ y \in Int
    BY <1>1, <1>4, <1>5, <2>1
  <2>3. QED
    BY <2>2
<1>7. QED
  BY <1>5, <1>6 DEF Max

LEMMA Counted == \A c \in Compositions : FrameCount[c] \in Nat /\ FrameCount[c] > 0
BY PlayerAssumption

(* The frame an index of the window stands for.                            *)
LEMMA FramesOfTheWindow ==
  ASSUME NEW s, Shaped(s), s.timeline # None
  PROVE  /\ FrameCount[s.timeline] \in Nat /\ FrameCount[s.timeline] > 0
         /\ s.queued # None => FrameCount[s.queued] \in Nat /\ FrameCount[s.queued] > 0
         /\ FramesAhead(s) \in Nat /\ FrameCount[s.timeline] <= FramesAhead(s)
         /\ LastFrame(s) \in Nat /\ LastFrame(s) = FrameCount[s.timeline] - 1
         /\ \A i \in Nat : i < FramesAhead(s) => FrameAt(s, i) \in Compositions \X Nat
         /\ \A i \in Nat : i < FrameCount[s.timeline] => FrameAt(s, i) = <<s.timeline, i>>
<1>1. s.timeline \in Compositions /\ (s.queued # None => s.queued \in Compositions)
  BY DEF Shaped
<1>2. /\ FrameCount[s.timeline] \in Nat /\ FrameCount[s.timeline] > 0
      /\ s.queued # None => FrameCount[s.queued] \in Nat /\ FrameCount[s.queued] > 0
  BY <1>1, Counted
<1>3. FramesAhead(s) \in Nat /\ FrameCount[s.timeline] <= FramesAhead(s)
  BY <1>2 DEF FramesAhead
<1>4. ASSUME NEW i \in Nat, i < FramesAhead(s)
      PROVE  FrameAt(s, i) \in Compositions \X Nat
  <2>1. CASE i < FrameCount[s.timeline]
    BY <1>1, <2>1 DEF FrameAt
  <2>2. CASE i >= FrameCount[s.timeline]
    <3>1. s.queued # None
      BY <1>2, <1>4, <2>2 DEF FramesAhead
    <3>2. i - FrameCount[s.timeline] \in Nat /\ ~(i < FrameCount[s.timeline])
      BY <1>2, <2>2
    <3>3. QED
      BY <1>1, <3>1, <3>2 DEF FrameAt
  <2>3. QED
    BY <1>2, <2>1, <2>2
<1>5. QED
  BY <1>2, <1>3, <1>4 DEF LastFrame, FrameAt

-----------------------------------------------------------------------------
(* What a handler is made of changes some fields of the scheduler.         *)

Kept(s, t, changed) ==
  /\ DOMAIN t = PlayerFields
  /\ \A x \in PlayerFields \ changed : t[x] = s[x]

\* Nothing asked for so far is waited for, nor is an answer to it taken.
Refuses(s, t) ==
  /\ t.generation \in Nat /\ t.generation > s.generation
  /\ t.in_flight = {} /\ t.cache.dropped_before = t.generation

LEMMA NewClockFields ==
  ASSUME NEW s, Shaped(s), NEW source
  PROVE  /\ Kept(s, NewClock(s, source), {"clock", "due"})
         /\ NewClock(s, source).clock = source
         /\ NewClock(s, source).due = s.current_frame
BY DEF NewClock, Shaped, Kept, PlayerFields

LEMMA RestartFields ==
  ASSUME NEW s, Shaped(s), NEW source, NEW t, t = RestartDecoding(s, source)
  PROVE  /\ Kept(s, t, {"generation", "in_flight", "cache", "needs_publish", "clock", "due"})
         /\ t.generation = s.generation + 1 /\ t.in_flight = {}
         /\ DOMAIN t.cache = CacheFields /\ DOMAIN t.cache.frames = {}
         /\ t.cache.dropped_before = s.generation + 1
         /\ t.cache.rerendered_from = s.cache.rerendered_from
         /\ t.needs_publish = (s.needs_publish \/ s.timeline # None)
         /\ s.playing => t.clock = source /\ t.due = s.current_frame
         /\ ~s.playing => t.clock = s.clock /\ t.due = s.due
<1> DEFINE g == s.generation + 1
           kept == Restart(s.cache, g)
           r == [s EXCEPT !.generation = g, !.in_flight = {}, !.cache = Restart(@, g),
                          !.needs_publish = @ \/ s.timeline # None]
<1>1. DOMAIN kept = CacheFields /\ DOMAIN kept.frames = {} /\ kept.dropped_before = g
      /\ kept.rerendered_from = s.cache.rerendered_from
  BY DEF Restart, Shaped, CacheFields
<1>2. /\ Kept(s, r, {"generation", "in_flight", "cache", "needs_publish"})
      /\ r.generation = g /\ r.in_flight = {} /\ r.cache = kept
      /\ r.needs_publish = (s.needs_publish \/ s.timeline # None)
  BY DEF Shaped, Kept, PlayerFields
<1>3. t = IF s.playing THEN NewClock(r, source) ELSE r
  BY DEF RestartDecoding
<1> HIDE DEF kept, r
<1>4. CASE s.playing
  <2>1. t = [r EXCEPT !.clock = source, !.due = r.current_frame]
    BY <1>3, <1>4 DEF NewClock
  <2>2. QED
    BY <1>1, <1>2, <1>4, <2>1 DEF Kept, PlayerFields
<1>5. CASE ~s.playing
  BY <1>1, <1>2, <1>3, <1>5 DEF Kept, PlayerFields
<1>6. QED
  BY <1>4, <1>5

(* A restart leaves no frame and no picture that counts as the current one *)
(* unless it is published again.                                           *)
LEMMA RestartIsGood ==
  ASSUME NEW s, Shaped(s), Placed(s), s.timeline = None => s.shown = None,
         NEW source \in ClockSources, NEW t, t = RestartDecoding(s, source)
  PROVE  Good(t) /\ Refuses(s, t) /\ t.timeline = s.timeline /\ t.queued = s.queued
<1> DEFINE changed == {"generation", "in_flight", "cache", "needs_publish", "clock", "due"}
<1>1. /\ Kept(s, t, changed)
      /\ t.generation = s.generation + 1 /\ t.in_flight = {}
      /\ DOMAIN t.cache = CacheFields /\ DOMAIN t.cache.frames = {}
      /\ t.cache.dropped_before = s.generation + 1
      /\ t.cache.rerendered_from = s.cache.rerendered_from
      /\ t.needs_publish = (s.needs_publish \/ s.timeline # None)
      /\ s.playing => t.clock = source /\ t.due = s.current_frame
      /\ ~s.playing => t.clock = s.clock /\ t.due = s.due
  BY RestartFields
<1>2. /\ t.timeline = s.timeline /\ t.queued = s.queued
      /\ t.current_frame = s.current_frame /\ t.playing = s.playing /\ t.eof = s.eof
      /\ t.unshown = s.unshown /\ t.reduce = s.reduce /\ t.display = s.display
      /\ t.shown = s.shown
  BY <1>1 DEF Kept, PlayerFields
<1>3. source \in {"wall", "sound"}
  BY PlayerAssumption
<1>4. /\ t.needs_publish \in BOOLEAN /\ t.clock \in {"none", "wall", "sound"} /\ t.due \in Nat
      /\ t.playing <=> t.clock # "none"
  BY <1>1, <1>2, <1>3 DEF Shaped, Placed
<1>5. Shaped(t)
  BY <1>1, <1>2, <1>4 DEF Shaped, Kept
<1>6. Placed(t) /\ Timed(t)
  BY <1>1, <1>2, <1>4 DEF Shaped, Placed, Timed
<1>7. Shows(t)
  BY <1>1, <1>2 DEF Shows
<1>8. Cached(t) /\ Refuses(s, t)
  BY <1>1 DEF Cached, Refuses, Shaped
<1>9. QED
  BY <1>2, <1>5, <1>6, <1>7, <1>8 DEF Good

LEMMA StopIsGood ==
  ASSUME NEW s, Shaped(s), NEW source \in ClockSources, NEW t, t = StopPlayer(s, source)
  PROVE  /\ Good(t) /\ Refuses(s, t) /\ t.timeline = None /\ t.queued = None
         /\ t.current_frame = 0 /\ ~t.playing /\ ~t.eof /\ t.clock = "none"
         /\ t.shown = None
<1> DEFINE r == [s EXCEPT !.queued = None, !.timeline = None,
                          !.playing = FALSE, !.eof = FALSE,
                          !.clock = "none", !.due = 0,
                          !.current_frame = 0, !.needs_publish = FALSE,
                          !.shown = None, !.unshown = FALSE]
<1>1. /\ DOMAIN r = PlayerFields /\ r.timeline = None /\ r.queued = None
      /\ r.playing = FALSE /\ r.eof = FALSE /\ r.clock = "none" /\ r.due = 0
      /\ r.current_frame = 0 /\ r.needs_publish = FALSE /\ r.shown = None
      /\ r.unshown = FALSE /\ r.reduce = s.reduce /\ r.display = s.display
      /\ r.generation = s.generation /\ r.in_flight = s.in_flight /\ r.cache = s.cache
  BY DEF Shaped, PlayerFields
<1>2. t = RestartDecoding(r, source)
  BY DEF StopPlayer
<1> HIDE DEF r
<1>3. Shaped(r)
  <2>1. /\ r.needs_publish \in BOOLEAN /\ r.playing \in BOOLEAN
        /\ r.eof \in BOOLEAN /\ r.unshown \in BOOLEAN
    BY <1>1
  <2>2. r.clock \in {"none", "wall", "sound"} /\ r.due \in Nat /\ r.current_frame \in Nat
    BY <1>1
  <2>3. QED
    BY <1>1, <2>1, <2>2 DEF Shaped
<1>4. Placed(r)
  BY <1>1 DEF Placed
<1>5. /\ Good(t) /\ Refuses(r, t) /\ t.timeline = None /\ t.queued = None
  BY <1>1, <1>2, <1>3, <1>4, RestartIsGood
<1>6. Kept(r, t, {"generation", "in_flight", "cache", "needs_publish", "clock", "due"})
      /\ t.clock = "none"
  BY <1>1, <1>2, <1>3, RestartFields
<1>7. QED
  BY <1>1, <1>5, <1>6 DEF Kept, PlayerFields, Refuses

LEMMA LoadIsGood ==
  ASSUME NEW s, Shaped(s), NEW source \in ClockSources, NEW c \in Compositions,
         NEW t, t = LoadComposition(s, c, source)
  PROVE  Good(t) /\ Refuses(s, t)
<1>1. PICK x : x = StopPlayer(s, source)
  OBVIOUS
<1>2. /\ Good(x) /\ Refuses(s, x) /\ x.current_frame = 0
      /\ ~x.playing /\ ~x.eof /\ x.clock = "none"
  BY <1>1, StopIsGood
<1> DEFINE r == [x EXCEPT !.timeline = c]
<1>3. /\ Kept(x, r, {"timeline"}) /\ r.timeline = c
  BY <1>2 DEF Kept, PlayerFields, Good, Shaped
<1>4. t = RestartDecoding(r, source)
  BY <1>1 DEF LoadComposition
<1> HIDE DEF r
<1>5. Shaped(r) /\ r.timeline # None /\ r.generation = x.generation
  BY <1>2, <1>3, PlayerAssumption DEF Good, Shaped, Kept, PlayerFields
<1>6. Placed(r)
  <2>1. /\ r.current_frame = 0 /\ r.playing = x.playing /\ r.eof = x.eof
        /\ r.clock = "none"
    BY <1>2, <1>3 DEF Kept, PlayerFields
  <2>2. r.timeline # None /\ 0 < FrameCount[r.timeline] /\ ~r.playing
    BY <1>2, <1>3, <1>5, <2>1, Counted
  <2>3. QED
    BY <2>1, <2>2 DEF Placed
<1>7. Good(t) /\ Refuses(r, t)
  BY <1>4, <1>5, <1>6, RestartIsGood
<1>8. QED
  BY <1>2, <1>5, <1>7 DEF Refuses, Good, Shaped

LEMMA SeekIsGood ==
  ASSUME NEW s, Good(s), s.timeline # None, NEW frame \in Nat,
         NEW source \in ClockSources, NEW t, t = SeekToFrame(s, frame, source)
  PROVE  /\ Good(t) /\ Refuses(s, t) /\ ~t.eof
         /\ t.timeline = s.timeline /\ t.queued = s.queued
<1> DEFINE to == Min({frame, LastFrame(s)})
           r == [s EXCEPT !.current_frame = Min({frame, LastFrame(s)}), !.eof = FALSE]
<1>1. to \in Nat /\ to < FrameCount[s.timeline]
  <2>1. /\ FrameCount[s.timeline] \in Nat /\ FrameCount[s.timeline] > 0
        /\ LastFrame(s) \in Nat /\ LastFrame(s) = FrameCount[s.timeline] - 1
    BY FramesOfTheWindow DEF Good
  <2>2. to \in {frame, LastFrame(s)} /\ to <= LastFrame(s)
    <3>1. frame \in Int /\ LastFrame(s) \in Int
      BY <2>1
    <3>2. QED
      BY <3>1, LesserOfTwo
  <2> HIDE DEF to
  <2>3. QED
    BY <2>1, <2>2
<1>2. Kept(s, r, {"current_frame", "eof"}) /\ r.current_frame = to /\ r.eof = FALSE
  BY DEF Kept, PlayerFields, Good, Shaped
<1>3. t = RestartDecoding(r, source)
  BY DEF SeekToFrame
<1> HIDE DEF to, r
<1>4. /\ Shaped(r) /\ r.generation = s.generation
      /\ r.timeline = s.timeline /\ r.queued = s.queued
  BY <1>1, <1>2 DEF Good, Shaped, Kept, PlayerFields
<1>5. Placed(r)
  BY <1>1, <1>2 DEF Good, Placed, Kept, PlayerFields
<1>6. Good(t) /\ Refuses(r, t) /\ t.timeline = r.timeline /\ t.queued = r.queued
  BY <1>3, <1>4, <1>5, RestartIsGood
<1>7. t.eof = r.eof
  BY <1>3, <1>4, RestartFields DEF Kept, PlayerFields
<1>8. QED
  BY <1>2, <1>4, <1>6, <1>7 DEF Refuses

(* A change of rendering: nothing is in flight any more, and the frames    *)
(* and the jobs stay what they are of.                                     *)
Rerenders(s, t) ==
  /\ t.generation \in Nat /\ t.generation > s.generation /\ t.in_flight = {}
  /\ t.cache.dropped_before = s.cache.dropped_before
  /\ t.timeline = s.timeline /\ t.queued = s.queued

LEMMA RerenderIsGood ==
  ASSUME NEW s, Good(s), NEW t, t = ChangeFrameRendering(s)
  PROVE  Good(t) /\ Rerenders(s, t) /\ t.cache = s.cache
<1>1. /\ Kept(s, t, {"generation", "in_flight", "needs_publish"})
      /\ t.generation = s.generation + 1 /\ t.in_flight = {}
      /\ t.needs_publish = (s.needs_publish \/ ~s.playing)
  BY DEF ChangeFrameRendering, Kept, PlayerFields, Good, Shaped
<1>2. /\ t.timeline = s.timeline /\ t.queued = s.queued /\ t.cache = s.cache
      /\ t.current_frame = s.current_frame /\ t.playing = s.playing /\ t.eof = s.eof
      /\ t.unshown = s.unshown /\ t.reduce = s.reduce /\ t.display = s.display
      /\ t.shown = s.shown /\ t.clock = s.clock /\ t.due = s.due
  BY <1>1 DEF Kept, PlayerFields
<1>3. Shaped(t)
  BY <1>1, <1>2 DEF Good, Shaped, Kept
<1>4. Placed(t) /\ Timed(t) /\ Shows(t)
  BY <1>1, <1>2 DEF Good, Placed, Timed, Shows
<1>5. \A i : FrameAt(t, i) = FrameAt(s, i) /\ FramesAhead(t) = FramesAhead(s)
  BY <1>2 DEF FrameAt, FramesAhead
<1>6. Cached(t)
  <2>1. ASSUME NEW i \in DOMAIN s.cache.frames
        PROVE  s.cache.frames[i].generation <= s.generation + 1
    BY DEF Good, Cached, Shaped, EntryType
  <2>2. QED
    BY <1>1, <1>2, <1>5, <2>1 DEF Good, Cached
<1>7. Rerenders(s, t)
  BY <1>1, <1>2 DEF Rerenders, Good, Shaped
<1>8. QED
  BY <1>2, <1>3, <1>4, <1>6, <1>7 DEF Good

(* Dropping the queued composition drops its frames.                       *)
LEMMA ClearQueuedIsGood ==
  ASSUME NEW s, Good(s), s.timeline # None, NEW t, t = ClearQueued(s)
  PROVE  /\ Good(t) /\ t.queued = None /\ t.timeline = s.timeline
         /\ s.queued = None => t = s
         /\ s.queued # None => Refuses(s, t)
<1>1. CASE s.queued = None
  BY <1>1 DEF ClearQueued
<1>2. CASE s.queued # None
  <2> DEFINE g == s.generation + 1
             count == FrameCount[s.timeline]
             frames == Only(s.cache.frames, {i \in DOMAIN s.cache.frames : i < count})
             kept == ForgetFrom(s.cache, count, g)
  <2>1. /\ DOMAIN kept = CacheFields /\ kept.dropped_before = g
        /\ kept.rerendered_from = s.cache.rerendered_from /\ kept.frames = frames
    BY DEF ForgetFrom, Good, Shaped, CacheFields
  <2>2. /\ \A i \in DOMAIN frames : i \in DOMAIN s.cache.frames /\ i < count
        /\ \A i \in DOMAIN frames : frames[i] = s.cache.frames[i]
    BY DEF Only
  <2>3. /\ Kept(s, t, {"queued", "generation", "in_flight", "cache"})
        /\ t.queued = None /\ t.generation = g /\ t.in_flight = {} /\ t.cache = kept
    BY <1>2 DEF ClearQueued, Kept, PlayerFields, Good, Shaped
  <2> HIDE DEF frames, kept
  <2>4. /\ t.timeline = s.timeline /\ t.current_frame = s.current_frame
        /\ t.needs_publish = s.needs_publish /\ t.playing = s.playing /\ t.eof = s.eof
        /\ t.unshown = s.unshown /\ t.reduce = s.reduce /\ t.display = s.display
        /\ t.shown = s.shown /\ t.clock = s.clock /\ t.due = s.due
    BY <2>3 DEF Kept, PlayerFields
  <2>5. Shaped(t)
    BY <2>1, <2>3, <2>4 DEF Good, Shaped, Kept
  <2>6. Placed(t) /\ Timed(t) /\ Shows(t)
    BY <2>3, <2>4 DEF Good, Placed, Timed, Shows
  <2>7. Cached(t)
    <3>1. count \in Nat /\ count <= FramesAhead(t)
          /\ \A i \in Nat : i < count => /\ FrameAt(t, i) = <<s.timeline, i>>
                                        /\ FrameAt(s, i) = <<s.timeline, i>>
      BY <2>4, <2>5, FramesOfTheWindow DEF Good
    <3>2. FramesAhead(t) \in Nat
      BY <2>4, <2>5, FramesOfTheWindow
    <3>3. ASSUME NEW i \in DOMAIN frames
          PROVE  /\ i \in Nat /\ i < FramesAhead(t)
                 /\ frames[i] \in EntryType
                 /\ frames[i].from = FrameAt(t, i)
                 /\ frames[i].generation <= g
      BY <2>2, <3>1, <3>2 DEF Good, Cached, Shaped, EntryType
    <3>4. QED
      BY <2>1, <2>3, <2>4, <3>3 DEF Cached
  <2>8. Refuses(s, t)
    BY <2>1, <2>3 DEF Refuses, Good, Shaped
  <2>9. QED
    BY <1>2, <2>3, <2>4, <2>5, <2>6, <2>7, <2>8 DEF Good
<1>3. QED
  BY <1>1, <1>2

LEMMA QueueIsGood ==
  ASSUME NEW s, Good(s), s.timeline # None, NEW c \in Compositions,
         NEW t, t = [ClearQueued(s) EXCEPT !.queued = c]
  PROVE  /\ Good(t) /\ t.queued = c /\ t.timeline = s.timeline
         /\ s.queued = None => Kept(s, t, {"queued"})
         /\ s.queued # None => Refuses(s, t)
<1>1. PICK r : r = ClearQueued(s)
  OBVIOUS
<1>2. /\ Good(r) /\ r.queued = None /\ r.timeline = s.timeline
      /\ s.queued = None => r = s
      /\ s.queued # None => Refuses(s, r)
  BY <1>1, ClearQueuedIsGood
<1>3. Kept(r, t, {"queued"}) /\ t.queued = c
  BY <1>1, <1>2 DEF Kept, PlayerFields, Good, Shaped
<1>4. /\ t.timeline = r.timeline /\ t.current_frame = r.current_frame
      /\ t.needs_publish = r.needs_publish /\ t.playing = r.playing /\ t.eof = r.eof
      /\ t.unshown = r.unshown /\ t.reduce = r.reduce /\ t.display = r.display
      /\ t.shown = r.shown /\ t.clock = r.clock /\ t.due = r.due
      /\ t.generation = r.generation /\ t.in_flight = r.in_flight /\ t.cache = r.cache
  BY <1>3 DEF Kept, PlayerFields
<1>5. Shaped(t)
  BY <1>2, <1>3, <1>4 DEF Good, Shaped, Kept
<1>6. Placed(t) /\ Timed(t) /\ Shows(t)
  BY <1>2, <1>4 DEF Good, Placed, Timed, Shows
<1>7. Cached(t)
  <2>1. /\ FrameCount[r.timeline] \in Nat /\ FramesAhead(r) = FrameCount[r.timeline]
        /\ \A i \in Nat : i < FrameCount[r.timeline] =>
             FrameAt(r, i) = <<r.timeline, i>> /\ FrameAt(t, i) = <<r.timeline, i>>
        /\ FrameCount[r.timeline] <= FramesAhead(t) /\ FramesAhead(t) \in Nat
    <3>1. /\ FrameCount[r.timeline] \in Nat
          /\ \A i \in Nat : i < FrameCount[r.timeline] => FrameAt(r, i) = <<r.timeline, i>>
      BY <1>2, FramesOfTheWindow DEF Good
    <3>2. /\ FrameCount[r.timeline] <= FramesAhead(t) /\ FramesAhead(t) \in Nat
          /\ \A i \in Nat : i < FrameCount[r.timeline] => FrameAt(t, i) = <<r.timeline, i>>
      <4>1. t.timeline = r.timeline /\ t.timeline # None
        BY <1>2, <1>4
      <4>2. /\ FrameCount[t.timeline] <= FramesAhead(t) /\ FramesAhead(t) \in Nat
            /\ \A i \in Nat :
                 i < FrameCount[t.timeline] => FrameAt(t, i) = <<t.timeline, i>>
        BY <1>5, <4>1, FramesOfTheWindow
      <4>3. QED
        BY <4>1, <4>2
    <3>3. QED
      BY <1>2, <3>1, <3>2 DEF FramesAhead
  <2>2. QED
    BY <1>2, <1>4, <2>1 DEF Good, Cached
<1>8. QED
  BY <1>2, <1>3, <1>4, <1>5, <1>6, <1>7 DEF Good, Refuses

(* Showing a held frame of what plays makes it the current one.            *)
LEMMA PresentIsGood ==
  ASSUME NEW s, Shaped(s), Placed(s), Cached(s), s.timeline # None,
         NEW index \in DOMAIN s.cache.frames, index < FrameCount[s.timeline],
         s.playing => index <= s.due, NEW t, t = Present(s, index)
  PROVE  /\ Good(t)
         /\ Kept(s, t, {"current_frame", "shown", "unshown", "cache"})
         /\ t.current_frame = index
         /\ t.cache.dropped_before = s.cache.dropped_before
         /\ \A i \in DOMAIN s.cache.frames : i >= index =>
              i \in DOMAIN t.cache.frames /\ t.cache.frames[i] = s.cache.frames[i]
<1> DEFINE entry == s.cache.frames[index]
           picture == [from |-> entry.from, reduce |-> entry.reduce,
                       display |-> entry.display]
           frames == Only(s.cache.frames, {i \in DOMAIN s.cache.frames : i >= index - 1})
           kept == ForgetBefore(s.cache, index - 1)
<1>1. /\ DOMAIN kept = CacheFields /\ kept.dropped_before = s.cache.dropped_before
      /\ kept.rerendered_from = s.cache.rerendered_from /\ kept.frames = frames
  BY DEF ForgetBefore, Shaped, CacheFields
<1>2. index \in Nat /\ entry \in EntryType /\ entry.from = <<s.timeline, index>>
  BY FramesOfTheWindow DEF Cached
<1>3. picture \in Pictures /\ picture # None /\ picture.from = <<s.timeline, index>>
  <2>1. picture.from = <<s.timeline, index>>
    BY <1>2
  <2>2. picture \in Pictures
    BY <1>2 DEF EntryType, Pictures
  <2>3. QED
    BY <2>1, <2>2, PlayerAssumption
<1>4. /\ \A i \in DOMAIN frames : i \in DOMAIN s.cache.frames
      /\ \A i \in DOMAIN frames : frames[i] = s.cache.frames[i]
      /\ \A i \in DOMAIN s.cache.frames : i >= index => i \in DOMAIN frames
  <2>1. \A i \in DOMAIN s.cache.frames : i \in Nat
    BY DEF Cached
  <2>2. \A i \in DOMAIN s.cache.frames : i >= index => i >= index - 1
    BY <1>2, <2>1
  <2>3. QED
    BY <2>2 DEF Only
<1>5. /\ Kept(s, t, {"current_frame", "shown", "unshown", "cache"})
      /\ t.current_frame = index /\ t.shown = picture /\ t.unshown = FALSE
      /\ t.cache = kept
  BY DEF Present, Kept, PlayerFields, Shaped
<1> HIDE DEF frames, kept, picture, entry
<1>6. /\ t.timeline = s.timeline /\ t.queued = s.queued /\ t.eof = s.eof
      /\ t.needs_publish = s.needs_publish /\ t.playing = s.playing
      /\ t.reduce = s.reduce /\ t.display = s.display /\ t.clock = s.clock
      /\ t.due = s.due /\ t.generation = s.generation /\ t.in_flight = s.in_flight
  BY <1>5 DEF Kept, PlayerFields
<1>7. Shaped(t)
  BY <1>1, <1>2, <1>3, <1>5, <1>6 DEF Shaped, Kept
<1>8. Placed(t) /\ Timed(t)
  BY <1>5, <1>6 DEF Placed, Timed
<1>9. Shows(t)
  BY <1>3, <1>5, <1>6 DEF Shows
<1>10. Cached(t)
  <2>1. \A i : FrameAt(t, i) = FrameAt(s, i) /\ FramesAhead(t) = FramesAhead(s)
    BY <1>6 DEF FrameAt, FramesAhead
  <2>2. QED
    BY <1>1, <1>4, <1>5, <1>6, <2>1 DEF Cached
<1>11. QED
  BY <1>1, <1>4, <1>5, <1>7, <1>8, <1>9, <1>10 DEF Good

(* The frames of the queued composition keep what they are pictures of     *)
(* under their new numbers.                                                *)
LEMMA RenumberedIsCached ==
  ASSUME NEW s, Good(s), s.timeline # None, s.queued # None,
         s.clock # "none" => FrameCount[s.timeline] <= s.due,
         NEW t, t = Renumbered(s)
  PROVE  /\ Shaped(t) /\ Placed(t) /\ Cached(t) /\ Timed(t)
         /\ Refuses(s, t) /\ t.timeline = s.queued /\ t.queued = None
         /\ t.current_frame = 0 /\ ~t.eof /\ t.playing = s.playing /\ t.clock = s.clock
<1> DEFINE count == FrameCount[s.timeline]
           g == s.generation + 1
           due == IF s.clock = "none" THEN s.due ELSE s.due - count
           frames == [i \in {j - count : j \in {k \in DOMAIN s.cache.frames : k >= count}}
                        |-> s.cache.frames[i + count]]
           kept == Rebase(s.cache, count, g)
<1>1. /\ DOMAIN kept = CacheFields /\ kept.dropped_before = g
      /\ kept.rerendered_from = s.cache.rerendered_from /\ kept.frames = frames
  BY DEF Rebase, Good, Shaped, CacheFields
<1>2. count \in Nat /\ FrameCount[s.queued] \in Nat /\ FrameCount[s.queued] > 0
      /\ FramesAhead(s) = count + FrameCount[s.queued]
  BY FramesOfTheWindow DEF Good, FramesAhead
<1>3. due \in Nat
  <2>1. s.due \in Nat
    BY DEF Good, Shaped
  <2>2. CASE s.clock = "none"
    BY <2>1, <2>2
  <2>3. CASE s.clock # "none"
    BY <1>2, <2>1, <2>3
  <2>4. QED
    BY <2>2, <2>3
<1>4. ASSUME NEW i \in DOMAIN frames
      PROVE  /\ i \in Nat /\ i < FrameCount[s.queued]
             /\ frames[i] \in EntryType /\ frames[i].from = <<s.queued, i>>
             /\ frames[i].generation <= s.generation
  <2>1. PICK j \in DOMAIN s.cache.frames : j >= count /\ i = j - count
    OBVIOUS
  <2>2. /\ j \in Nat /\ j < FramesAhead(s) /\ s.cache.frames[j] \in EntryType
        /\ s.cache.frames[j].from = FrameAt(s, j)
        /\ s.cache.frames[j].generation <= s.generation
    BY DEF Good, Cached
  <2>3. i \in Nat /\ i < FrameCount[s.queued] /\ j = i + count /\ ~(j < count)
    BY <1>2, <2>1, <2>2
  <2>4. FrameAt(s, j) = <<s.queued, i>>
    BY <2>1, <2>3 DEF FrameAt
  <2>5. frames[i] = s.cache.frames[j]
    BY <2>3
  <2>6. QED
    BY <2>2, <2>3, <2>4, <2>5
<1>5. /\ Kept(s, t, {"due", "generation", "in_flight", "cache", "timeline", "queued",
                      "current_frame", "eof"})
      /\ t.due = due /\ t.generation = g /\ t.in_flight = {} /\ t.cache = kept
      /\ t.timeline = s.queued /\ t.queued = None /\ t.current_frame = 0 /\ t.eof = FALSE
  BY DEF Renumbered, Kept, PlayerFields, Good, Shaped
<1> HIDE DEF frames, kept, due
<1>6. /\ t.needs_publish = s.needs_publish /\ t.playing = s.playing
      /\ t.unshown = s.unshown /\ t.reduce = s.reduce /\ t.display = s.display
      /\ t.shown = s.shown /\ t.clock = s.clock
  BY <1>5 DEF Kept, PlayerFields
<1>7. /\ t.generation \in Nat /\ t.cache.dropped_before \in 0..t.generation
      /\ t.cache.rerendered_from \in 0..t.generation /\ t.generation > s.generation
  BY <1>1, <1>5 DEF Good, Shaped
<1>8. Shaped(t)
  <2>1. t.eof \in BOOLEAN
    BY <1>5
  <2>2. t.current_frame \in Nat /\ t.due \in Nat /\ t.in_flight \subseteq Nat
    BY <1>3, <1>5
  <2>3. t.timeline \in Compositions \cup {None} /\ t.queued \in Compositions \cup {None}
    BY <1>5 DEF Good, Shaped
  <2>4. QED
    BY <1>1, <1>5, <1>6, <1>7, <2>1, <2>2, <2>3 DEF Good, Shaped, Kept
<1>9. Placed(t) /\ Timed(t)
  BY <1>2, <1>3, <1>5, <1>6 DEF Good, Placed, Timed
<1>10. Cached(t)
  <2>1. FramesAhead(t) = FrameCount[s.queued]
    BY <1>2, <1>5 DEF FramesAhead
  <2>2. \A i \in DOMAIN frames : FrameAt(t, i) = <<s.queued, i>>
    BY <1>4, <1>5 DEF FrameAt
  <2>3. \A i \in DOMAIN frames : frames[i].generation <= t.generation
    BY <1>4, <1>5 DEF Good, Shaped, EntryType
  <2>4. QED
    BY <1>1, <1>4, <1>5, <2>1, <2>2, <2>3 DEF Cached
<1>11. QED
  BY <1>1, <1>5, <1>6, <1>7, <1>8, <1>9, <1>10 DEF Refuses

(* A picture that is not the current frame is to be published.             *)
LEMMA HandOffIsGood ==
  ASSUME NEW s, Good(s), s.timeline # None, s.queued # None,
         s.clock # "none" => FrameCount[s.timeline] <= s.due,
         NEW t, t = HandOff(s)
  PROVE  /\ Good(t) /\ Refuses(s, t) /\ t.timeline # None
         /\ ~t.eof /\ t.playing = s.playing /\ t.clock = s.clock
<1>1. PICK x : x = Renumbered(s)
  OBVIOUS
<1>2. /\ Shaped(x) /\ Placed(x) /\ Cached(x) /\ Timed(x)
      /\ Refuses(s, x) /\ x.timeline = s.queued
      /\ x.current_frame = 0 /\ ~x.eof /\ x.playing = s.playing /\ x.clock = s.clock
  BY <1>1, RenumberedIsCached
<1>3. CASE DecodedAt(x.cache, 0, x.reduce)
  <2>1. t = Present(x, 0) /\ 0 \in DOMAIN x.cache.frames
    BY <1>1, <1>3 DEF HandOff, DecodedAt, Decoded
  <2>2. FrameCount[x.timeline] > 0
    BY <1>2, FramesOfTheWindow
  <2>3. x.playing => 0 <= x.due
    BY <1>2 DEF Shaped
  <2>4. /\ Good(t) /\ Kept(x, t, {"current_frame", "shown", "unshown", "cache"})
        /\ t.cache.dropped_before = x.cache.dropped_before
    BY <1>2, <2>1, <2>2, <2>3, PresentIsGood
  <2>5. QED
    BY <1>2, <2>4 DEF Kept, PlayerFields, Refuses
<1>4. CASE ~DecodedAt(x.cache, 0, x.reduce)
  <2>1. t = [x EXCEPT !.needs_publish = TRUE]
    BY <1>1, <1>4 DEF HandOff
  <2>2. Kept(x, t, {"needs_publish"}) /\ t.needs_publish = TRUE
    BY <1>2, <2>1 DEF Kept, PlayerFields, Shaped
  <2>3. /\ t.timeline = x.timeline /\ t.queued = x.queued /\ t.eof = x.eof
        /\ t.current_frame = x.current_frame /\ t.playing = x.playing
        /\ t.reduce = x.reduce /\ t.display = x.display /\ t.clock = x.clock
        /\ t.due = x.due /\ t.generation = x.generation /\ t.in_flight = x.in_flight
        /\ t.cache = x.cache /\ t.shown = x.shown /\ t.unshown = x.unshown
    BY <2>2 DEF Kept, PlayerFields
  <2>4. t.needs_publish \in BOOLEAN
    BY <2>2
  <2>5. Shaped(t)
    BY <1>2, <2>2, <2>3, <2>4 DEF Shaped, Kept
  <2>6. Placed(t) /\ Timed(t)
    BY <1>2, <2>3 DEF Placed, Timed
  <2>7. Cached(t)
    BY <1>2, <2>3 DEF Cached, FrameAt, FramesAhead
  <2>8. Shows(t)
    BY <1>2, <2>2, <2>3 DEF Shows
  <2>9. Refuses(s, t)
    BY <1>2, <2>3 DEF Refuses
  <2>10. QED
    BY <1>2, <2>3, <2>5, <2>6, <2>7, <2>8, <2>9 DEF Good
<1>5. QED
  BY <1>3, <1>4

(* What is to be published is shown when it is decoded, given up when it   *)
(* failed, and waited for otherwise.                                       *)
LEMMA PublishIsGood ==
  ASSUME NEW s, Good(s), s.timeline # None, NEW t, t = PublishCurrent(s)
  PROVE  /\ Good(t) /\ Kept(s, t, {"needs_publish", "current_frame", "shown", "unshown", "cache"})
         /\ t.cache.dropped_before = s.cache.dropped_before
         /\ t.current_frame = s.current_frame
         /\ \A i \in DOMAIN s.cache.frames : i >= t.current_frame =>
              i \in DOMAIN t.cache.frames /\ t.cache.frames[i] = s.cache.frames[i]
<1> DEFINE changed == {"needs_publish", "current_frame", "shown", "unshown", "cache"}
           index == s.current_frame
<1>1. CASE DecodedAt(s.cache, index, s.reduce)
  <2>1. PICK x : x = [s EXCEPT !.needs_publish = FALSE]
    OBVIOUS
  <2>2. Kept(s, x, {"needs_publish"}) /\ x.needs_publish = FALSE
    BY <2>1 DEF Kept, PlayerFields, Good, Shaped
  <2>3. /\ x.timeline = s.timeline /\ x.queued = s.queued /\ x.eof = s.eof
        /\ x.current_frame = s.current_frame /\ x.playing = s.playing
        /\ x.reduce = s.reduce /\ x.display = s.display /\ x.clock = s.clock
        /\ x.due = s.due /\ x.generation = s.generation /\ x.in_flight = s.in_flight
        /\ x.cache = s.cache /\ x.shown = s.shown /\ x.unshown = s.unshown
    BY <2>2 DEF Kept, PlayerFields
  <2>4. x.needs_publish \in BOOLEAN
    BY <2>2
  <2>5. Shaped(x)
    BY <2>2, <2>3, <2>4 DEF Good, Shaped, Kept
  <2>6. Placed(x) /\ Cached(x)
    BY <2>3 DEF Good, Placed, Cached, FrameAt, FramesAhead
  <2>7. /\ index \in DOMAIN x.cache.frames /\ index < FrameCount[x.timeline]
        /\ x.playing => index <= x.due
    BY <1>1, <2>3 DEF DecodedAt, Decoded, Good, Placed, Timed
  <2>8. t = Present(x, index)
    BY <1>1, <2>1 DEF PublishCurrent
  <2>9. /\ Good(t) /\ Kept(x, t, {"current_frame", "shown", "unshown", "cache"})
        /\ t.current_frame = index
        /\ t.cache.dropped_before = x.cache.dropped_before
        /\ \A i \in DOMAIN x.cache.frames : i >= index =>
             i \in DOMAIN t.cache.frames /\ t.cache.frames[i] = x.cache.frames[i]
    BY <2>3, <2>5, <2>6, <2>7, <2>8, PresentIsGood
  <2>10. Kept(s, t, changed)
    BY <2>2, <2>9 DEF Kept
  <2>11. QED
    BY <2>3, <2>9, <2>10
<1>2. CASE ~DecodedAt(s.cache, index, s.reduce) /\ Failure(s.cache, index)
  <2>1. t = [s EXCEPT !.needs_publish = FALSE, !.unshown = TRUE]
    BY <1>2 DEF PublishCurrent
  <2>2. Kept(s, t, {"needs_publish", "unshown"}) /\ t.needs_publish = FALSE
        /\ t.unshown = TRUE
    BY <2>1 DEF Kept, PlayerFields, Good, Shaped
  <2>3. /\ t.timeline = s.timeline /\ t.queued = s.queued /\ t.eof = s.eof
        /\ t.current_frame = s.current_frame /\ t.playing = s.playing
        /\ t.reduce = s.reduce /\ t.display = s.display /\ t.clock = s.clock
        /\ t.due = s.due /\ t.generation = s.generation /\ t.in_flight = s.in_flight
        /\ t.cache = s.cache /\ t.shown = s.shown
    BY <2>2 DEF Kept, PlayerFields
  <2>4. t.needs_publish \in BOOLEAN /\ t.unshown \in BOOLEAN
    BY <2>2
  <2>5. Shaped(t)
    BY <2>2, <2>3, <2>4 DEF Good, Shaped, Kept
  <2>6. Placed(t) /\ Cached(t) /\ Timed(t)
    BY <2>3 DEF Good, Placed, Cached, Timed, FrameAt, FramesAhead
  <2>7. Shows(t)
    BY <2>2, <2>3 DEF Shows
  <2>8. Kept(s, t, changed)
    BY <2>2 DEF Kept
  <2>9. QED
    BY <2>3, <2>5, <2>6, <2>7, <2>8 DEF Good
<1>3. CASE ~DecodedAt(s.cache, index, s.reduce) /\ ~Failure(s.cache, index)
  <2>1. t = s
    BY <1>3 DEF PublishCurrent
  <2>2. QED
    BY <2>1 DEF Kept, Good, Shaped
<1>4. QED
  BY <1>1, <1>2, <1>3

(* The clock is taken away or given a new start; nothing else moves.       *)
LEMMA OnlyTheClock ==
  ASSUME NEW s, Good(s), NEW t, Kept(s, t, {"playing", "eof", "clock", "due"}),
         t.playing \in BOOLEAN, t.eof \in BOOLEAN,
         t.clock \in {"none", "wall", "sound"}, t.due \in Nat,
         t.playing <=> t.clock # "none", t.playing => t.timeline # None /\ ~t.eof,
         Timed(t)
  PROVE  Good(t)
<1>1. /\ t.timeline = s.timeline /\ t.queued = s.queued
      /\ t.current_frame = s.current_frame /\ t.needs_publish = s.needs_publish
      /\ t.reduce = s.reduce /\ t.display = s.display
      /\ t.generation = s.generation /\ t.in_flight = s.in_flight
      /\ t.cache = s.cache /\ t.shown = s.shown /\ t.unshown = s.unshown
  BY DEF Kept, PlayerFields
<1>2. Shaped(t)
  BY <1>1 DEF Good, Shaped, Kept
<1>3. Placed(t) /\ Cached(t)
  BY <1>1 DEF Good, Placed, Cached, FrameAt, FramesAhead
<1>4. Shows(t)
  BY <1>1 DEF Good, Shows
<1>5. QED
  BY <1>2, <1>3, <1>4 DEF Good

LEMMA PauseIsGood ==
  ASSUME NEW s, Good(s), NEW t, t = Pause(s) \/ t = ReachEnd(s)
  PROVE  Good(t) /\ Kept(s, t, {"playing", "eof", "clock", "due"})
<1>1. /\ Kept(s, t, {"playing", "eof", "clock", "due"})
      /\ t.playing = FALSE /\ t.clock = "none" /\ t.due = 0
      /\ t.eof = s.eof \/ t.eof = TRUE
  BY DEF Pause, ReachEnd, Kept, PlayerFields, Good, Shaped
<1>2. t.playing \in BOOLEAN /\ t.eof \in BOOLEAN
  BY <1>1 DEF Good, Shaped
<1>3. Timed(t)
  BY <1>1 DEF Timed
<1>4. QED
  BY <1>1, <1>2, <1>3, OnlyTheClock

LEMMA NewClockIsGood ==
  ASSUME NEW s, Good(s), s.playing, NEW source \in {"wall", "sound"},
         NEW t, t = NewClock(s, source)
  PROVE  Good(t) /\ Kept(s, t, {"playing", "eof", "clock", "due"})
<1>1. /\ Kept(s, t, {"clock", "due"}) /\ t.clock = source /\ t.due = s.current_frame
  BY NewClockFields DEF Good
<1>2. /\ t.playing = s.playing /\ t.eof = s.eof /\ t.timeline = s.timeline
      /\ t.current_frame = s.current_frame
  BY <1>1 DEF Kept, PlayerFields
<1>3. Timed(t)
  BY <1>1, <1>2 DEF Good, Shaped, Timed
<1>4. Kept(s, t, {"playing", "eof", "clock", "due"})
  BY <1>1 DEF Kept
<1>5. QED
  BY <1>1, <1>2, <1>3, <1>4, OnlyTheClock DEF Good, Shaped, Placed

LEMMA PlayIsGood ==
  ASSUME NEW s, Good(s), s.timeline # None, NEW source \in ClockSources,
         NEW t, t = Play(s, source)
  PROVE  /\ Good(t)
         /\ s.eof => Refuses(s, t)
         /\ ~s.eof => Kept(s, t, {"playing", "eof", "clock", "due"})
<1>1. PICK x : x = IF s.eof /\ s.queued # None THEN HandOff(s)
                   ELSE IF s.eof THEN SeekToFrame(s, 0, source)
                   ELSE s
  OBVIOUS
<1>2. /\ Good(x) /\ x.timeline # None /\ ~x.eof
      /\ s.eof => Refuses(s, x)
      /\ ~s.eof => x = s
  <2>1. s.eof => s.clock = "none"
    BY DEF Good, Placed
  <2>2. CASE s.eof /\ s.queued # None
    BY <1>1, <2>1, <2>2, HandOffIsGood
  <2>3. CASE s.eof /\ s.queued = None
    <3>1. x = SeekToFrame(s, 0, source)
      BY <1>1, <2>3
    <3>2. Good(x) /\ Refuses(s, x) /\ x.timeline = s.timeline /\ ~x.eof
      BY <3>1, SeekIsGood
    <3>3. QED
      BY <2>3, <3>2
  <2>4. CASE ~s.eof
    BY <1>1, <2>4
  <2>5. QED
    BY <2>2, <2>3, <2>4
<1>3. PICK y : y = [x EXCEPT !.playing = TRUE]
  OBVIOUS
<1>4. t = NewClock(y, source) /\ source \in {"wall", "sound"}
  BY <1>1, <1>3, PlayerAssumption DEF Play
<1>5. Kept(x, y, {"playing"}) /\ y.playing = TRUE
  BY <1>2, <1>3 DEF Kept, PlayerFields, Good, Shaped
<1>6. /\ y.timeline = x.timeline /\ y.eof = x.eof /\ y.current_frame = x.current_frame
  BY <1>5 DEF Kept, PlayerFields
<1>7. /\ DOMAIN t = PlayerFields
      /\ t = [y EXCEPT !.clock = source, !.due = y.current_frame]
  BY <1>4, <1>5 DEF NewClock, Kept
<1>8. /\ Kept(y, t, {"clock", "due"}) /\ t.clock = source /\ t.due = x.current_frame
  BY <1>5, <1>6, <1>7 DEF Kept, PlayerFields
<1>9. /\ t.playing = TRUE /\ t.eof = x.eof /\ t.timeline = x.timeline
      /\ t.current_frame = x.current_frame
  BY <1>5, <1>6, <1>8 DEF Kept, PlayerFields
<1>10. Kept(x, t, {"playing", "eof", "clock", "due"})
  BY <1>5, <1>8 DEF Kept
<1>11. t.playing \in BOOLEAN /\ t.eof \in BOOLEAN /\ t.due \in Nat /\ Timed(t)
  <2>1. t.playing \in BOOLEAN
    BY <1>9
  <2>2. x.eof \in BOOLEAN /\ x.current_frame \in Nat
    BY <1>2 DEF Good, Shaped
  <2>3. QED
    BY <1>8, <1>9, <2>1, <2>2 DEF Timed
<1>12. Good(t)
  BY <1>2, <1>4, <1>8, <1>9, <1>10, <1>11, OnlyTheClock
<1>13. t.generation = x.generation /\ t.in_flight = x.in_flight /\ t.cache = x.cache
  BY <1>10 DEF Kept, PlayerFields
<1>14. QED
  BY <1>2, <1>10, <1>12, <1>13 DEF Refuses

-----------------------------------------------------------------------------
(* The jobs in the pool and the frames in flight, as the player changes.   *)

\* None of the jobs begun before a restart is followed any further.
LEMMA RefusedJobs ==
  ASSUME NEW s, Good(s), NEW pool, JobsInv(s, pool), NEW t, Refuses(s, t),
         NEW left \in SUBSET {job \in pool : Accepts(t.cache, job.entry.generation)}
  PROVE  JobsInv(t, left) /\ InFlightInv(t, left)
<1>1. left = {}
  <2> SUFFICES ASSUME NEW job \in pool, Accepts(t.cache, job.entry.generation)
               PROVE  FALSE
    OBVIOUS
  <2>1. /\ job.entry.generation \in Nat /\ job.entry.generation <= s.generation
        /\ s.generation \in Nat
    BY DEF JobsInv, EntryType, Good, Shaped
  <2>2. QED
    BY <2>1 DEF Accepts, Refuses
<1>2. QED
  BY <1>1 DEF Refuses, JobsInv, InFlightInv

LEMMA RerenderedJobs ==
  ASSUME NEW s, Good(s), NEW pool, JobsInv(s, pool), NEW t, Rerenders(s, t),
         NEW left \in SUBSET pool
  PROVE  JobsInv(t, left) /\ InFlightInv(t, left)
<1>1. \A i : FrameAt(t, i) = FrameAt(s, i) /\ FramesAhead(t) = FramesAhead(s)
  BY DEF Rerenders, FrameAt, FramesAhead
<1>2. ASSUME NEW job \in left
      PROVE  job.entry.generation < t.generation
  BY DEF JobsInv, EntryType, Rerenders, Good, Shaped
<1>3. \A job \in left : /\ job.entry.generation <= t.generation
                       /\ job.entry.generation # t.generation
  <2>1. \A job \in left : job.entry.generation \in Nat
    BY DEF JobsInv, EntryType
  <2>2. QED
    BY <1>2, <2>1 DEF Rerenders
<1>4. QED
  BY <1>1, <1>3 DEF Rerenders, JobsInv, InFlightInv

LEMMA KeptJobs ==
  ASSUME NEW s, NEW pool, JobsInv(s, pool), InFlightInv(s, pool), NEW t,
         t.timeline = s.timeline, t.queued = s.queued, t.generation = s.generation,
         t.reduce = s.reduce, t.in_flight = s.in_flight,
         t.cache.dropped_before = s.cache.dropped_before,
         \A i \in s.in_flight : i >= t.current_frame => i >= s.current_frame,
         \A i \in DOMAIN s.cache.frames : i >= t.current_frame =>
           i \in DOMAIN t.cache.frames /\ t.cache.frames[i] = s.cache.frames[i]
  PROVE  JobsInv(t, pool) /\ InFlightInv(t, pool)
<1>1. \A i : FrameAt(t, i) = FrameAt(s, i) /\ FramesAhead(t) = FramesAhead(s)
  BY DEF FrameAt, FramesAhead
<1>2. QED
  BY <1>1 DEF JobsInv, InFlightInv, OnItsWay

\* The same when only the clock is another one.
LEMMA ClockedJobs ==
  ASSUME NEW s, NEW pool, JobsInv(s, pool), InFlightInv(s, pool),
         NEW t, Kept(s, t, {"playing", "eof", "clock", "due"})
  PROVE  JobsInv(t, pool) /\ InFlightInv(t, pool)
<1>1. /\ t.timeline = s.timeline /\ t.queued = s.queued /\ t.generation = s.generation
      /\ t.reduce = s.reduce /\ t.in_flight = s.in_flight /\ t.cache = s.cache
      /\ t.current_frame = s.current_frame
  BY DEF Kept, PlayerFields
<1>2. QED
  BY <1>1, KeptJobs

Consistent(s, pool) == Good(s) /\ JobsInv(s, pool) /\ InFlightInv(s, pool)

\* A discarded queue and the player a command leaves.
LEMMA Discarded ==
  ASSUME Consistent(player, jobs), Good(player'), DiscardQueuedJobs,
         Refuses(player, player') \/ Rerenders(player, player')
  PROVE  Consistent(player, jobs)'
<1>1. jobs' \in SUBSET {job \in jobs : Accepts(player'.cache, job.entry.generation)}
  BY DEF DiscardQueuedJobs
<1>2. CASE Refuses(player, player')
  BY <1>1, <1>2, RefusedJobs DEF Consistent
<1>3. CASE Rerenders(player, player')
  BY <1>1, <1>3, RerenderedJobs DEF Consistent
<1>4. QED
  BY <1>2, <1>3

-----------------------------------------------------------------------------
(* A tick.                                                                 *)

LEMMA ClockReadIsGood ==
  ASSUME NEW s, NEW pool, Consistent(s, pool), s.playing, NEW t \in ClockRead(s)
  PROVE  /\ Consistent(t, pool) /\ t.playing /\ t.timeline = s.timeline
         /\ t.queued = s.queued /\ t.generation = s.generation
<1>1. CASE t = s
  BY <1>1
<1>2. CASE t = NewClock(s, "wall")
  <2>1. Good(t) /\ Kept(s, t, {"playing", "eof", "clock", "due"})
    BY <1>2, NewClockIsGood DEF Consistent
  <2>2. Kept(s, t, {"clock", "due"})
    BY <1>2, NewClockFields DEF Consistent, Good
  <2>3. QED
    BY <2>1, <2>2, ClockedJobs DEF Consistent, Kept, PlayerFields
<1>3. QED
  BY <1>1, <1>2 DEF ClockRead

(* Playback goes on to a decoded frame the clock has reached, or past a    *)
(* failed one.                                                             *)
LEMMA BeforeTheLastFrameStep ==
  ASSUME NEW s, Consistent(s, jobs), s.playing, s.timeline # None,
         BeforeTheLastFrame(s)
  PROVE  Consistent(player, jobs)'
<1> DEFINE target == Min({s.due, LastFrame(s)})
           ready == DecodedIn(s.cache, s.current_frame + 1, target)
<1>1. Shaped(s) /\ Placed(s) /\ Cached(s)
  BY DEF Consistent, Good
<1>2. /\ target \in Nat /\ target <= s.due /\ target < FrameCount[s.timeline]
      /\ s.current_frame \in Nat /\ s.due \in Nat
  <2>1. /\ FrameCount[s.timeline] \in Nat /\ LastFrame(s) = FrameCount[s.timeline] - 1
        /\ LastFrame(s) \in Nat /\ s.due \in Nat /\ s.current_frame \in Nat
    BY <1>1, FramesOfTheWindow DEF Shaped
  <2>2. s.due \in Int /\ LastFrame(s) \in Int
    BY <2>1
  <2>3. target \in {s.due, LastFrame(s)} /\ target <= s.due /\ target <= LastFrame(s)
    BY <2>2, LesserOfTwo
  <2> HIDE DEF target
  <2>4. QED
    BY <2>1, <2>3
<1>3. jobs' = jobs
  BY DEF BeforeTheLastFrame
<1>4. PICK t : t = player'
  OBVIOUS
<1>5. t = IF ready # {} THEN Present(s, Max(ready))
          ELSE IF s.due > s.current_frame /\ Failure(s.cache, target)
            THEN [s EXCEPT !.current_frame = target, !.unshown = TRUE]
          ELSE s
  BY <1>4 DEF BeforeTheLastFrame
<1> HIDE DEF target
<1>6. CASE ready # {}
  <2> DEFINE index == Max(ready)
  <2>1. index \in ready
    <3>1. ready \in SUBSET ((s.current_frame + 1)..target)
      BY DEF DecodedIn
    <3>2. s.current_frame + 1 \in Int /\ target \in Int
      BY <1>2
    <3> HIDE DEF ready
    <3>3. QED
      BY <1>6, <3>1, <3>2, GreatestOfSome
  <2>2. /\ index \in DOMAIN s.cache.frames /\ index \in (s.current_frame + 1)..target
    BY <2>1 DEF DecodedIn, Decoded
  <2>3. t = Present(s, index)
    BY <1>5, <1>6
  <2> HIDE DEF index, ready
  <2>4. index < FrameCount[s.timeline] /\ index <= s.due /\ index > s.current_frame
        /\ index \in Nat
    <3>1. FrameCount[s.timeline] \in Nat
      BY <1>1, FramesOfTheWindow
    <3>2. QED
      BY <1>2, <2>2, <3>1
  <2>5. /\ Good(t) /\ Kept(s, t, {"current_frame", "shown", "unshown", "cache"})
        /\ t.current_frame = index
        /\ t.cache.dropped_before = s.cache.dropped_before
        /\ \A i \in DOMAIN s.cache.frames : i >= index =>
             i \in DOMAIN t.cache.frames /\ t.cache.frames[i] = s.cache.frames[i]
    BY <1>1, <2>2, <2>3, <2>4, PresentIsGood
  <2>6. /\ t.timeline = s.timeline /\ t.queued = s.queued /\ t.generation = s.generation
        /\ t.reduce = s.reduce /\ t.in_flight = s.in_flight
    BY <2>5 DEF Kept, PlayerFields
  <2>7. \A i \in s.in_flight : i >= t.current_frame => i >= s.current_frame
    BY <1>1, <1>2, <2>4, <2>5 DEF Shaped
  <2>8. JobsInv(t, jobs) /\ InFlightInv(t, jobs)
    BY <2>5, <2>6, <2>7, KeptJobs DEF Consistent
  <2>9. QED
    BY <1>3, <1>4, <2>5, <2>8 DEF Consistent
<1>7. CASE ready = {} /\ s.due > s.current_frame /\ Failure(s.cache, target)
  <2>1. t = [s EXCEPT !.current_frame = target, !.unshown = TRUE]
    BY <1>5, <1>7
  <2>2. Kept(s, t, {"current_frame", "unshown"}) /\ t.current_frame = target
        /\ t.unshown = TRUE
    BY <1>1, <2>1 DEF Kept, PlayerFields, Shaped
  <2>3. /\ t.timeline = s.timeline /\ t.queued = s.queued /\ t.eof = s.eof
        /\ t.needs_publish = s.needs_publish /\ t.playing = s.playing
        /\ t.reduce = s.reduce /\ t.display = s.display /\ t.clock = s.clock
        /\ t.due = s.due /\ t.generation = s.generation /\ t.in_flight = s.in_flight
        /\ t.cache = s.cache /\ t.shown = s.shown
    BY <2>2 DEF Kept, PlayerFields
  <2>4. t.unshown \in BOOLEAN
    BY <2>2
  <2>5. Shaped(t)
    BY <1>1, <1>2, <2>2, <2>3, <2>4 DEF Shaped, Kept
  <2>6. Placed(t) /\ Cached(t) /\ Timed(t)
    BY <1>1, <1>2, <2>2, <2>3 DEF Placed, Cached, Timed, FrameAt, FramesAhead
  <2>7. Shows(t)
    BY <2>2, <2>3 DEF Shows
  <2>8. target >= s.current_frame
    <3>1. s.current_frame < FrameCount[s.timeline] /\ FrameCount[s.timeline] \in Nat
          /\ LastFrame(s) = FrameCount[s.timeline] - 1
      BY <1>1, FramesOfTheWindow DEF Placed
    <3>2. target \in {s.due, LastFrame(s)}
      <4>1. s.due \in Int /\ LastFrame(s) \in Int
        BY <1>2, <3>1
      <4>2. QED
        BY <4>1, LesserOfTwo DEF target
    <3>3. QED
      BY <1>2, <1>7, <3>1, <3>2
  <2>9. \A i \in s.in_flight : i >= t.current_frame => i >= s.current_frame
    BY <1>1, <1>2, <2>2, <2>8 DEF Shaped
  <2>10. JobsInv(t, jobs) /\ InFlightInv(t, jobs)
    BY <2>2, <2>3, <2>9, KeptJobs DEF Consistent
  <2>11. QED
    BY <1>3, <1>4, <2>5, <2>6, <2>7, <2>10 DEF Consistent, Good
<1>8. CASE t = s
  BY <1>3, <1>4, <1>8
<1>9. QED
  BY <1>5, <1>6, <1>7, <1>8

LEMMA AtTheLastFrameStep ==
  ASSUME Consistent(player, jobs), NEW s, Consistent(s, jobs), s.playing,
         s.timeline # None, s.generation = player.generation, AtTheLastFrame(s)
  PROVE  Consistent(player, jobs)'
<1>1. PICK t : t = player'
  OBVIOUS
<1>2. CASE s.queued = None /\ player' = ReachEnd(s) /\ UNCHANGED jobs
  <2>1. Good(t) /\ Kept(s, t, {"playing", "eof", "clock", "due"})
    BY <1>1, <1>2, PauseIsGood DEF Consistent
  <2>2. JobsInv(t, jobs) /\ InFlightInv(t, jobs)
    BY <2>1, ClockedJobs DEF Consistent
  <2>3. QED
    BY <1>1, <1>2, <2>1, <2>2 DEF Consistent
<1>3. CASE /\ s.queued # None /\ s.due >= FrameCount[s.timeline]
           /\ player' = HandOff(s) /\ DiscardQueuedJobs
  <2>1. FrameCount[s.timeline] <= s.due
    BY <1>3, FramesOfTheWindow DEF Consistent, Good, Shaped
  <2>2. Good(t) /\ Refuses(s, t)
    BY <1>1, <1>3, <2>1, HandOffIsGood DEF Consistent
  <2>3. Refuses(player, t)
    BY <2>2 DEF Refuses
  <2>4. QED
    BY <1>1, <1>3, <2>2, <2>3, Discarded
<1>4. CASE player' = s /\ UNCHANGED jobs
  BY <1>4
<1>5. QED
  BY <1>2, <1>3, <1>4 DEF AtTheLastFrame

LEMMA TickStep ==
  ASSUME Consistent(player, jobs), Tick
  PROVE  Consistent(player, jobs)'
<1>1. CASE UNCHANGED <<player, jobs>>
  BY <1>1
<1>2. CASE player.timeline # None /\ player' = PublishCurrent(player) /\ UNCHANGED jobs
  <2>1. PICK s, t : s = player /\ t = player'
    OBVIOUS
  <2>2. /\ Good(t) /\ t.cache.dropped_before = s.cache.dropped_before
        /\ Kept(s, t, {"needs_publish", "current_frame", "shown", "unshown", "cache"})
        /\ t.current_frame = s.current_frame
        /\ \A i \in DOMAIN s.cache.frames : i >= t.current_frame =>
             i \in DOMAIN t.cache.frames /\ t.cache.frames[i] = s.cache.frames[i]
    BY <1>2, <2>1, PublishIsGood DEF Consistent
  <2>3. /\ t.timeline = s.timeline /\ t.queued = s.queued /\ t.generation = s.generation
        /\ t.reduce = s.reduce /\ t.in_flight = s.in_flight
    BY <2>2 DEF Kept, PlayerFields
  <2>4. JobsInv(t, jobs) /\ InFlightInv(t, jobs)
    BY <2>1, <2>2, <2>3, KeptJobs DEF Consistent
  <2>5. QED
    BY <1>2, <2>1, <2>2, <2>4 DEF Consistent
<1>3. ASSUME player.timeline # None, player.playing, NEW s \in ClockRead(player),
             AtTheLastFrame(s) \/ BeforeTheLastFrame(s)
      PROVE  Consistent(player, jobs)'
  <2>1. /\ Consistent(s, jobs) /\ s.playing /\ s.timeline # None
        /\ s.generation = player.generation
    BY <1>3, ClockReadIsGood
  <2>2. QED
    BY <1>3, <2>1, AtTheLastFrameStep, BeforeTheLastFrameStep
<1>4. QED
  BY <1>1, <1>2, <1>3 DEF Tick

(* A pump asks for frames of the window and keeps those it cannot read as  *)
(* failed.                                                                 *)
LEMMA PumpStep ==
  ASSUME Consistent(player, jobs), Pump
  PROVE  Consistent(player, jobs)'
<1>1. CASE UNCHANGED <<player, jobs>>
  BY <1>1
<1>2. CASE player.timeline # None
  <2>1. PICK t : t = player'
    OBVIOUS
  <2> DEFINE s == player
             Held(i) == HoldsAt(s.cache, i, s.reduce)
             waiting == {i \in s.in_flight : ~Held(i)}
             last == Min({s.current_frame + lookahead_frames, FramesAhead(s) - 1})
             wanted == {i \in s.current_frame..last : ~Held(i) /\ i \notin waiting}
             Entry(i, decoded) ==
               [generation |-> s.generation, reduce |-> s.reduce, display |-> s.display,
                from |-> FrameAt(s, i), decoded |-> decoded]
  <2>2. PICK asked \in Batches(wanted, s.playing) :
        \E unread \in SUBSET {i \in asked : FrameAt(s, i) \in Bad} :
          /\ t = [s EXCEPT !.in_flight = waiting \cup (asked \ unread),
                     !.cache.frames =
                       [i \in DOMAIN @ \cup unread |->
                          IF i \in unread THEN Entry(i, FALSE) ELSE @[i]]]
          /\ jobs' = jobs \cup {[index |-> i, entry |-> Entry(i, TRUE)] :
                                  i \in asked \ unread}
    BY <1>2, <2>1 DEF Pump
  <2>3. PICK unread \in SUBSET {i \in asked : FrameAt(s, i) \in Bad} :
          /\ t = [s EXCEPT !.in_flight = waiting \cup (asked \ unread),
                     !.cache.frames =
                       [i \in DOMAIN @ \cup unread |->
                          IF i \in unread THEN Entry(i, FALSE) ELSE @[i]]]
          /\ jobs' = jobs \cup {[index |-> i, entry |-> Entry(i, TRUE)] :
                                  i \in asked \ unread}
    BY <2>2
  <2>4. /\ Shaped(s) /\ Placed(s) /\ Cached(s) /\ Shows(s) /\ Timed(s)
        /\ JobsInv(s, jobs) /\ InFlightInv(s, jobs) /\ s.timeline # None
    BY <1>2, <2>1 DEF Consistent, Good
  <2> DEFINE frames == [i \in DOMAIN s.cache.frames \cup unread |->
                          IF i \in unread THEN Entry(i, FALSE) ELSE s.cache.frames[i]]
  <2>5. /\ Kept(s, t, {"in_flight", "cache"})
        /\ t.in_flight = waiting \cup (asked \ unread)
        /\ DOMAIN t.cache = CacheFields
        /\ t.cache.dropped_before = s.cache.dropped_before
        /\ t.cache.rerendered_from = s.cache.rerendered_from
        /\ t.cache.frames = frames
    BY <2>3, <2>4 DEF Kept, PlayerFields, CacheFields, Shaped
  <2>6. unread \subseteq asked /\ asked \subseteq wanted
    BY DEF Batches
  <2> HIDE DEF wanted, waiting
  <2>7. \A i \in asked : i \in Nat /\ i < FramesAhead(s)
    <3>1. FramesAhead(s) \in Nat /\ s.current_frame \in Nat /\ lookahead_frames \in Nat
      BY <2>4, FramesOfTheWindow, PlayerAssumption
      DEF Shaped, lookahead_frames, LookaheadPerWorker
    <3>2. last <= FramesAhead(s) - 1
          /\ last \in {s.current_frame + lookahead_frames, FramesAhead(s) - 1}
      <4>1. s.current_frame + lookahead_frames \in Int /\ FramesAhead(s) - 1 \in Int
        BY <3>1
      <4>2. QED
        BY <4>1, LesserOfTwo
    <3> HIDE DEF last
    <3>3. QED
      BY <2>6, <3>1, <3>2 DEF wanted
  <2>8. \A i \in asked, decoded \in BOOLEAN : Entry(i, decoded) \in EntryType
    <3>1. \A i \in asked : FrameAt(s, i) \in Compositions \X Nat
      BY <2>4, <2>7, FramesOfTheWindow
    <3>2. QED
      BY <2>4, <3>1 DEF EntryType, Shaped
  <2>9. /\ DOMAIN frames = DOMAIN s.cache.frames \cup unread
        /\ \A i \in unread : frames[i] = Entry(i, FALSE)
        /\ \A i \in DOMAIN s.cache.frames \ unread : frames[i] = s.cache.frames[i]
    OBVIOUS
  <2>10. \A i \in asked, decoded \in BOOLEAN :
           /\ Entry(i, decoded).generation = s.generation
           /\ Entry(i, decoded).reduce = s.reduce
           /\ Entry(i, decoded).from = FrameAt(s, i)
    OBVIOUS
  <2> HIDE DEF frames, Entry
  <2>11. /\ t.timeline = s.timeline /\ t.queued = s.queued /\ t.eof = s.eof
         /\ t.current_frame = s.current_frame /\ t.needs_publish = s.needs_publish
         /\ t.playing = s.playing /\ t.reduce = s.reduce /\ t.display = s.display
         /\ t.clock = s.clock /\ t.due = s.due /\ t.generation = s.generation
         /\ t.shown = s.shown /\ t.unshown = s.unshown
    BY <2>5 DEF Kept, PlayerFields
  <2>12. \A i : FrameAt(t, i) = FrameAt(s, i) /\ FramesAhead(t) = FramesAhead(s)
    BY <2>11 DEF FrameAt, FramesAhead
  <2>13. Shaped(t)
    <3>1. t.in_flight \subseteq Nat
      BY <2>4, <2>5, <2>7 DEF waiting, Shaped
    <3>2. QED
      BY <2>4, <2>5, <2>11, <3>1 DEF Shaped, Kept
  <2>14. Placed(t) /\ Timed(t) /\ Shows(t)
    BY <2>4, <2>11 DEF Placed, Timed, Shows
  <2>15. Cached(t)
    <3>1. ASSUME NEW i \in DOMAIN frames
          PROVE  /\ i \in Nat /\ i < FramesAhead(s) /\ frames[i] \in EntryType
                 /\ frames[i].from = FrameAt(s, i)
                 /\ frames[i].generation <= s.generation
      <4>1. CASE i \in unread /\ frames[i] = Entry(i, FALSE)
        <5>1. s.generation <= s.generation
          BY <2>4 DEF Shaped
        <5>2. QED
          BY <2>6, <2>7, <2>8, <2>10, <4>1, <5>1
      <4>2. CASE i \in DOMAIN s.cache.frames /\ frames[i] = s.cache.frames[i]
        BY <2>4, <4>2 DEF Cached
      <4>3. QED
        BY <2>9, <4>1, <4>2
    <3>2. QED
      BY <2>4, <2>5, <2>11, <2>12, <3>1 DEF Cached
  <2>16. ASSUME NEW job \in jobs' \ jobs
         PROVE  /\ job.index \in asked \ unread
                /\ job = [index |-> job.index, entry |-> Entry(job.index, TRUE)]
    <3>1. PICK i \in asked \ unread : job = [index |-> i, entry |-> Entry(i, TRUE)]
      BY <2>3
    <3>2. QED
      BY <3>1
  <2>17. JobsInv(t, jobs')
    <3>1. ASSUME NEW job \in jobs'
          PROVE  /\ job \in [index : Nat, entry : EntryType]
                 /\ job.index < FramesAhead(s)
                 /\ job.entry.from = FrameAt(s, job.index)
                 /\ s.cache.dropped_before <= job.entry.generation
                 /\ job.entry.generation <= s.generation
                 /\ job.entry.generation = s.generation => job.entry.reduce = s.reduce
      <4>1. CASE job \in jobs
        BY <2>4, <4>1 DEF JobsInv
      <4>2. CASE job \notin jobs
        <5>1. PICK i \in asked : job = [index |-> i, entry |-> Entry(i, TRUE)]
          BY <2>16, <4>2
        <5>2. job.index = i /\ job.entry = Entry(i, TRUE)
          BY <5>1
        <5>3. s.cache.dropped_before <= s.generation /\ s.generation <= s.generation
          BY <2>4 DEF Shaped
        <5>4. i \in Nat /\ i < FramesAhead(s) /\ Entry(i, TRUE) \in EntryType
          BY <2>7, <2>8
        <5>5. QED
          BY <2>10, <5>1, <5>2, <5>3, <5>4
      <4>3. QED
        BY <4>1, <4>2
    <3>2. QED
      BY <2>4, <2>5, <2>11, <2>12, <3>1 DEF JobsInv
  <2>18. InFlightInv(t, jobs')
    <3> SUFFICES ASSUME NEW i \in t.in_flight, i >= s.current_frame
                 PROVE  OnItsWay(t, jobs', i)
      BY <2>11 DEF InFlightInv
    <3>1. CASE i \in unread
      <4>1. i \in DOMAIN frames /\ frames[i] = Entry(i, FALSE)
        BY <2>9, <3>1
      <4>2. /\ Entry(i, FALSE).generation = s.generation
            /\ Entry(i, FALSE).reduce = s.reduce
        BY <2>6, <2>10, <3>1
      <4>3. i \in DOMAIN t.cache.frames /\ t.cache.frames[i] = Entry(i, FALSE)
        BY <2>5, <4>1
      <4>4. QED
        BY <2>11, <4>2, <4>3 DEF OnItsWay
    <3>2. CASE i \in asked \ unread
      <4>1. PICK job : job = [index |-> i, entry |-> Entry(i, TRUE)]
        OBVIOUS
      <4>2. job \in jobs' /\ job.index = i /\ job.entry.generation = s.generation
        BY <2>3, <2>10, <3>2, <4>1
      <4>3. QED
        BY <2>11, <4>2 DEF OnItsWay
    <3>3. CASE i \in waiting /\ i \notin unread
      <4>1. OnItsWay(s, jobs, i)
        BY <2>4, <3>3 DEF waiting, InFlightInv
      <4>2. jobs \subseteq jobs'
        BY <2>3
      <4>3. QED
        BY <2>5, <2>9, <2>11, <3>3, <4>1, <4>2 DEF OnItsWay
    <3>4. QED
      BY <2>5, <3>1, <3>2, <3>3
  <2>19. QED
    BY <2>1, <2>13, <2>14, <2>15, <2>17, <2>18 DEF Consistent, Good
<1>3. QED
  BY <1>1, <1>2 DEF Pump

(* An answer is taken for the frame it names, and no older one replaces it. *)
LEMMA DecodeFinishedStep ==
  ASSUME Consistent(player, jobs), NEW job \in jobs, NEW decoded \in BOOLEAN,
         DecodeFinished(job, decoded)
  PROVE  Consistent(player, jobs)'
<1>1. PICK s, t : s = player /\ t = player'
  OBVIOUS
<1> DEFINE entry == [job.entry EXCEPT !.decoded = decoded]
           index == job.index
           kept == Store(s.cache, index, entry)
<1>2. /\ Shaped(s) /\ Placed(s) /\ Cached(s) /\ Shows(s) /\ Timed(s)
      /\ JobsInv(s, jobs) /\ InFlightInv(s, jobs)
  BY <1>1 DEF Consistent, Good
<1>3. jobs' = jobs \ {job} /\ t = [s EXCEPT !.cache = kept]
  BY <1>1 DEF DecodeFinished
<1>4. /\ job.entry \in EntryType /\ index \in Nat /\ index < FramesAhead(s)
      /\ job.entry.from = FrameAt(s, index)
      /\ s.cache.dropped_before <= job.entry.generation
      /\ job.entry.generation <= s.generation /\ job.entry.generation \in Nat
      /\ job.entry.generation = s.generation => job.entry.reduce = s.reduce
      /\ s.timeline # None
  BY <1>2 DEF JobsInv, EntryType
<1>5. /\ entry \in EntryType /\ entry.from = FrameAt(s, index)
      /\ entry.generation = job.entry.generation /\ entry.reduce = job.entry.reduce
  BY <1>4 DEF EntryType
<1>6. /\ DOMAIN kept = CacheFields /\ kept.dropped_before = s.cache.dropped_before
      /\ kept.rerendered_from = s.cache.rerendered_from
  BY <1>2 DEF Store, CacheFields, Shaped
<1>7. \/ /\ index \in DOMAIN s.cache.frames /\ kept = s.cache
         /\ ~(s.cache.frames[index].generation <= entry.generation)
      \/ /\ kept.frames = [i \in DOMAIN s.cache.frames \cup {index} |->
                            IF i = index THEN entry ELSE s.cache.frames[i]]
         /\ index \in DOMAIN s.cache.frames
              => s.cache.frames[index].generation <= entry.generation
  <2>1. Accepts(s.cache, entry.generation)
    BY <1>2, <1>4, <1>5 DEF Accepts, Shaped
  <2> HIDE DEF entry, index
  <2>2. QED
    BY <1>2, <2>1 DEF Store, Shaped, CacheFields
<1> HIDE DEF entry, index, kept
<1>8. Kept(s, t, {"cache"}) /\ t.cache = kept
  BY <1>2, <1>3 DEF Kept, PlayerFields, Shaped
<1>9. /\ t.timeline = s.timeline /\ t.queued = s.queued /\ t.eof = s.eof
      /\ t.current_frame = s.current_frame /\ t.needs_publish = s.needs_publish
      /\ t.playing = s.playing /\ t.reduce = s.reduce /\ t.display = s.display
      /\ t.clock = s.clock /\ t.due = s.due /\ t.generation = s.generation
      /\ t.shown = s.shown /\ t.unshown = s.unshown /\ t.in_flight = s.in_flight
  BY <1>8 DEF Kept, PlayerFields
<1>10. \A i : FrameAt(t, i) = FrameAt(s, i) /\ FramesAhead(t) = FramesAhead(s)
  BY <1>9 DEF FrameAt, FramesAhead
<1>11. Shaped(t)
  BY <1>2, <1>6, <1>8, <1>9 DEF Shaped, Kept
<1>12. Placed(t) /\ Timed(t) /\ Shows(t)
  BY <1>2, <1>9 DEF Placed, Timed, Shows
<1>13. /\ \A i \in DOMAIN kept.frames :
            \/ i = index /\ kept.frames[i] = entry
            \/ i \in DOMAIN s.cache.frames /\ kept.frames[i] = s.cache.frames[i]
       /\ \A i \in DOMAIN s.cache.frames : i \in DOMAIN kept.frames
  BY <1>7
<1>14. Cached(t)
  <2>1. ASSUME NEW i \in DOMAIN kept.frames
        PROVE  /\ i \in Nat /\ i < FramesAhead(s) /\ kept.frames[i] \in EntryType
               /\ kept.frames[i].from = FrameAt(s, i)
               /\ kept.frames[i].generation <= s.generation
    <3>1. CASE i = index /\ kept.frames[i] = entry
      BY <1>4, <1>5, <3>1 DEF index
    <3>2. CASE i \in DOMAIN s.cache.frames /\ kept.frames[i] = s.cache.frames[i]
      BY <1>2, <3>2 DEF Cached
    <3>3. QED
      BY <1>13, <3>1, <3>2
  <2>2. QED
    BY <1>4, <1>8, <1>9, <1>10, <2>1 DEF Cached
<1>15. JobsInv(t, jobs')
  BY <1>2, <1>3, <1>4, <1>6, <1>8, <1>9, <1>10 DEF JobsInv
<1>16. InFlightInv(t, jobs')
  <2> SUFFICES ASSUME NEW i \in s.in_flight, i >= s.current_frame
               PROVE  OnItsWay(t, jobs', i)
    BY <1>9 DEF InFlightInv
  <2>1. OnItsWay(s, jobs, i)
    BY <1>2 DEF InFlightInv
  <2>2. CASE /\ i \in DOMAIN s.cache.frames
             /\ s.cache.frames[i].generation = s.generation
             /\ s.cache.frames[i].reduce = s.reduce
    <3>1. CASE kept.frames[i] = s.cache.frames[i]
      BY <1>8, <1>9, <1>13, <2>2, <3>1 DEF OnItsWay
    <3>2. CASE kept.frames[i] # s.cache.frames[i]
      <4>1. i = index /\ kept.frames[i] = entry
            /\ s.cache.frames[index].generation <= entry.generation
        BY <1>7, <2>2, <3>2
      <4>2. entry.generation = s.generation
        BY <1>2, <1>4, <1>5, <2>2, <4>1 DEF Shaped
      <4>3. entry.reduce = s.reduce
        BY <1>4, <1>5, <4>2
      <4>4. QED
        BY <1>8, <1>9, <1>13, <2>2, <4>1, <4>2, <4>3 DEF OnItsWay
    <3>3. QED
      BY <3>1, <3>2
  <2>3. CASE \E other \in jobs : other.index = i /\ other.entry.generation = s.generation
    <3>1. PICK other \in jobs : other.index = i /\ other.entry.generation = s.generation
      BY <2>3
    <3>2. CASE other # job
      BY <1>3, <1>9, <3>1, <3>2 DEF OnItsWay
    <3>3. CASE other = job
      <4>1. i = index /\ entry.generation = s.generation /\ entry.reduce = s.reduce
        BY <1>4, <1>5, <3>1, <3>3 DEF index
      <4>2. index \in DOMAIN s.cache.frames
              => s.cache.frames[index].generation <= entry.generation
        BY <1>2, <4>1 DEF Cached
      <4>3. index \in DOMAIN kept.frames /\ kept.frames[index] = entry
        BY <1>7, <4>2
      <4>4. QED
        BY <1>8, <1>9, <4>1, <4>3 DEF OnItsWay
    <3>4. QED
      BY <3>2, <3>3
  <2>4. QED
    BY <2>1, <2>2, <2>3 DEF OnItsWay
<1>17. QED
  BY <1>1, <1>11, <1>12, <1>14, <1>15, <1>16 DEF Consistent, Good

LEMMA ClockAdvancesStep ==
  ASSUME Consistent(player, jobs), ClockAdvances
  PROVE  Consistent(player, jobs)'
<1>1. PICK s, t : s = player /\ t = player'
  OBVIOUS
<1>2. Good(s) /\ s.due \in Nat /\ s.current_frame \in Nat
  BY <1>1 DEF Consistent, Good, Shaped
<1>3. t = [s EXCEPT !.due = s.due + 1] /\ jobs' = jobs
  BY <1>1 DEF ClockAdvances
<1>4. Kept(s, t, {"due"}) /\ t.due = s.due + 1
  BY <1>2, <1>3 DEF Kept, PlayerFields, Good, Shaped
<1>5. /\ t.playing = s.playing /\ t.eof = s.eof /\ t.clock = s.clock
      /\ t.timeline = s.timeline /\ t.current_frame = s.current_frame
  BY <1>4 DEF Kept, PlayerFields
<1>6. Kept(s, t, {"playing", "eof", "clock", "due"})
  BY <1>4 DEF Kept
<1>7. t.due \in Nat /\ Timed(t)
  BY <1>2, <1>4, <1>5 DEF Good, Timed
<1>8. Good(t)
  BY <1>2, <1>5, <1>6, <1>7, OnlyTheClock DEF Good, Shaped, Placed
<1>9. QED
  BY <1>1, <1>3, <1>6, <1>8, ClockedJobs DEF Consistent

-----------------------------------------------------------------------------
(* The commands.                                                           *)

LEMMA LoadStep ==
  ASSUME Consistent(player, jobs), NEW source \in ClockSources,
         Stop(source) \/ \E c \in Compositions : Load(c, source)
  PROVE  Consistent(player, jobs)'
<1>1. Shaped(player) /\ DiscardQueuedJobs
  BY DEF Consistent, Good, Stop, Load
<1>2. PICK t : t = player'
  OBVIOUS
<1>3. Good(t) /\ Refuses(player, t)
  <2>1. CASE t = StopPlayer(player, source)
    BY <1>1, <2>1, StopIsGood
  <2>2. CASE \E c \in Compositions : t = LoadComposition(player, c, source)
    BY <1>1, <2>2, LoadIsGood
  <2>3. QED
    BY <1>2, <2>1, <2>2 DEF Stop, Load
<1>4. QED
  BY <1>1, <1>2, <1>3, Discarded

LEMMA QueueStep ==
  ASSUME Consistent(player, jobs),
         DropQueued \/ \E c \in Compositions : QueueNext(c)
  PROVE  Consistent(player, jobs)'
<1>1. PICK s, t : s = player /\ t = player'
  OBVIOUS
<1>2. Good(s) /\ JobsInv(s, jobs) /\ InFlightInv(s, jobs)
  BY <1>1 DEF Consistent
<1>3. CASE DropQueued
  <2>1. s.queued # None /\ s.timeline # None /\ t = ClearQueued(s) /\ DiscardQueuedJobs
    BY <1>1, <1>2, <1>3 DEF DropQueued, Good, Placed
  <2>2. Good(t) /\ Refuses(s, t)
    BY <1>2, <2>1, ClearQueuedIsGood
  <2>3. QED
    BY <1>1, <2>1, <2>2, Discarded
<1>4. ASSUME NEW c \in Compositions, QueueNext(c)
      PROVE  Consistent(player, jobs)'
  <2>1. /\ s.timeline # None /\ t = [ClearQueued(s) EXCEPT !.queued = c]
        /\ IF s.queued = None THEN UNCHANGED jobs ELSE DiscardQueuedJobs
    BY <1>1, <1>4 DEF QueueNext
  <2>2. /\ Good(t) /\ t.queued = c /\ t.timeline = s.timeline
        /\ s.queued = None => Kept(s, t, {"queued"})
        /\ s.queued # None => Refuses(s, t)
    BY <1>2, <2>1, QueueIsGood
  <2>3. CASE s.queued # None
    BY <1>1, <2>1, <2>2, <2>3, Discarded
  <2>4. CASE s.queued = None
    <3>1. /\ jobs' = jobs /\ t.generation = s.generation /\ t.reduce = s.reduce
          /\ t.in_flight = s.in_flight /\ t.cache = s.cache
          /\ t.current_frame = s.current_frame
      BY <2>1, <2>2, <2>4 DEF Kept, PlayerFields
    <3>2. \A i \in Nat : i < FramesAhead(s) =>
            i < FramesAhead(t) /\ FrameAt(t, i) = FrameAt(s, i)
      <4>1. Shaped(s) /\ Shaped(t) /\ t.timeline # None
        BY <1>2, <2>1, <2>2 DEF Good
      <4>2. FramesAhead(s) = FrameCount[s.timeline] /\ FrameCount[s.timeline] \in Nat
        BY <2>1, <2>4, <4>1, FramesOfTheWindow DEF FramesAhead
      <4>3. FrameCount[s.timeline] <= FramesAhead(t) /\ FramesAhead(t) \in Nat
        BY <2>2, <4>1, FramesOfTheWindow
      <4>4. QED
        BY <2>2, <4>2, <4>3 DEF FrameAt
    <3>3. JobsInv(t, jobs)
      BY <1>2, <2>2, <3>1, <3>2 DEF JobsInv
    <3>4. InFlightInv(t, jobs)
      BY <1>2, <3>1 DEF InFlightInv, OnItsWay
    <3>5. QED
      BY <1>1, <2>2, <3>1, <3>3, <3>4 DEF Consistent
  <2>5. QED
    BY <2>3, <2>4
<1>5. QED
  BY <1>3, <1>4

LEMMA PlayStep ==
  ASSUME Consistent(player, jobs), NEW source \in ClockSources,
         RestartSound(source) \/ \E paused \in BOOLEAN : SetPaused(paused, source)
  PROVE  Consistent(player, jobs)'
<1>1. PICK s, t : s = player /\ t = player'
  OBVIOUS
<1>2. Good(s) /\ JobsInv(s, jobs) /\ InFlightInv(s, jobs)
  BY <1>1 DEF Consistent
<1>3. source \in {"wall", "sound"}
  BY PlayerAssumption
<1>4. CASE /\ UNCHANGED jobs
           /\ t = Pause(s) \/ (s.playing /\ t = NewClock(s, source))
  <2>1. Good(t) /\ Kept(s, t, {"playing", "eof", "clock", "due"})
    BY <1>2, <1>3, <1>4, PauseIsGood, NewClockIsGood
  <2>2. QED
    BY <1>1, <1>2, <1>4, <2>1, ClockedJobs DEF Consistent
<1>5. CASE /\ s.timeline # None /\ t = Play(s, source)
           /\ IF s.eof THEN DiscardQueuedJobs ELSE UNCHANGED jobs
  <2>2. CASE s.eof
    <3>1. Good(t) /\ Refuses(s, t)
      BY <1>2, <1>5, <2>2, PlayIsGood
    <3>2. QED
      BY <1>1, <1>5, <2>2, <3>1, Discarded
  <2>3. CASE ~s.eof
    <3>1. Good(t) /\ Kept(s, t, {"playing", "eof", "clock", "due"})
      BY <1>2, <1>5, <2>3, PlayIsGood
    <3>2. QED
      BY <1>1, <1>2, <1>5, <2>3, <3>1, ClockedJobs DEF Consistent
  <2>4. QED
    BY <2>2, <2>3
<1>6. QED
  BY <1>1, <1>4, <1>5 DEF RestartSound, SetPaused

LEMMA SeekStep ==
  ASSUME Consistent(player, jobs), NEW source \in ClockSources, NEW f \in SeekTo,
         Seek(f, source) \/ Step(f, source)
  PROVE  Consistent(player, jobs)'
<1>1. player.timeline # None /\ DiscardQueuedJobs /\ f \in Nat
  BY PlayerAssumption DEF Seek, Step
<1>2. PICK t : t = player'
  OBVIOUS
<1>3. CASE t = SeekToFrame(player, f, source)
  BY <1>1, <1>2, <1>3, SeekIsGood, Discarded DEF Consistent
<1>4. CASE t = SeekToFrame(Pause(player), f, source)
  <2>1. PICK x : x = Pause(player)
    OBVIOUS
  <2>2. Good(x) /\ Kept(player, x, {"playing", "eof", "clock", "due"})
    BY <2>1, PauseIsGood DEF Consistent
  <2>3. x.timeline = player.timeline /\ x.generation = player.generation
    BY <2>2 DEF Kept, PlayerFields
  <2>4. Good(t) /\ Refuses(x, t)
    BY <1>1, <1>4, <2>1, <2>2, <2>3, SeekIsGood
  <2>5. QED
    BY <1>1, <1>2, <2>3, <2>4, Discarded DEF Refuses
<1>5. QED
  BY <1>2, <1>3, <1>4 DEF Seek, Step

LEMMA RenderingStep ==
  ASSUME Consistent(player, jobs),
         \/ \E scale \in Scales : SetDecodeScale(scale)
         \/ \E display \in Displays : SetDisplay(display)
  PROVE  Consistent(player, jobs)'
<1>1. PICK s, t : s = player /\ t = player'
  OBVIOUS
<1>2. Good(s) /\ DiscardQueuedJobs
  BY <1>1 DEF Consistent, SetDecodeScale, SetDisplay
<1>3. ASSUME NEW x, Kept(s, x, {"reduce", "display"}),
             x.reduce \in Scales, x.display \in Displays
      PROVE  Good(x) /\ x.generation = s.generation /\ x.timeline = s.timeline
             /\ x.queued = s.queued /\ x.cache = s.cache
  <2>1. /\ x.timeline = s.timeline /\ x.queued = s.queued /\ x.eof = s.eof
        /\ x.current_frame = s.current_frame /\ x.needs_publish = s.needs_publish
        /\ x.playing = s.playing /\ x.clock = s.clock /\ x.due = s.due
        /\ x.generation = s.generation /\ x.in_flight = s.in_flight
        /\ x.shown = s.shown /\ x.unshown = s.unshown /\ x.cache = s.cache
    BY <1>3 DEF Kept, PlayerFields
  <2>2. Shaped(x)
    BY <1>2, <1>3, <2>1 DEF Good, Shaped, Kept
  <2>3. Placed(x) /\ Cached(x) /\ Shows(x) /\ Timed(x)
    BY <1>2, <2>1 DEF Good, Placed, Cached, Shows, Timed, FrameAt, FramesAhead
  <2>4. QED
    BY <2>1, <2>2, <2>3 DEF Good
<1>4. CASE \E scale \in Scales : SetDecodeScale(scale)
  <2>1. PICK scale \in Scales : t = ChangeFrameRendering([s EXCEPT !.reduce = scale])
    BY <1>1, <1>4 DEF SetDecodeScale
  <2>2. PICK x : x = [s EXCEPT !.reduce = scale]
    OBVIOUS
  <2>3. Kept(s, x, {"reduce", "display"}) /\ x.reduce \in Scales /\ x.display \in Displays
    BY <1>2, <2>2 DEF Kept, PlayerFields, Good, Shaped
  <2>4. Good(x) /\ x.generation = s.generation /\ x.timeline = s.timeline
        /\ x.queued = s.queued /\ x.cache = s.cache
    BY <1>3, <2>3
  <2>5. Good(t) /\ Rerenders(x, t)
    BY <2>1, <2>2, <2>4, RerenderIsGood
  <2>6. QED
    BY <1>1, <1>2, <2>4, <2>5, Discarded DEF Rerenders
<1>5. CASE \E display \in Displays : SetDisplay(display)
  <2>1. PICK display \in Displays :
          LET changed == ChangeFrameRendering([s EXCEPT !.display = display])
          IN t = [changed EXCEPT !.cache = RerenderFrom(@, changed.generation)]
    BY <1>1, <1>5 DEF SetDisplay
  <2>2. PICK x : x = [s EXCEPT !.display = display]
    OBVIOUS
  <2>3. PICK y : y = ChangeFrameRendering(x)
    OBVIOUS
  <2>4. Kept(s, x, {"reduce", "display"}) /\ x.reduce \in Scales /\ x.display \in Displays
    BY <1>2, <2>2 DEF Kept, PlayerFields, Good, Shaped
  <2>5. Good(x) /\ x.generation = s.generation /\ x.timeline = s.timeline
        /\ x.queued = s.queued /\ x.cache = s.cache
    BY <1>3, <2>4
  <2>6. Good(y) /\ Rerenders(x, y)
    BY <2>3, <2>5, RerenderIsGood
  <2>7. t = [y EXCEPT !.cache = RerenderFrom(y.cache, y.generation)]
    BY <2>1, <2>2, <2>3
  <2> DEFINE cache == RerenderFrom(y.cache, y.generation)
  <2>8. /\ DOMAIN cache = CacheFields /\ cache.rerendered_from = y.generation
        /\ cache.dropped_before = y.cache.dropped_before
        /\ cache.frames = y.cache.frames
    BY <2>6 DEF RerenderFrom, Good, Shaped, CacheFields
  <2> HIDE DEF cache
  <2>9. Kept(y, t, {"cache"}) /\ t.cache = cache
    BY <2>6, <2>7 DEF Kept, PlayerFields, Good, Shaped, cache
  <2>10. /\ t.timeline = y.timeline /\ t.queued = y.queued /\ t.eof = y.eof
         /\ t.current_frame = y.current_frame /\ t.needs_publish = y.needs_publish
         /\ t.playing = y.playing /\ t.clock = y.clock /\ t.due = y.due
         /\ t.generation = y.generation /\ t.in_flight = y.in_flight
         /\ t.shown = y.shown /\ t.unshown = y.unshown
         /\ t.reduce = y.reduce /\ t.display = y.display
    BY <2>9 DEF Kept, PlayerFields
  <2>11. y.generation \in 0..y.generation
    BY <2>6 DEF Good, Shaped
  <2>12. Shaped(t)
    BY <2>6, <2>8, <2>9, <2>10, <2>11 DEF Good, Shaped, Kept
  <2>13. Placed(t) /\ Cached(t) /\ Shows(t) /\ Timed(t)
    BY <2>6, <2>8, <2>9, <2>10
    DEF Good, Placed, Cached, Shows, Timed, FrameAt, FramesAhead
  <2>14. Rerenders(s, t)
    BY <2>5, <2>6, <2>8, <2>9, <2>10 DEF Rerenders
  <2>15. QED
    BY <1>1, <1>2, <2>12, <2>13, <2>14, Discarded DEF Good
<1>6. QED
  BY <1>4, <1>5

-----------------------------------------------------------------------------
(* Every step keeps the player, its cache and its jobs consistent.         *)

LEMMA PlayerStep ==
  ASSUME Consistent(player, jobs), [Next]_vars
  PROVE  Consistent(player, jobs)'
<1>1. CASE Handle
  BY <1>1, LoadStep, QueueStep, PlayStep, SeekStep, RenderingStep DEF Handle
<1>2. CASE Tick \/ Pump
  BY <1>2, TickStep, PumpStep
<1>3. CASE \E job \in jobs, decoded \in BOOLEAN : DecodeFinished(job, decoded)
  BY <1>3, DecodeFinishedStep
<1>4. CASE ClockAdvances
  BY <1>4, ClockAdvancesStep
<1>5. CASE UNCHANGED vars
  BY <1>5 DEF vars
<1>6. QED
  BY <1>1, <1>2, <1>3, <1>4, <1>5 DEF Next

LEMMA PlayerBegins ==
  ASSUME Init PROVE Consistent(player, jobs)
<1>1. PICK s : s = NewScheduler
  OBVIOUS
<1>2. /\ DOMAIN s = PlayerFields /\ DOMAIN s.cache = CacheFields
      /\ s.timeline = None /\ s.queued = None /\ s.current_frame = 0
      /\ s.needs_publish = FALSE /\ s.playing = FALSE /\ s.eof = FALSE
      /\ s.unshown = FALSE /\ s.reduce = 0 /\ s.display = DefaultDisplay
      /\ s.clock = "none" /\ s.due = 0 /\ s.generation = 0 /\ s.in_flight = {}
      /\ s.cache.dropped_before = 0 /\ s.cache.rerendered_from = 0 /\ s.shown = None
  BY <1>1 DEF NewScheduler, NewCache, PlayerFields, CacheFields
<1>3. s.needs_publish \in BOOLEAN /\ s.playing \in BOOLEAN /\ s.eof \in BOOLEAN
      /\ s.unshown \in BOOLEAN
  BY <1>2
<1>4. Shaped(s)
  BY <1>2, <1>3, PlayerAssumption DEF Shaped
<1>5. PICK source \in ClockSources : player = LoadComposition(s, First, source)
  BY <1>1 DEF Init
<1>6. PICK t : t = player
  OBVIOUS
<1>7. Good(t) /\ Refuses(s, t)
  BY <1>4, <1>5, <1>6, LoadIsGood, PlayerAssumption
<1>8. jobs = {}
  BY DEF Init
<1>9. QED
  BY <1>6, <1>7, <1>8 DEF Consistent, JobsInv, InFlightInv, Refuses

LEMMA AlwaysConsistent == Spec => []Consistent(player, jobs)
<1>1. Init => Consistent(player, jobs)
  BY PlayerBegins
<1>2. Consistent(player, jobs) /\ [Next]_vars => Consistent(player, jobs)'
  BY PlayerStep
<1>3. QED
  BY <1>1, <1>2, PTL DEF Spec
-----------------------------------------------------------------------------
(* What the player promises.                                               *)

(* However late a worker answers, the picture the cache holds under an     *)
(* index is that of the frame the index stands for now: no answer from     *)
(* before a load, a seek or a hand-off gets past dropped_before.           *)
THEOREM CacheNamesItsFrames == Spec => []CacheHoldsTheFramesItNames
<1>1. Consistent(player, jobs) => CacheHoldsTheFramesItNames
  BY DEF Consistent, Good, Cached, CacheHoldsTheFramesItNames
<1>2. QED
  BY <1>1, AlwaysConsistent, PTL

(* Whatever is loaded shows its current frame, has it still to publish, or *)
(* found that its decode failed.                                           *)
THEOREM CurrentFrameIsShown == Spec => []ScreenShowsTheCurrentFrame
<1>1. Consistent(player, jobs) => ScreenShowsTheCurrentFrame
  BY DEF Consistent, Good, Shows, ScreenShowsTheCurrentFrame
<1>2. QED
  BY <1>1, AlwaysConsistent, PTL

(* The picture never runs ahead of the clock, whatever is sought, queued   *)
(* and renumbered, and a player has a clock exactly while it plays.        *)
THEOREM PictureWaitsForTheClock == Spec => []NeverAheadOfTheClock
<1>1. ASSUME Consistent(player, jobs) PROVE NeverAheadOfTheClock
  <2>1. /\ player.playing \in BOOLEAN
        /\ player.playing <=> player.clock # "none"
    BY <1>1 DEF Consistent, Good, Shaped, Placed
  <2>2. player.playing = (player.clock # "none")
    BY <2>1
  <2>3. player.playing => player.current_frame <= player.due /\ player.timeline # None
    BY <1>1 DEF Consistent, Good, Placed, Timed
  <2>4. QED
    BY <2>2, <2>3 DEF NeverAheadOfTheClock
<1>2. QED
  BY <1>1, AlwaysConsistent, PTL

(* A frame the pump no longer asks for is held as it would be made now, or *)
(* its job is in the pool: a discarded queue, a change of scale or display *)
(* and a refused answer leave nothing in flight that never comes.          *)
THEOREM NothingAwaitedIsLost == Spec => []InFlightIsOnItsWay
<1>1. ASSUME Consistent(player, jobs) PROVE InFlightIsOnItsWay
  <2> SUFFICES ASSUME NEW i \in player.in_flight, i >= player.current_frame
               PROVE  \/ HoldsAt(player.cache, i, player.reduce)
                      \/ \E job \in jobs : /\ job.index = i
                                           /\ job.entry.generation = player.generation
                                           /\ job.entry.reduce = player.reduce
    BY DEF InFlightIsOnItsWay
  <2>1. OnItsWay(player, jobs, i)
    BY <1>1 DEF Consistent, InFlightInv
  <2>2. player.generation >= player.cache.rerendered_from
    BY <1>1 DEF Consistent, Good, Shaped
  <2>3. \A job \in jobs : job.entry.generation = player.generation
                            => job.entry.reduce = player.reduce
    BY <1>1 DEF Consistent, JobsInv
  <2>4. QED
    BY <2>1, <2>2, <2>3 DEF OnItsWay, HoldsAt
<1>2. QED
  BY <1>1, AlwaysConsistent, PTL

\* The loop's own place, which every command hands back to the tick.
LoopInv == pc \in {"tick", "pump", "wait"} /\ commands \in 0..MaxCommands

LEMMA AlwaysInTheLoop == Spec => []LoopInv
<1>1. Init => LoopInv
  BY PlayerAssumption DEF Init, LoopInv
<1>2. LoopInv /\ [Next]_vars => LoopInv'
  <2> SUFFICES ASSUME LoopInv, [Next]_vars PROVE LoopInv'
    OBVIOUS
  <2>1. CASE Handle
    <3>1. Command
      BY <2>1 DEF Handle, Load, Stop, SetPaused, Seek, Step, RestartSound,
                  QueueNext, DropQueued, SetDecodeScale, SetDisplay
    <3>2. QED
      BY <3>1, PlayerAssumption DEF Command, LoopInv
  <2>2. CASE Tick
    BY <2>2 DEF Tick, LoopInv
  <2>3. CASE Pump
    BY <2>3 DEF Pump, LoopInv
  <2>4. CASE \E job \in jobs, decoded \in BOOLEAN : DecodeFinished(job, decoded)
    BY <2>4 DEF DecodeFinished, LoopInv
  <2>5. CASE ClockAdvances
    BY <2>5 DEF ClockAdvances, LoopInv
  <2>6. CASE UNCHANGED vars
    BY <2>6 DEF vars, LoopInv
  <2>7. QED
    BY <2>1, <2>2, <2>3, <2>4, <2>5, <2>6 DEF Next
<1>3. QED
  BY <1>1, <1>2, PTL DEF Spec

(* Every field of the scheduler, every entry of its cache and every job of *)
(* the pool keeps its type.                                                *)
THEOREM PlayerTypes == Spec => []PlayerTypeOK
<1>1. ASSUME Consistent(player, jobs), LoopInv PROVE PlayerTypeOK
  <2>1. Shaped(player) /\ Cached(player) /\ JobsInv(player, jobs)
    BY <1>1 DEF Consistent, Good
  <2>2. {player.needs_publish, player.playing, player.eof, player.unshown}
          \subseteq BOOLEAN
    BY <2>1 DEF Shaped
  <2>3. player.cache.dropped_before \in Nat /\ player.cache.rerendered_from \in Nat
    BY <2>1 DEF Shaped
  <2>4. jobs \subseteq [index : Nat, entry : EntryType]
    BY <2>1 DEF JobsInv
  <2>5. /\ DOMAIN player.cache.frames \subseteq Nat
        /\ \A i \in DOMAIN player.cache.frames : player.cache.frames[i] \in EntryType
    BY <2>1 DEF Cached
  <2>6. QED
    BY <1>1, <2>1, <2>2, <2>3, <2>4, <2>5 DEF Shaped, LoopInv, PlayerTypeOK
<1>2. QED
  BY <1>1, AlwaysConsistent, AlwaysInTheLoop, PTL
=============================================================================
