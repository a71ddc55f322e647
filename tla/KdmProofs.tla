------------------------------ MODULE KdmProofs ------------------------------
(***************************************************************************)
(* Proofs about the distribution of keys, for any cinemas, messages,       *)
(* bookings and number of overlapping refreshes.  First the feeds: the     *)
(* state the database holds never claims a message that was not saved, and *)
(* a cinema goes back to an older message only where a feed state could    *)
(* not be saved.  Then the bookings and issued  *)
(* KDMs: a booked screen never disappears, and one that is not pending has *)
(* a KDM for the certificates and the terms of now.                        *)
(***************************************************************************)
EXTENDS KdmDistribution, FiniteSetTheorems, SequenceTheorems, TLAPS

Active == {"fetching", "fetched", "saving"}

Messages == [facility : Facilities, version : Nat]

Refreshes == [phase : Active, previous : FeedStates, left : Seq(Facilities),
              flms : Seq(Messages), next : FeedStates]

FeedTyped ==
  /\ listed \in [Facilities -> Instants] /\ cinemas \in [Facilities -> Instants]
  /\ \A f \in Facilities : listed[f] \in 1..Len(Flm[f]) /\ cinemas[f] <= listed[f]
  /\ feed \in FeedStates /\ unrecorded \subseteq Facilities
  /\ DOMAIN run = Runs
  /\ \A r \in Runs : run[r] = Idle \/ run[r] \in Refreshes

\* One at a time has the database: an issue or the refresh that saves.
OneHolder ==
  /\ \A r \in Runs : run[r].phase = "saving" => issuing = <<>>
  /\ \A r, q \in Runs : run[r].phase = "saving" /\ run[q].phase = "saving" => r = q

\* Messages of which each facility has one at most.
OnePerFacility(flms) ==
  \A i, j \in DOMAIN flms : flms[i].facility = flms[j].facility => i = j

(* What one refresh has to fetch and to save: each facility at most once,  *)
(* and only where the instant of the list is newer than the one last       *)
(* saved.                                                                  *)
WorkInv(x) ==
  /\ IsInjective(x.left)
  /\ x.left = <<>> <=> x.phase # "fetching"
  /\ OnePerFacility(x.flms)
  /\ \A m \in ToSet(x.flms) :
       /\ m.facility \notin ToSet(x.left)
       /\ x.next.modified[m.facility] <= m.version
       /\ m.version \in 1..listed[m.facility]
       /\ x.previous.modified[m.facility] < x.next.modified[m.facility]
  /\ \A f \in ToSet(x.left) : x.previous.modified[f] < x.next.modified[f]

\* The facilities whose messages are still to be saved.
ToSave(x) == {m.facility : m \in ToSet(x.flms)}

(* The instants a refresh goes by: it began at a state that is now the     *)
(* feed's or older, and what it will claim is saved or still to be.  Until *)
(* it is let in, what it claims beyond that state is all still to be saved. *)
InstantsInv(x) ==
  \A f \in Facilities :
    /\ x.previous.modified[f] <= feed.modified[f]
    /\ x.previous.modified[f] <= x.next.modified[f]
    /\ x.next.modified[f] <= listed[f]
    /\ \/ x.next.modified[f] <= cinemas[f]
       \/ f \in ToSet(x.left) \cup ToSave(x)
    /\ x.phase # "saving" =>
         \/ x.next.modified[f] = x.previous.modified[f]
         \/ f \in ToSet(x.left) \cup ToSave(x)

(* The check of apply_feed_refresh: a refresh that holds an older message  *)
(* than the database does began before a state that was saved since, or    *)
(* that the refresh now saving will save; unless the state that belongs to *)
(* the newer message could not be saved.                                   *)
SavedSince(x, f) ==
  \/ x.previous.modified[f] < feed.modified[f]
  \/ \E w \in Runs :
       /\ run[w].phase = "saving" /\ f \notin ToSave(run[w])
       /\ x.previous.modified[f] < run[w].next.modified[f]

OvertakenInv(x) ==
  /\ x.phase # "saving" =>
       \A m \in ToSet(x.flms) :
         \/ cinemas[m.facility] <= m.version
         \/ m.facility \in unrecorded
         \/ SavedSince(x, m.facility)
  /\ x.phase = "saving" =>
       /\ x.previous = feed
       /\ \A m \in ToSet(x.flms) :
            cinemas[m.facility] <= m.version \/ m.facility \in unrecorded

RunInv(x) == WorkInv(x) /\ InstantsInv(x) /\ OvertakenInv(x)

FeedInv ==
  /\ FeedTyped
  /\ OneHolder
  /\ \A f \in Facilities : feed.modified[f] <= cinemas[f]
  /\ \A r \in Runs : run[r] # Idle => RunInv(run[r])

-----------------------------------------------------------------------------
(* The sequences of a refresh.                                             *)

(* A finite set listed as a sequence, each member once.                    *)
LEMMA SetListed ==
  ASSUME NEW S, IsFiniteSet(S)
  PROVE  /\ SetToSeq(S) \in Seq(S) /\ IsInjective(SetToSeq(S))
         /\ ToSet(SetToSeq(S)) = S /\ Len(SetToSeq(S)) = Cardinality(S)
<1> DEFINE n == Cardinality(S)
           s == SetToSeq(S)
<1>1. n \in Nat /\ ExistsBijection(1..n, S)
  BY FS_CardinalityType
<1>2. PICK f \in [1..n -> S] : IsInjective(f)
  BY <1>1 DEF ExistsBijection, Bijection, Injection
<1>3. s \in [1..n -> S] /\ IsInjective(s)
  BY <1>2 DEF SetToSeq
<1>4. s \in Injection(1..n, S) /\ IsFiniteSet(1..n) /\ Cardinality(1..n) = n
  BY <1>1, <1>3, FS_Interval DEF Injection
<1>5. s \in Surjection(1..n, S)
  BY <1>4, FS_Injection
<1>6. ToSet(s) = S
  BY <1>3, <1>5 DEF ToSet, Surjection
<1>7. QED
  BY <1>1, <1>3, <1>6

(* The head and the tail of a sequence, as sets.                           *)
LEMMA HeadAndTail ==
  ASSUME NEW S, NEW s \in Seq(S), s # <<>>
  PROVE  /\ Head(s) \in S /\ Tail(s) \in Seq(S)
         /\ ToSet(s) = {Head(s)} \cup ToSet(Tail(s))
         /\ IsInjective(s) => IsInjective(Tail(s)) /\ Head(s) \notin ToSet(Tail(s))
<1>1. /\ Len(s) \in Nat \ {0} /\ DOMAIN s = 1..Len(s)
      /\ Head(s) = s[1] /\ Head(s) \in S /\ Tail(s) \in Seq(S)
      /\ DOMAIN Tail(s) = 1..(Len(s) - 1)
      /\ \A i \in 1..(Len(s) - 1) : Tail(s)[i] = s[i + 1]
  BY HeadTailProperties, LenProperties, EmptySeq
<1>2. \A i \in 1..Len(s) : i = 1 \/ i - 1 \in 1..(Len(s) - 1)
  BY <1>1
<1>3. \A i \in 1..(Len(s) - 1) : i + 1 \in 1..Len(s) /\ i + 1 # 1
  BY <1>1
<1>4. ToSet(s) = {Head(s)} \cup ToSet(Tail(s))
  <2>1. ASSUME NEW i \in 1..Len(s)
        PROVE  s[i] \in {Head(s)} \cup ToSet(Tail(s))
    <3>1. CASE i = 1
      BY <1>1, <3>1
    <3>2. CASE i # 1
      <4>1. i - 1 \in 1..(Len(s) - 1) /\ (i - 1) + 1 = i
        BY <1>2, <3>2
      <4>2. Tail(s)[i - 1] = s[i]
        BY <1>1, <4>1
      <4>3. QED
        BY <1>1, <4>1, <4>2 DEF ToSet
    <3>3. QED
      BY <3>1, <3>2
  <2>2. Head(s) \in ToSet(s) /\ ToSet(Tail(s)) \subseteq ToSet(s)
    BY <1>1, <1>3 DEF ToSet
  <2>3. ToSet(s) \subseteq {Head(s)} \cup ToSet(Tail(s))
    BY <1>1, <2>1 DEF ToSet
  <2>4. QED
    BY <2>2, <2>3
<1>5. ASSUME IsInjective(s)
      PROVE  IsInjective(Tail(s)) /\ Head(s) \notin ToSet(Tail(s))
  <2>1. \A i, j \in 1..Len(s) : s[i] = s[j] => i = j
    BY <1>1, <1>5 DEF IsInjective
  <2>2. \A i, j \in 1..(Len(s) - 1) : Tail(s)[i] = Tail(s)[j] => i = j
    <3> SUFFICES ASSUME NEW i \in 1..(Len(s) - 1), NEW j \in 1..(Len(s) - 1),
                        Tail(s)[i] = Tail(s)[j]
                 PROVE  i = j
      OBVIOUS
    <3>1. i + 1 = j + 1
      BY <1>1, <1>3, <2>1
    <3>2. QED
      BY <3>1
  <2>3. \A i \in 1..(Len(s) - 1) : Tail(s)[i] # Head(s)
    BY <1>1, <1>3, <2>1
  <2>4. QED
    BY <1>1, <2>2, <2>3 DEF IsInjective, ToSet
<1>6. QED
  BY <1>1, <1>4, <1>5

LEMMA Appended ==
  ASSUME NEW S, NEW s \in Seq(S), NEW e \in S
  PROVE  /\ Append(s, e) \in Seq(S) /\ ToSet(Append(s, e)) = ToSet(s) \cup {e}
         /\ DOMAIN Append(s, e) = 1..(Len(s) + 1)
         /\ \A i \in 1..Len(s) : Append(s, e)[i] = s[i]
         /\ Append(s, e)[Len(s) + 1] = e
<1>1. /\ Len(s) \in Nat /\ DOMAIN s = 1..Len(s) /\ Append(s, e) \in Seq(S)
      /\ DOMAIN Append(s, e) = 1..(Len(s) + 1)
      /\ \A i \in 1..Len(s) : Append(s, e)[i] = s[i] /\ i \in 1..(Len(s) + 1)
      /\ Append(s, e)[Len(s) + 1] = e /\ Len(s) + 1 \in 1..(Len(s) + 1)
      /\ \A i \in 1..(Len(s) + 1) : i \in 1..Len(s) \/ i = Len(s) + 1
  BY AppendProperties, LenProperties
<1>2. QED
  BY <1>1 DEF ToSet

LEMMA FirstFlm ==
  ASSUME NEW flms \in Seq(Messages), flms # <<>>, OnePerFacility(flms)
  PROVE  /\ Head(flms) \in Messages /\ Tail(flms) \in Seq(Messages)
         /\ ToSet(flms) = {Head(flms)} \cup ToSet(Tail(flms))
         /\ OnePerFacility(Tail(flms))
         /\ \A m \in ToSet(Tail(flms)) : m.facility # Head(flms).facility
<1>1. /\ Head(flms) \in Messages /\ Tail(flms) \in Seq(Messages)
      /\ ToSet(flms) = {Head(flms)} \cup ToSet(Tail(flms))
  BY HeadAndTail
<1>2. /\ Len(flms) \in Nat \ {0} /\ DOMAIN flms = 1..Len(flms)
      /\ Head(flms) = flms[1] /\ DOMAIN Tail(flms) = 1..(Len(flms) - 1)
      /\ \A i \in 1..(Len(flms) - 1) : Tail(flms)[i] = flms[i + 1]
  BY HeadTailProperties, LenProperties, EmptySeq
<1>3. \A i \in 1..(Len(flms) - 1) : i + 1 \in 1..Len(flms) /\ i + 1 # 1
  BY <1>2
<1>4. OnePerFacility(Tail(flms))
  <2> SUFFICES ASSUME NEW i \in 1..(Len(flms) - 1), NEW j \in 1..(Len(flms) - 1),
                      Tail(flms)[i].facility = Tail(flms)[j].facility
               PROVE  i = j
    BY <1>2 DEF OnePerFacility
  <2>1. i + 1 = j + 1
    BY <1>2, <1>3 DEF OnePerFacility
  <2>2. QED
    BY <2>1
<1>5. \A i \in 1..(Len(flms) - 1) : Tail(flms)[i].facility # Head(flms).facility
  <2> SUFFICES ASSUME NEW i \in 1..(Len(flms) - 1)
               PROVE  flms[i + 1].facility # flms[1].facility
    BY <1>2
  <2>1. QED
    BY <1>2, <1>3 DEF OnePerFacility
<1>6. QED
  BY <1>1, <1>2, <1>4, <1>5 DEF ToSet

-----------------------------------------------------------------------------
(* The instants are versions, and a refresh counts them.                   *)
LEMMA InstantsAreVersions ==
  /\ Instants \subseteq Nat
  /\ \A f \in Facilities : \A n \in 0..Len(Flm[f]) : n \in Instants
<1>1. \A f \in Facilities : Len(Flm[f]) \in Nat \ {0}
  BY DistributionAssumption
<1>2. QED
  BY <1>1 DEF Instants

LEMMA RefreshFields ==
  ASSUME NEW x \in Refreshes
  PROVE  /\ x.phase \in Active /\ x.left \in Seq(Facilities) /\ x.flms \in Seq(Messages)
         /\ x.previous \in FeedStates /\ x.next \in FeedStates
         /\ x # Idle
BY DEF Refreshes, Active, Idle

LEMMA FeedStateFields ==
  ASSUME NEW s \in FeedStates, NEW f \in Facilities
  PROVE  s.modified[f] \in Nat /\ s.modified \in [Facilities -> Instants]
<1>1. s.modified \in [Facilities -> Instants]
  BY DEF FeedStates
<1>2. QED
  BY <1>1, InstantsAreVersions

LEMMA FeedNumbers ==
  ASSUME FeedTyped, NEW f \in Facilities
  PROVE  listed[f] \in Nat /\ cinemas[f] \in Nat /\ feed.modified[f] \in Nat
         /\ cinemas[f] <= listed[f] /\ Len(Flm[f]) \in Nat /\ listed[f] <= Len(Flm[f])
<1>1. feed \in FeedStates /\ listed[f] \in Instants /\ cinemas[f] \in Instants
      /\ cinemas[f] <= listed[f] /\ listed[f] \in 1..Len(Flm[f])
  BY DEF FeedTyped
<1>2. feed.modified[f] \in Nat
  BY <1>1, FeedStateFields
<1>3. Len(Flm[f]) \in Nat
  BY DistributionAssumption
<1>4. listed[f] \in Nat /\ cinemas[f] \in Nat
  BY <1>1, InstantsAreVersions
<1>5. listed[f] <= Len(Flm[f])
  BY <1>1, <1>3
<1>6. QED
  BY <1>1, <1>2, <1>3, <1>4, <1>5

(* A message that waits to be saved is one of a cinema's versions.         *)
LEMMA FlmFields ==
  ASSUME NEW x \in Refreshes, NEW m \in ToSet(x.flms)
  PROVE  m \in Messages /\ m.facility \in Facilities /\ m.version \in Nat
<1>1. x.flms \in Seq(Messages)
  BY RefreshFields
<1>2. \A i \in DOMAIN x.flms : x.flms[i] \in Messages
  BY <1>1, ElementOfSeq, LenProperties
<1>3. m \in Messages
  BY <1>2 DEF ToSet
<1>4. QED
  BY <1>3 DEF Messages

(* The step of one refresh that does not have the database, nor changes    *)
(* it: the others' invariants do not read it.                              *)
LEMMA OneRefreshSteps ==
  ASSUME FeedInv, NEW r \in Runs, run[r].phase # "saving",
         UNCHANGED <<listed, cinemas, feed, unrecorded, issuing>>,
         DOMAIN run' = Runs, \A q \in Runs \ {r} : run'[q] = run[q],
         run'[r] = Idle \/ (run'[r] \in Refreshes /\ RunInv(run[r])'),
         run'[r].phase = "saving" => DatabaseFree
  PROVE  FeedInv'
<1>1. FeedTyped'
  BY DEF FeedInv, FeedTyped
<1>2. OneHolder'
  <2>1. Idle.phase # "saving"
    BY DEF Idle
  <2>2. QED
    BY <2>1 DEF FeedInv, OneHolder, DatabaseFree
<1>3. ASSUME NEW q \in Runs \ {r}, run[q] # Idle
      PROVE  RunInv(run[q])'
  <2>1. RunInv(run[q]) /\ run'[q] = run[q]
    BY <1>3 DEF FeedInv
  <2>2. WorkInv(run[q])' /\ InstantsInv(run[q])'
    BY <2>1 DEF RunInv, WorkInv, InstantsInv, ToSave
  <2>3. \A f : SavedSince(run[q], f) => SavedSince(run[q], f)'
    BY <2>1 DEF SavedSince, ToSave
  <2>4. OvertakenInv(run[q])'
    BY <2>1, <2>3 DEF RunInv, OvertakenInv
  <2>5. QED
    BY <2>2, <2>4 DEF RunInv
<1>4. QED
  BY <1>1, <1>2, <1>3 DEF FeedInv

LEMMA FetchSiteListStep ==
  ASSUME FeedInv, NEW r \in Runs, FetchSiteList(r)
  PROVE  FeedInv'
<1>1. /\ run[r] = Idle /\ DatabaseFree /\ UNCHANGED <<listed, cinemas, feed, unrecorded, issuing>>
      /\ DOMAIN run = Runs /\ feed \in FeedStates
      /\ listed \in [Facilities -> Instants]
  BY DEF FetchSiteList, databaseVars, FeedInv, FeedTyped
<1>2. \A f \in Facilities :
        /\ feed.modified[f] \in Nat /\ cinemas[f] \in Nat /\ listed[f] \in Nat
        /\ feed.modified[f] <= cinemas[f] /\ cinemas[f] <= listed[f]
  BY FeedNumbers DEF FeedInv
<1>3. run[r].phase # "saving"
  BY <1>1 DEF Idle
<1>4. CASE feed.etag = listed
  <2>1. run' = [run EXCEPT ![r] = Fetching(feed, <<>>, <<>>, feed)]
    BY <1>4 DEF FetchSiteList
  <2>2. /\ DOMAIN run' = Runs /\ \A q \in Runs \ {r} : run'[q] = run[q]
        /\ run'[r] = [phase |-> "fetched", previous |-> feed, left |-> <<>>,
                      flms |-> <<>>, next |-> feed]
    BY <1>1, <2>1 DEF Fetching
  <2>3. run'[r] \in Refreshes
    BY <1>1, <2>2 DEF Refreshes, Active
  <2>4. ToSet(<<>>) = {}
    BY DEF ToSet
  <2>5. WorkInv(run[r])'
    BY <2>2, <2>4 DEF WorkInv, OnePerFacility, IsInjective
  <2>6. InstantsInv(run[r])'
    <3>1. \A f \in Facilities :
            /\ feed.modified[f] <= feed.modified[f]
            /\ feed.modified[f] <= listed[f] /\ feed.modified[f] <= cinemas[f]
      BY <1>2
    <3>2. QED
      BY <1>1, <2>2, <3>1 DEF InstantsInv
  <2>7. OvertakenInv(run[r])'
    BY <2>2, <2>4 DEF OvertakenInv
  <2>8. QED
    BY <1>1, <1>3, <2>2, <2>3, <2>5, <2>6, <2>7, OneRefreshSteps DEF RunInv
<1>5. CASE feed.etag # listed
  <2> DEFINE due == {f \in Facilities : feed.modified[f] # listed[f]}
             left == SetToSeq(due)
             next == [etag |-> listed, modified |-> listed]
  <2>1. IsFiniteSet(due)
    BY FS_Subset, DistributionAssumption
  <2>2. left \in Seq(due) /\ IsInjective(left) /\ ToSet(left) = due
    BY <2>1, SetListed
  <2>3. left \in Seq(Facilities)
    BY <2>2
  <2>4. run' = [run EXCEPT ![r] = Fetching(feed, left, <<>>, next)]
    BY <1>5 DEF FetchSiteList, Outdated
  <2> HIDE DEF left
  <2>5. /\ DOMAIN run' = Runs /\ \A q \in Runs \ {r} : run'[q] = run[q]
        /\ run'[r] = [phase |-> IF left = <<>> THEN "fetched" ELSE "fetching",
                      previous |-> feed, left |-> left, flms |-> <<>>, next |-> next]
    BY <1>1, <2>4 DEF Fetching
  <2>6. next \in FeedStates
    BY <1>1 DEF FeedStates
  <2>7. run'[r] \in Refreshes
    BY <1>1, <2>3, <2>5, <2>6 DEF Refreshes, Active
  <2>8. ToSet(<<>>) = {}
    BY DEF ToSet
  <2>9. \A f \in ToSet(left) : feed.modified[f] < next.modified[f]
    BY <1>2, <2>2
  <2>10. WorkInv(run[r])'
    <3>1. /\ run'[r].left = left /\ run'[r].flms = <<>>
          /\ run'[r].phase = IF left = <<>> THEN "fetched" ELSE "fetching"
          /\ run'[r].next = next /\ run'[r].previous = feed
      BY <2>5
    <3>2. QED
      BY <2>2, <2>8, <2>9, <3>1 DEF WorkInv, OnePerFacility
  <2>11. InstantsInv(run[r])'
    <3>1. \A f \in Facilities :
            /\ feed.modified[f] <= feed.modified[f]
            /\ feed.modified[f] <= listed[f] /\ listed[f] <= listed[f]
            /\ listed[f] <= cinemas[f] \/ f \in ToSet(left)
            /\ listed[f] = feed.modified[f] \/ f \in ToSet(left)
      BY <1>2, <2>2
    <3>2. /\ run'[r].left = left /\ run'[r].next = next /\ run'[r].previous = feed
      BY <2>5
    <3>3. QED
      BY <1>1, <3>1, <3>2 DEF InstantsInv
  <2>12. OvertakenInv(run[r])'
    BY <2>5, <2>8 DEF OvertakenInv
  <2>13. QED
    BY <1>1, <1>3, <2>5, <2>7, <2>10, <2>11, <2>12, OneRefreshSteps DEF RunInv
<1>6. QED
  BY <1>4, <1>5

(* What is known of a refresh that runs.                                   *)
LEMMA RunningRefresh ==
  ASSUME FeedInv, NEW r \in Runs, run[r].phase \in Active
  PROVE  /\ run[r] \in Refreshes /\ RunInv(run[r])
         /\ DOMAIN run = Runs
<1>1. run[r] # Idle
  BY DEF Idle, Active
<1>2. QED
  BY <1>1 DEF FeedInv, FeedTyped

LEMMA FetchFlmStep ==
  ASSUME FeedInv, NEW r \in Runs, FetchFlm(r)
  PROVE  FeedInv'
<1> DEFINE x == run[r]
           f == Head(x.left)
           flm == [facility |-> f, version |-> listed[f]]
           left == Tail(x.left)
           flms == Append(x.flms, flm)
<1>1. /\ UNCHANGED <<listed, cinemas, feed, unrecorded, issuing>> /\ x.phase = "fetching"
      /\ run' = [run EXCEPT ![r] = Fetching(x.previous, left, flms, x.next)]
  BY DEF FetchFlm, databaseVars
<1>2. x \in Refreshes /\ DOMAIN run = Runs /\ WorkInv(x) /\ InstantsInv(x) /\ OvertakenInv(x)
  BY <1>1, RunningRefresh DEF Active, RunInv
<1>3. /\ x.left \in Seq(Facilities) /\ x.flms \in Seq(Messages)
      /\ x.previous \in FeedStates /\ x.next \in FeedStates
  BY <1>2, RefreshFields
<1>4. /\ x.left # <<>> /\ IsInjective(x.left) /\ OnePerFacility(x.flms)
      /\ \A m \in ToSet(x.flms) : m.facility \notin ToSet(x.left)
  BY <1>1, <1>2 DEF WorkInv
<1>5. /\ f \in Facilities /\ left \in Seq(Facilities) /\ IsInjective(left)
      /\ ToSet(x.left) = {f} \cup ToSet(left) /\ f \notin ToSet(left)
  BY <1>3, <1>4, HeadAndTail
<1>6. listed[f] \in Nat /\ cinemas[f] <= listed[f] /\ listed[f] \in 1..listed[f]
  <2>1. listed[f] \in Nat /\ cinemas[f] <= listed[f]
    BY <1>5, FeedNumbers DEF FeedInv
  <2>2. listed[f] \in 1..Len(Flm[f]) /\ Len(Flm[f]) \in Nat
    BY <1>5, DistributionAssumption DEF FeedInv, FeedTyped
  <2>3. QED
    BY <2>1, <2>2
<1>7. flm \in Messages
  BY <1>5, <1>6 DEF Messages
<1> HIDE DEF flm
<1>8. /\ flms \in Seq(Messages) /\ ToSet(flms) = ToSet(x.flms) \cup {flm}
      /\ DOMAIN flms = 1..(Len(x.flms) + 1)
      /\ \A i \in 1..Len(x.flms) : flms[i] = x.flms[i]
      /\ flms[Len(x.flms) + 1] = flm
  BY <1>3, <1>7, Appended
<1>9. flm.facility = f /\ flm.version = listed[f]
  BY DEF flm
<1>10. OnePerFacility(flms)
  <2>1. Len(x.flms) \in Nat /\ DOMAIN x.flms = 1..Len(x.flms)
    BY <1>3, LenProperties
  <2>2. \A i \in 1..Len(x.flms) : x.flms[i].facility # f
    BY <1>4, <1>5, <2>1 DEF ToSet
  <2>3. \A i \in 1..(Len(x.flms) + 1) : i \in 1..Len(x.flms) \/ i = Len(x.flms) + 1
    BY <2>1
  <2>4. QED
    BY <1>4, <1>8, <1>9, <2>1, <2>2, <2>3 DEF OnePerFacility
<1> HIDE DEF f, left, flms
<1>11. /\ DOMAIN run' = Runs /\ \A q \in Runs \ {r} : run'[q] = run[q]
       /\ run'[r] = [phase |-> IF left = <<>> THEN "fetched" ELSE "fetching",
                     previous |-> x.previous, left |-> left, flms |-> flms,
                     next |-> x.next]
  BY <1>1, <1>2 DEF Fetching
<1>12. run'[r] \in Refreshes
  BY <1>3, <1>5, <1>8, <1>11 DEF Refreshes, Active
<1>13. /\ run'[r].left = left /\ run'[r].flms = flms
       /\ run'[r].phase = IF left = <<>> THEN "fetched" ELSE "fetching"
       /\ run'[r].next = x.next /\ run'[r].previous = x.previous
  BY <1>11
<1>14. x.next.modified[f] <= listed[f] /\ x.previous.modified[f] < x.next.modified[f]
  BY <1>2, <1>5 DEF InstantsInv, WorkInv
<1>15. WorkInv(run[r])'
  <2>1. \A m \in ToSet(flms) :
          /\ m.facility \notin ToSet(left)
          /\ x.next.modified[m.facility] <= m.version
          /\ m.version \in 1..listed[m.facility]
          /\ x.previous.modified[m.facility] < x.next.modified[m.facility]
    BY <1>2, <1>5, <1>6, <1>8, <1>9, <1>14 DEF WorkInv
  <2>2. \A g \in ToSet(left) : x.previous.modified[g] < x.next.modified[g]
    BY <1>2, <1>5 DEF WorkInv
  <2>3. QED
    BY <1>1, <1>5, <1>10, <1>13, <2>1, <2>2 DEF WorkInv
<1>16. InstantsInv(run[r])'
  <2>1. ToSave(run[r])' = ToSave(x) \cup {f}
    BY <1>8, <1>9, <1>13 DEF ToSave
  <2>2. QED
    BY <1>1, <1>2, <1>5, <1>13, <2>1 DEF InstantsInv
<1>17. OvertakenInv(run[r])'
  <2>1. \A g : SavedSince(x, g) => SavedSince(run[r], g)'
    BY <1>1, <1>11, <1>13 DEF SavedSince, ToSave
  <2>2. \A m \in ToSet(flms) :
          \/ cinemas[m.facility] <= m.version \/ m.facility \in unrecorded
          \/ SavedSince(x, m.facility)
    BY <1>1, <1>2, <1>6, <1>8, <1>9 DEF OvertakenInv
  <2>3. QED
    BY <1>1, <1>13, <2>1, <2>2 DEF OvertakenInv
<1>18. QED
  BY <1>1, <1>11, <1>12, <1>15, <1>16, <1>17, OneRefreshSteps DEF RunInv

(* The state to claim, with one facility's instant put back.               *)
LEMMA Retried ==
  ASSUME NEW next \in FeedStates, NEW previous \in FeedStates, NEW f \in Facilities
  PROVE  /\ RetryNextTime(next, previous, f) \in FeedStates
         /\ RetryNextTime(next, previous, f).modified[f] = previous.modified[f]
         /\ \A g \in Facilities \ {f} :
              RetryNextTime(next, previous, f).modified[g] = next.modified[g]
BY DEF FeedStates, RetryNextTime

LEMMA FetchFailsStep ==
  ASSUME FeedInv, NEW r \in Runs, FetchFails(r)
  PROVE  FeedInv'
<1> DEFINE x == run[r]
           f == Head(x.left)
           left == Tail(x.left)
           next == RetryNextTime(x.next, x.previous, f)
<1>1. /\ UNCHANGED <<listed, cinemas, feed, unrecorded, issuing>> /\ x.phase = "fetching"
      /\ run' = [run EXCEPT ![r] = Fetching(x.previous, left, x.flms, next)]
  BY DEF FetchFails, databaseVars
<1>2. x \in Refreshes /\ DOMAIN run = Runs /\ WorkInv(x) /\ InstantsInv(x) /\ OvertakenInv(x)
  BY <1>1, RunningRefresh DEF Active, RunInv
<1>3. /\ x.left \in Seq(Facilities) /\ x.flms \in Seq(Messages)
      /\ x.previous \in FeedStates /\ x.next \in FeedStates
  BY <1>2, RefreshFields
<1>4. x.left # <<>> /\ IsInjective(x.left)
  BY <1>1, <1>2 DEF WorkInv
<1>5. /\ f \in Facilities /\ left \in Seq(Facilities) /\ IsInjective(left)
      /\ ToSet(x.left) = {f} \cup ToSet(left) /\ f \notin ToSet(left)
  BY <1>3, <1>4, HeadAndTail
<1>6. /\ next \in FeedStates /\ next.modified[f] = x.previous.modified[f]
      /\ \A g \in Facilities \ {f} : next.modified[g] = x.next.modified[g]
  BY <1>3, <1>5, Retried
<1> HIDE DEF f, left, next
<1>7. /\ DOMAIN run' = Runs /\ \A q \in Runs \ {r} : run'[q] = run[q]
      /\ run'[r] = [phase |-> IF left = <<>> THEN "fetched" ELSE "fetching",
                    previous |-> x.previous, left |-> left, flms |-> x.flms,
                    next |-> next]
  BY <1>1, <1>2 DEF Fetching
<1>8. run'[r] \in Refreshes
  BY <1>3, <1>5, <1>6, <1>7 DEF Refreshes, Active
<1>9. /\ run'[r].left = left /\ run'[r].flms = x.flms
      /\ run'[r].phase = IF left = <<>> THEN "fetched" ELSE "fetching"
      /\ run'[r].next = next /\ run'[r].previous = x.previous
  BY <1>7
<1>10. \A m \in ToSet(x.flms) : m.facility \in Facilities \ {f}
  BY <1>2, <1>5, FlmFields DEF WorkInv
<1>11. \A g \in ToSet(left) : g \in Facilities \ {f}
  <2>1. ToSet(left) \subseteq Facilities
    BY <1>5, ElementOfSeq, LenProperties DEF ToSet
  <2>2. QED
    BY <1>5, <2>1
<1>12. WorkInv(run[r])'
  <2>1. \A m \in ToSet(x.flms) :
          /\ m.facility \notin ToSet(left)
          /\ next.modified[m.facility] <= m.version
          /\ m.version \in 1..listed[m.facility]
          /\ x.previous.modified[m.facility] < next.modified[m.facility]
    BY <1>2, <1>5, <1>6, <1>10 DEF WorkInv
  <2>2. \A g \in ToSet(left) : x.previous.modified[g] < next.modified[g]
    BY <1>2, <1>5, <1>6, <1>11 DEF WorkInv
  <2>3. OnePerFacility(x.flms)
    BY <1>2 DEF WorkInv
  <2>4. QED
    BY <1>1, <1>5, <1>9, <2>1, <2>2, <2>3 DEF WorkInv
<1>13. InstantsInv(run[r])'
  <2>1. ToSave(run[r])' = ToSave(x)
    BY <1>9 DEF ToSave
  <2>2. ASSUME NEW g \in Facilities
        PROVE  /\ x.previous.modified[g] <= feed.modified[g]
               /\ x.previous.modified[g] <= next.modified[g]
               /\ next.modified[g] <= listed[g]
               /\ next.modified[g] <= cinemas[g] \/ g \in ToSet(left) \cup ToSave(x)
               /\ \/ next.modified[g] = x.previous.modified[g]
                  \/ g \in ToSet(left) \cup ToSave(x)
    <3>1. /\ x.previous.modified[g] \in Nat /\ feed.modified[g] \in Nat
          /\ cinemas[g] \in Nat /\ listed[g] \in Nat /\ cinemas[g] <= listed[g]
          /\ feed.modified[g] <= cinemas[g]
      BY <1>3, FeedStateFields, FeedNumbers DEF FeedInv
    <3>2. CASE g = f
      <4>1. x.previous.modified[f] <= feed.modified[f]
        BY <1>2, <1>5 DEF InstantsInv
      <4>2. QED
        BY <1>6, <3>1, <3>2, <4>1
    <3>3. CASE g # f
      BY <1>1, <1>2, <1>5, <1>6, <3>3 DEF InstantsInv
    <3>4. QED
      BY <3>2, <3>3
  <2>3. QED
    BY <1>1, <1>9, <2>1, <2>2 DEF InstantsInv
<1>14. OvertakenInv(run[r])'
  <2>1. \A g : SavedSince(x, g) => SavedSince(run[r], g)'
    BY <1>1, <1>7, <1>9 DEF SavedSince, ToSave
  <2>2. QED
    BY <1>1, <1>2, <1>9, <2>1 DEF OvertakenInv
<1>15. QED
  BY <1>1, <1>7, <1>8, <1>12, <1>13, <1>14, OneRefreshSteps DEF RunInv

(* A refresh that found another's newer state is dropped; one that is let  *)
(* in holds no message older than the database's, but where a state could  *)
(* not be saved.                                                           *)
LEMMA ApplyRefreshStep ==
  ASSUME FeedInv, NEW r \in Runs, ApplyRefresh(r)
  PROVE  FeedInv'
<1> DEFINE x == run[r]
<1>1. /\ UNCHANGED <<listed, cinemas, feed, unrecorded, issuing>> /\ x.phase = "fetched"
      /\ DatabaseFree
  BY DEF ApplyRefresh, databaseVars
<1>2. x \in Refreshes /\ DOMAIN run = Runs /\ WorkInv(x) /\ InstantsInv(x) /\ OvertakenInv(x)
  BY <1>1, RunningRefresh DEF Active, RunInv
<1>3. CASE run' = [run EXCEPT ![r] = Idle]
  <2>1. run' = [run EXCEPT ![r] = Idle]
    BY <1>3
  <2>2. DOMAIN run' = Runs /\ run'[r] = Idle /\ \A q \in Runs \ {r} : run'[q] = run[q]
    BY <1>2, <2>1
  <2>3. run[r].phase # "saving"
    BY <1>1
  <2>4. QED
    BY <1>1, <2>2, <2>3, OneRefreshSteps
<1>4. CASE ~Refused(x) /\ run' = [run EXCEPT ![r].phase = "saving"]
  <2>1. run' = [run EXCEPT ![r].phase = "saving"] /\ feed = x.previous
    BY <1>4 DEF Refused
  <2>2. /\ DOMAIN run' = Runs /\ \A q \in Runs \ {r} : run'[q] = run[q]
        /\ run'[r] = [x EXCEPT !.phase = "saving"]
    BY <1>2, <2>1
  <2>3. /\ run'[r] \in Refreshes /\ run'[r].phase = "saving"
        /\ run'[r].left = x.left /\ run'[r].flms = x.flms
        /\ run'[r].next = x.next /\ run'[r].previous = x.previous
    BY <1>2, <2>2 DEF Refreshes, Active
  <2>4. WorkInv(run[r])' /\ InstantsInv(run[r])'
    BY <1>1, <1>2, <2>3 DEF WorkInv, InstantsInv, ToSave
  <2>5. OvertakenInv(run[r])'
    <3>1. ASSUME NEW m \in ToSet(x.flms)
          PROVE  cinemas[m.facility] <= m.version \/ m.facility \in unrecorded
      <4>1. \/ cinemas[m.facility] <= m.version \/ m.facility \in unrecorded
            \/ SavedSince(x, m.facility)
        BY <1>1, <1>2 DEF OvertakenInv
      <4>2. m.facility \in Facilities
        BY <1>2, FlmFields
      <4>3. feed.modified[m.facility] \in Nat
        BY <4>2, FeedNumbers DEF FeedInv
      <4>4. ~SavedSince(x, m.facility)
        BY <1>1, <2>1, <4>3 DEF SavedSince, DatabaseFree
      <4>5. QED
        BY <4>1, <4>4
    <3>2. QED
      BY <1>1, <2>1, <2>3, <3>1 DEF OvertakenInv
  <2>6. QED
    BY <1>1, <2>2, <2>3, <2>4, <2>5, OneRefreshSteps DEF RunInv
<1>5. QED
  BY <1>3, <1>4 DEF ApplyRefresh

(* The refresh that saves: a message saved or refused.                     *)
LEMMA SaveNextFlmStep ==
  ASSUME FeedInv, NEW r \in Runs, SaveNextFlm(r)
  PROVE  FeedInv' /\ \A f \in Facilities : cinemas'[f] >= cinemas[f] \/ f \in unrecorded
<1> DEFINE x == run[r]
           flm == Head(x.flms)
           f == flm.facility
           left == Tail(x.flms)
           retried == RetryNextTime(x.next, x.previous, f)
<1>1. UNCHANGED <<listed, feed, unrecorded, issuing>> /\ x.phase = "saving" /\ x.flms # <<>>
  BY DEF SaveNextFlm, SaveCinema, databaseVars
<1>2. x \in Refreshes /\ DOMAIN run = Runs /\ WorkInv(x) /\ InstantsInv(x) /\ OvertakenInv(x)
  BY <1>1, RunningRefresh DEF Active, RunInv
<1>3. /\ x.left \in Seq(Facilities) /\ x.flms \in Seq(Messages)
      /\ x.previous \in FeedStates /\ x.next \in FeedStates
      /\ x.previous = feed /\ x.left = <<>> /\ OnePerFacility(x.flms)
  BY <1>1, <1>2, RefreshFields DEF WorkInv, OvertakenInv
<1>4. /\ flm \in Messages /\ left \in Seq(Messages)
      /\ ToSet(x.flms) = {flm} \cup ToSet(left) /\ OnePerFacility(left)
      /\ \A m \in ToSet(left) : m.facility # f
  BY <1>1, <1>3, FirstFlm
<1>5. /\ f \in Facilities /\ flm.version \in Nat
      /\ cinemas[f] <= flm.version \/ f \in unrecorded
      /\ flm.version \in 1..listed[f] /\ x.next.modified[f] <= flm.version
      /\ x.previous.modified[f] < x.next.modified[f]
  BY <1>1, <1>2, <1>4 DEF Messages, WorkInv, OvertakenInv
<1>6. ToSave(x) = {f} \cup {m.facility : m \in ToSet(left)}
      /\ f \notin {m.facility : m \in ToSet(left)}
  BY <1>4 DEF ToSave
<1>7. /\ retried \in FeedStates /\ retried.modified[f] = x.previous.modified[f]
      /\ \A g \in Facilities \ {f} : retried.modified[g] = x.next.modified[g]
  BY <1>3, <1>5, Retried
<1>8. \A g \in Facilities :
        /\ listed[g] \in Nat /\ cinemas[g] \in Nat /\ feed.modified[g] \in Nat
        /\ x.next.modified[g] \in Nat /\ x.previous.modified[g] \in Nat
        /\ cinemas[g] <= listed[g] /\ feed.modified[g] <= cinemas[g]
  BY <1>3, FeedNumbers, FeedStateFields DEF FeedInv
<1> DEFINE saved == SaveCinema(f, flm.version) /\ run' = [run EXCEPT ![r].flms = left]
           refused == /\ UNCHANGED databaseVars
                      /\ run' = [run EXCEPT ![r].flms = left, ![r].next = retried]
<1>9. saved \/ refused
  BY DEF SaveNextFlm
<1> HIDE DEF flm, f, left, retried
<1>10. /\ DOMAIN run' = Runs /\ \A q \in Runs \ {r} : run'[q] = run[q]
       /\ run'[r] \in Refreshes /\ run'[r].phase = "saving"
       /\ run'[r].left = x.left /\ run'[r].flms = left /\ run'[r].previous = x.previous
       /\ \/ saved /\ run'[r].next = x.next
          \/ refused /\ run'[r].next = retried
  <2>1. CASE saved
    <3>1. DOMAIN run' = Runs /\ \A q \in Runs \ {r} : run'[q] = run[q]
      BY <1>2, <2>1
    <3>2. run'[r] = [x EXCEPT !.flms = left]
      BY <1>2, <2>1
    <3>3. /\ run'[r] \in Refreshes /\ run'[r].phase = x.phase
          /\ run'[r].left = x.left /\ run'[r].flms = left
          /\ run'[r].previous = x.previous /\ run'[r].next = x.next
      BY <1>2, <1>4, <3>2 DEF Refreshes
    <3>4. QED
      BY <1>1, <2>1, <3>1, <3>3
  <2>2. CASE refused
    <3>1. DOMAIN run' = Runs /\ \A q \in Runs \ {r} : run'[q] = run[q]
      BY <1>2, <2>2
    <3>2. run'[r] = [x EXCEPT !.flms = left, !.next = retried]
      BY <1>2, <2>2
    <3>3. /\ run'[r] \in Refreshes /\ run'[r].phase = x.phase
          /\ run'[r].left = x.left /\ run'[r].flms = left
          /\ run'[r].previous = x.previous /\ run'[r].next = retried
      BY <1>2, <1>4, <1>7, <3>2 DEF Refreshes
    <3>4. QED
      BY <1>1, <2>2, <3>1, <3>3
  <2>3. QED
    BY <1>9, <2>1, <2>2
<1>11. /\ cinemas' \in [Facilities -> Instants]
       /\ \A g \in Facilities \ {f} : cinemas'[g] = cinemas[g]
       /\ \/ run'[r].next = x.next /\ cinemas'[f] = flm.version
          \/ run'[r].next = retried /\ cinemas' = cinemas
  <2>1. cinemas \in [Facilities -> Instants] /\ flm.version \in Instants
    <3>1. cinemas \in [Facilities -> Instants] /\ listed[f] \in 1..Len(Flm[f])
      BY <1>5 DEF FeedInv, FeedTyped
    <3>2. flm.version \in 0..Len(Flm[f])
      BY <1>5, <3>1, DistributionAssumption
    <3>3. QED
      BY <1>5, <3>1, <3>2, InstantsAreVersions
  <2>2. CASE saved /\ run'[r].next = x.next
    BY <1>5, <2>1, <2>2 DEF SaveCinema
  <2>3. CASE refused /\ run'[r].next = retried
    BY <2>1, <2>3 DEF databaseVars
  <2>4. QED
    BY <1>10, <2>2, <2>3
<1> HIDE DEF saved, refused
<1>12. /\ \A g \in Facilities :
            /\ cinemas'[g] \in Nat
            /\ cinemas[g] <= cinemas'[g] \/ g \in unrecorded
            /\ cinemas'[g] <= listed[g] /\ feed.modified[g] <= cinemas'[g]
  <2> SUFFICES ASSUME NEW g \in Facilities
               PROVE  /\ cinemas'[g] \in Nat
                      /\ cinemas[g] <= cinemas'[g] \/ g \in unrecorded
                      /\ cinemas'[g] <= listed[g] /\ feed.modified[g] <= cinemas'[g]
    OBVIOUS
  <2>1. CASE g = f /\ cinemas'[f] = flm.version
    BY <1>3, <1>5, <1>8, <2>1
  <2>2. CASE cinemas'[g] = cinemas[g]
    BY <1>8, <2>2
  <2>3. QED
    BY <1>11, <2>1, <2>2
<1>13. FeedTyped'
  BY <1>1, <1>10, <1>11, <1>12 DEF FeedInv, FeedTyped
<1>14. OneHolder'
  BY <1>1, <1>10 DEF FeedInv, OneHolder
<1>15. \A g \in Facilities \ {f} : run'[r].next.modified[g] = x.next.modified[g]
  BY <1>7, <1>10
<1>16. ToSave(run[r])' = {m.facility : m \in ToSet(left)}
  BY <1>10 DEF ToSave
<1>17. RunInv(run[r])'
  <2>1. ToSet(<<>>) = {}
    BY DEF ToSet
  <2>2. WorkInv(run[r])'
    <3>1. \A m \in ToSet(left) :
            /\ m.facility \notin ToSet(x.left)
            /\ run'[r].next.modified[m.facility] <= m.version
            /\ m.version \in 1..listed[m.facility]
            /\ x.previous.modified[m.facility] < run'[r].next.modified[m.facility]
      <4> SUFFICES ASSUME NEW m \in ToSet(left)
                   PROVE  /\ m.facility \notin ToSet(x.left)
                          /\ run'[r].next.modified[m.facility] <= m.version
                          /\ m.version \in 1..listed[m.facility]
                          /\ x.previous.modified[m.facility]
                               < run'[r].next.modified[m.facility]
        OBVIOUS
      <4>1. m \in ToSet(x.flms)
        BY <1>4
      <4>2. m.facility \in Facilities \ {f}
        BY <1>2, <1>4, <4>1, FlmFields
      <4>3. QED
        BY <1>2, <1>15, <4>1, <4>2 DEF WorkInv
    <3>2. QED
      BY <1>1, <1>2, <1>3, <1>4, <1>10, <2>1, <3>1 DEF WorkInv
  <2>3. InstantsInv(run[r])'
    <3> SUFFICES ASSUME NEW g \in Facilities
                 PROVE  /\ x.previous.modified[g] <= feed.modified[g]
                        /\ x.previous.modified[g] <= run'[r].next.modified[g]
                        /\ run'[r].next.modified[g] <= listed[g]
                        /\ \/ run'[r].next.modified[g] <= cinemas'[g]
                           \/ g \in ToSet(x.left) \cup {m.facility : m \in ToSet(left)}
      BY <1>1, <1>10, <1>16 DEF InstantsInv
    <3>1. /\ x.previous.modified[g] <= feed.modified[g]
          /\ x.previous.modified[g] <= x.next.modified[g]
          /\ x.next.modified[g] <= listed[g]
          /\ x.next.modified[g] <= cinemas[g] \/ g \in ToSet(x.left) \cup ToSave(x)
      BY <1>2 DEF InstantsInv
    <3>2. CASE g # f
      <4>1. run'[r].next.modified[g] = x.next.modified[g] /\ cinemas'[g] = cinemas[g]
        BY <1>11, <1>15, <3>2
      <4>2. QED
        BY <1>6, <3>1, <3>2, <4>1
    <3>3. CASE g = f
      <4>1. CASE run'[r].next = x.next /\ cinemas'[f] = flm.version
        BY <1>5, <3>1, <3>3, <4>1
      <4>2. CASE run'[r].next = retried /\ cinemas' = cinemas
        BY <1>7, <1>8, <1>12, <3>1, <3>3, <4>2
      <4>3. QED
        BY <1>11, <4>1, <4>2
    <3>4. QED
      BY <3>2, <3>3
  <2>4. OvertakenInv(run[r])'
    <3>1. ASSUME NEW m \in ToSet(left)
          PROVE  cinemas'[m.facility] <= m.version \/ m.facility \in unrecorded
      <4>1. m \in ToSet(x.flms) /\ m.facility # f
        BY <1>4
      <4>2. m.facility \in Facilities
        BY <1>2, <4>1, FlmFields
      <4>3. QED
        BY <1>1, <1>2, <1>11, <4>1, <4>2 DEF OvertakenInv
    <3>2. QED
      BY <1>1, <1>3, <1>10, <3>1 DEF OvertakenInv
  <2>5. QED
    BY <2>2, <2>3, <2>4 DEF RunInv
<1>18. ASSUME NEW q \in Runs \ {r}, run[q] # Idle
       PROVE  RunInv(run[q])'
  <2>1. run'[q] = run[q] /\ run[q] \in Refreshes /\ run[q].phase # "saving"
        /\ WorkInv(run[q]) /\ InstantsInv(run[q]) /\ OvertakenInv(run[q])
    BY <1>1, <1>10, <1>18 DEF FeedInv, FeedTyped, OneHolder, RunInv
  <2>2. WorkInv(run[q])'
    BY <1>1, <2>1 DEF WorkInv
  <2>3. /\ run[q].next \in FeedStates /\ run[q].previous \in FeedStates
    BY <2>1, RefreshFields
  <2>4. InstantsInv(run[q])'
    <3> SUFFICES ASSUME NEW g \in Facilities
                 PROVE  \/ run[q].next.modified[g] <= cinemas'[g]
                        \/ g \in ToSet(run[q].left) \cup ToSave(run[q])
      BY <1>1, <2>1 DEF InstantsInv, ToSave
    <3>1. \/ run[q].next.modified[g] = run[q].previous.modified[g]
          \/ g \in ToSet(run[q].left) \cup ToSave(run[q])
      BY <2>1 DEF InstantsInv
    <3>2. /\ run[q].previous.modified[g] \in Nat
          /\ run[q].previous.modified[g] <= feed.modified[g]
      BY <2>1, <2>3, FeedStateFields DEF InstantsInv
    <3>3. feed.modified[g] \in Nat /\ cinemas'[g] \in Nat /\ feed.modified[g] <= cinemas'[g]
      BY <1>8, <1>12
    <3>4. CASE run[q].next.modified[g] = run[q].previous.modified[g]
      <4>1. run[q].next.modified[g] <= cinemas'[g]
        BY <3>2, <3>3, <3>4
      <4>2. QED
        BY <4>1
    <3>5. QED
      BY <3>1, <3>4
  <2>5. OvertakenInv(run[q])'
    <3> SUFFICES ASSUME NEW m \in ToSet(run[q].flms), m.facility \notin unrecorded
                 PROVE  \/ cinemas'[m.facility] <= m.version
                        \/ SavedSince(run[q], m.facility)'
      BY <1>1, <2>1 DEF OvertakenInv
    <3> DEFINE g == m.facility
    <3>1. /\ cinemas[g] <= m.version \/ SavedSince(run[q], g)
          /\ g \in Facilities /\ m.version \in Nat
      BY <2>1, FlmFields DEF OvertakenInv
    <3>2. CASE g = f
      <4>1. run[q].previous.modified[f] <= feed.modified[f]
            /\ run[q].previous.modified[f] \in Nat
        BY <1>5, <2>1, <2>3, FeedStateFields DEF InstantsInv
      <4>2. run[q].previous.modified[f] < x.next.modified[f]
        BY <1>3, <1>5, <1>8, <4>1
      <4>3. CASE run'[r].next = x.next /\ cinemas'[f] = flm.version
        <5>1. f \notin ToSave(run[r])' /\ run'[r].phase = "saving" /\ run'[q] = run[q]
              /\ run'[q].previous.modified[f] < run'[r].next.modified[f]
          BY <1>6, <1>10, <1>16, <2>1, <4>2, <4>3
        <5>2. QED
          BY <3>2, <5>1 DEF SavedSince
      <4>4. CASE run'[r].next = retried /\ cinemas' = cinemas
        <5>1. CASE cinemas[g] <= m.version
          BY <4>4, <5>1
        <5>2. CASE SavedSince(run[q], g)
          <6>1. ~\E w \in Runs : run[w].phase = "saving" /\ f \notin ToSave(run[w])
            BY <1>1, <1>6 DEF FeedInv, OneHolder
          <6>2. run[q].previous.modified[f] < feed.modified[f]
            BY <3>2, <5>2, <6>1 DEF SavedSince
          <6>3. QED
            BY <1>1, <2>1, <3>2, <6>2 DEF SavedSince
        <5>3. QED
          BY <3>1, <5>1, <5>2
      <4>5. QED
        BY <1>11, <4>3, <4>4
    <3>3. CASE g # f
      <4>1. cinemas'[g] = cinemas[g]
        BY <1>11, <3>1, <3>3
      <4>2. CASE cinemas[g] <= m.version
        BY <4>1, <4>2
      <4>3. CASE run[q].previous.modified[g] < feed.modified[g]
        BY <1>1, <2>1, <4>3 DEF SavedSince
      <4>4. CASE \E w \in Runs : /\ run[w].phase = "saving" /\ g \notin ToSave(run[w])
                                 /\ run[q].previous.modified[g] < run[w].next.modified[g]
        <5>1. g \notin ToSave(x) /\ run[q].previous.modified[g] < x.next.modified[g]
          BY <1>1, <4>4 DEF FeedInv, OneHolder
        <5>2. g \notin ToSave(run[r])' /\ run'[r].phase = "saving"
              /\ run'[q].previous.modified[g] < run'[r].next.modified[g]
          BY <1>6, <1>10, <1>15, <1>16, <2>1, <3>1, <3>3, <5>1
        <5>3. QED
          BY <5>2 DEF SavedSince
      <4>5. QED
        BY <3>1, <4>2, <4>3, <4>4 DEF SavedSince
    <3>4. QED
      BY <3>2, <3>3
  <2>6. QED
    BY <2>2, <2>4, <2>5 DEF RunInv
<1>19. \A g \in Facilities : cinemas'[g] >= cinemas[g] \/ g \in unrecorded
  BY <1>8, <1>12
<1>20. QED
  BY <1>1, <1>10, <1>12, <1>13, <1>14, <1>17, <1>18, <1>19 DEF FeedInv

(* The feed state is claimed last, when nothing is left to save.           *)
LEMMA SaveFeedStateStep ==
  ASSUME FeedInv, NEW r \in Runs, SaveFeedState(r)
  PROVE  FeedInv'
<1> DEFINE x == run[r]
<1>1. /\ UNCHANGED <<listed, cinemas, issuing>> /\ x.phase = "saving" /\ x.flms = <<>>
      /\ feed' = x.next /\ run' = [run EXCEPT ![r] = Idle]
      /\ unrecorded' = unrecorded \ SavedBy(x)
  BY DEF SaveFeedState, databaseVars
<1>2. x \in Refreshes /\ DOMAIN run = Runs /\ WorkInv(x) /\ InstantsInv(x) /\ OvertakenInv(x)
  BY <1>1, RunningRefresh DEF Active, RunInv
<1>3. /\ x.next \in FeedStates /\ x.previous = feed /\ x.left = <<>>
      /\ ToSet(x.left) = {} /\ ToSave(x) = {}
  BY <1>1, <1>2, RefreshFields DEF WorkInv, OvertakenInv, ToSave, ToSet
<1>4. DOMAIN run' = Runs /\ run'[r] = Idle /\ \A q \in Runs \ {r} : run'[q] = run[q]
  BY <1>1, <1>2
<1>5. \A f \in Facilities :
        /\ feed.modified[f] \in Nat /\ x.next.modified[f] \in Nat
        /\ feed.modified[f] <= x.next.modified[f]
        /\ x.next.modified[f] <= cinemas[f]
  BY <1>2, <1>3, FeedNumbers, FeedStateFields DEF FeedInv, InstantsInv
<1>6. FeedTyped' /\ OneHolder'
  <2>1. FeedTyped'
    BY <1>1, <1>3, <1>4 DEF FeedInv, FeedTyped
  <2>2. \A q \in Runs : run'[q].phase = "saving" => run[q].phase = "saving"
    BY <1>4 DEF Idle
  <2>3. QED
    BY <1>1, <2>1, <2>2 DEF FeedInv, OneHolder
<1>7. \A f \in Facilities : feed'.modified[f] <= cinemas'[f]
  BY <1>1, <1>5
<1>8. ASSUME NEW q \in Runs \ {r}, run[q] # Idle
      PROVE  RunInv(run[q])'
  <2>1. run'[q] = run[q] /\ run[q] \in Refreshes /\ run[q].phase # "saving"
        /\ WorkInv(run[q]) /\ InstantsInv(run[q]) /\ OvertakenInv(run[q])
    BY <1>1, <1>4, <1>8 DEF FeedInv, FeedTyped, OneHolder, RunInv
  <2>2. \A f \in Facilities : run[q].previous.modified[f] \in Nat
    BY <2>1, RefreshFields, FeedStateFields
  <2>3. WorkInv(run[q])' /\ InstantsInv(run[q])'
    <3>1. \A f \in Facilities : run[q].previous.modified[f] <= feed'.modified[f]
      BY <1>1, <1>5, <2>1, <2>2 DEF InstantsInv
    <3>2. QED
      BY <1>1, <2>1, <3>1 DEF WorkInv, InstantsInv, ToSave
  <2>4. OvertakenInv(run[q])'
    <3> SUFFICES ASSUME NEW m \in ToSet(run[q].flms)
                 PROVE  \/ cinemas[m.facility] <= m.version
                        \/ m.facility \in unrecorded'
                        \/ run[q].previous.modified[m.facility]
                             < feed'.modified[m.facility]
      BY <1>1, <2>1 DEF OvertakenInv, SavedSince
    <3>1. m.facility \in Facilities
      BY <2>1, FlmFields
    <3>5. CASE m.facility \in unrecorded \ unrecorded'
      <4>1. x.previous.modified[m.facility] # x.next.modified[m.facility]
        BY <1>1, <3>5 DEF SavedBy
      <4>2. run[q].previous.modified[m.facility] <= feed.modified[m.facility]
        BY <2>1, <3>1 DEF InstantsInv
      <4>3. QED
        BY <1>1, <1>3, <1>5, <2>2, <3>1, <4>1, <4>2
    <3>2. CASE run[q].previous.modified[m.facility] < feed.modified[m.facility]
      BY <1>1, <1>5, <2>2, <3>1, <3>2
    <3>3. CASE \E w \in Runs : /\ run[w].phase = "saving"
                               /\ run[q].previous.modified[m.facility]
                                    < run[w].next.modified[m.facility]
      BY <1>1, <3>3 DEF FeedInv, OneHolder
    <3>4. QED
      BY <2>1, <3>2, <3>3, <3>5 DEF OvertakenInv, SavedSince
  <2>5. QED
    BY <2>3, <2>4 DEF RunInv
<1>9. QED
  BY <1>4, <1>6, <1>7, <1>8 DEF FeedInv

(* The feed state could not be saved: a refresh that began before it may   *)
(* still be let in, with older messages of what this one saved.            *)
LEMMA SaveFeedStateFailsStep ==
  ASSUME FeedInv, NEW r \in Runs, SaveFeedStateFails(r)
  PROVE  FeedInv'
<1> DEFINE x == run[r]
<1>1. /\ UNCHANGED <<listed, cinemas, feed, issuing>> /\ x.phase = "saving"
      /\ run' = [run EXCEPT ![r] = Idle] /\ unrecorded' = unrecorded \cup SavedBy(x)
  BY DEF SaveFeedStateFails, databaseVars
<1>2. x \in Refreshes /\ DOMAIN run = Runs /\ x.previous = feed
  BY <1>1, RunningRefresh DEF Active, RunInv, OvertakenInv
<1>3. DOMAIN run' = Runs /\ run'[r] = Idle /\ \A q \in Runs \ {r} : run'[q] = run[q]
  BY <1>1, <1>2
<1>4. FeedTyped' /\ OneHolder'
  <2>1. FeedTyped'
    BY <1>1, <1>3 DEF FeedInv, FeedTyped, SavedBy
  <2>2. \A q \in Runs : run'[q].phase = "saving" => run[q].phase = "saving"
    BY <1>3 DEF Idle
  <2>3. QED
    BY <1>1, <2>1, <2>2 DEF FeedInv, OneHolder
<1>5. ASSUME NEW q \in Runs \ {r}, run[q] # Idle
      PROVE  RunInv(run[q])'
  <2>1. run'[q] = run[q] /\ run[q] \in Refreshes /\ run[q].phase # "saving"
        /\ WorkInv(run[q]) /\ InstantsInv(run[q]) /\ OvertakenInv(run[q])
    BY <1>1, <1>3, <1>5 DEF FeedInv, FeedTyped, OneHolder, RunInv
  <2>2. WorkInv(run[q])' /\ InstantsInv(run[q])'
    BY <1>1, <2>1 DEF WorkInv, InstantsInv, ToSave
  <2>3. OvertakenInv(run[q])'
    <3> SUFFICES ASSUME NEW m \in ToSet(run[q].flms), m.facility \notin unrecorded'
                 PROVE  \/ cinemas[m.facility] <= m.version
                        \/ run[q].previous.modified[m.facility]
                             < feed.modified[m.facility]
      BY <1>1, <2>1 DEF OvertakenInv, SavedSince
    <3> DEFINE f == m.facility
    <3>1. f \in Facilities
      BY <2>1, FlmFields
    <3>2. f \notin unrecorded /\ x.next.modified[f] = feed.modified[f]
      BY <1>1, <1>2, <3>1 DEF SavedBy
    <3>3. CASE \E w \in Runs : /\ run[w].phase = "saving"
                               /\ run[q].previous.modified[f] < run[w].next.modified[f]
      BY <1>1, <3>2, <3>3 DEF FeedInv, OneHolder
    <3>4. QED
      BY <2>1, <3>2, <3>3 DEF OvertakenInv, SavedSince
  <2>4. QED
    BY <2>2, <2>3 DEF RunInv
<1>6. QED
  BY <1>1, <1>3, <1>4, <1>5 DEF FeedInv

LEMMA FacilityChangesStep ==
  ASSUME FeedInv, NEW f \in Facilities, FacilityChanges(f)
  PROVE  FeedInv'
<1>1. /\ UNCHANGED <<cinemas, issuing, feed, run, unrecorded>> /\ listed[f] < Len(Flm[f])
      /\ listed' = [listed EXCEPT ![f] = @ + 1]
  BY DEF FacilityChanges, databaseVars
<1>2. /\ listed' \in [Facilities -> Instants]
      /\ \A g \in Facilities :
           /\ listed'[g] \in 1..Len(Flm[g]) /\ listed[g] <= listed'[g]
           /\ listed[g] \in Nat /\ listed'[g] \in Nat /\ cinemas[g] \in Nat
  <2>1. listed \in [Facilities -> Instants] /\ cinemas \in [Facilities -> Instants]
    BY DEF FeedInv, FeedTyped
  <2>2. \A g \in Facilities : Len(Flm[g]) \in Nat /\ listed[g] \in 1..Len(Flm[g])
    BY DistributionAssumption DEF FeedInv, FeedTyped
  <2>3. listed[f] + 1 \in 1..Len(Flm[f])
    BY <1>1, <2>2
  <2>4. listed[f] + 1 \in Instants
    BY <2>2, <2>3, InstantsAreVersions
  <2>5. \A g \in Facilities : listed'[g] = IF g = f THEN listed[f] + 1 ELSE listed[g]
    BY <1>1, <2>1
  <2>6. listed' \in [Facilities -> Instants]
    BY <1>1, <2>1, <2>4
  <2>7. \A g \in Facilities :
          listed[g] \in Nat /\ listed'[g] \in Nat /\ cinemas[g] \in Nat
    BY <2>1, <2>6, InstantsAreVersions
  <2>8. \A g \in Facilities : listed'[g] \in 1..Len(Flm[g]) /\ listed[g] <= listed'[g]
    BY <2>2, <2>3, <2>5, <2>7
  <2>9. QED
    BY <2>6, <2>7, <2>8
<1>3. FeedTyped'
  <2>1. \A g \in Facilities : cinemas[g] <= listed'[g]
    BY <1>2 DEF FeedInv, FeedTyped
  <2>2. QED
    BY <1>1, <1>2, <2>1 DEF FeedInv, FeedTyped
<1>4. ASSUME NEW q \in Runs, run[q] # Idle
      PROVE  RunInv(run[q])'
  <2>1. run[q] \in Refreshes
        /\ WorkInv(run[q]) /\ InstantsInv(run[q]) /\ OvertakenInv(run[q])
    BY <1>4 DEF FeedInv, FeedTyped, RunInv
  <2>2. \A g \in Facilities : run[q].next.modified[g] \in Nat
    BY <2>1, RefreshFields, FeedStateFields
  <2>3. \A m \in ToSet(run[q].flms) : m.version \in 1..listed'[m.facility]
    BY <1>2, <2>1, FlmFields DEF WorkInv
  <2>4. \A g \in Facilities : run[q].next.modified[g] <= listed'[g]
    BY <1>2, <2>1, <2>2 DEF InstantsInv
  <2>5. WorkInv(run[q])' /\ InstantsInv(run[q])' /\ OvertakenInv(run[q])'
    BY <1>1, <2>1, <2>3, <2>4
    DEF WorkInv, InstantsInv, OvertakenInv, SavedSince, ToSave
  <2>6. QED
    BY <2>5 DEF RunInv
<1>5. QED
  BY <1>1, <1>3, <1>4 DEF FeedInv, OneHolder

(* What neither saves a message nor touches the feed: the user's edits     *)
(* and issues.                                                             *)
LEMMA DatabaseSteps ==
  ASSUME FeedInv, UNCHANGED <<cinemas, listed, feed, run, unrecorded>>,
         issuing = <<>> => issuing' = <<>> \/ DatabaseFree
  PROVE  FeedInv'
<1>1. OneHolder'
  BY DEF FeedInv, OneHolder, DatabaseFree
<1>2. QED
  BY <1>1 DEF FeedInv, FeedTyped, RunInv, WorkInv, InstantsInv, OvertakenInv, SavedSince,
              ToSave

\* The process stops: no refresh is left.
LEMMA CrashStep ==
  ASSUME FeedInv, Crash
  PROVE  FeedInv'
<1>1. UNCHANGED <<cinemas, listed, feed>> /\ run' = [q \in Runs |-> Idle] /\ unrecorded' = {}
  BY DEF Crash
<1>2. \A q \in Runs : run'[q] = Idle /\ run'[q].phase # "saving"
  BY <1>1 DEF Idle
<1>3. QED
  BY <1>1, <1>2 DEF FeedInv, FeedTyped, OneHolder

(* Every step keeps the invariant, and none takes a cinema back whose      *)
(* message a feed state recorded.                                          *)
LEMMA FeedStep ==
  ASSUME FeedInv, [Next]_vars
  PROVE  FeedInv' /\ \A f \in Facilities : cinemas'[f] >= cinemas[f] \/ f \in unrecorded
<1>1. \A f \in Facilities : cinemas[f] \in Nat
  BY FeedNumbers DEF FeedInv
<1>2. UNCHANGED cinemas => \A f \in Facilities : cinemas'[f] >= cinemas[f]
  BY <1>1
<1>3. CASE \E f \in Facilities : FacilityChanges(f)
  BY <1>2, <1>3, FacilityChangesStep DEF FacilityChanges, databaseVars
<1>4. ASSUME NEW r \in Runs, RefreshSteps(r)
      PROVE  FeedInv' /\ \A f \in Facilities : cinemas'[f] >= cinemas[f] \/ f \in unrecorded
  <2>1. CASE FetchSiteList(r) \/ FetchFlm(r) \/ FetchFails(r) \/ ApplyRefresh(r)
    <3>1. UNCHANGED cinemas
      BY <2>1 DEF FetchSiteList, FetchFlm, FetchFails, ApplyRefresh, databaseVars
    <3>2. QED
      BY <1>2, <2>1, <3>1, FetchSiteListStep, FetchFlmStep, FetchFailsStep,
         ApplyRefreshStep
  <2>2. CASE SaveNextFlm(r)
    BY <2>2, SaveNextFlmStep
  <2>3. CASE SaveFeedState(r)
    BY <1>2, <2>3, SaveFeedStateStep DEF SaveFeedState, databaseVars
  <2>5. CASE SaveFeedStateFails(r)
    BY <1>2, <2>5, SaveFeedStateFailsStep DEF SaveFeedStateFails, databaseVars
  <2>4. QED
    BY <1>4, <2>1, <2>2, <2>3, <2>5 DEF RefreshSteps
<1>5. CASE DatabaseFree /\ Edits /\ UNCHANGED feedVars
  <2>1. UNCHANGED <<listed, feed, run, unrecorded>> /\ UNCHANGED cinemas
    BY <1>5 DEF feedVars, Edits, AddBooking, UpdateBooking, RemoveBooking, RemoveCinema,
                IssueAllScreens, IssuePendingScreens, IssueBooking, IssueCinemaPending
  <2>2. QED
    BY <1>2, <1>5, <2>1, DatabaseSteps
<1>6. CASE (IssueSteps /\ UNCHANGED feedVars) \/ AnIssueFails
  <2>1. UNCHANGED <<listed, feed, run, unrecorded>> /\ UNCHANGED cinemas /\ issuing # <<>>
    BY <1>6 DEF feedVars, IssueSteps, RecordIssue, MarkIssued, AnIssueFails, IssueFails
  <2>2. QED
    BY <1>2, <2>1, DatabaseSteps
<1>7. CASE Crash
  BY <1>2, <1>7, CrashStep DEF Crash
<1>8. CASE UNCHANGED vars
  BY <1>2, <1>8, DatabaseSteps DEF vars, feedVars, databaseVars
<1>9. QED
  BY <1>3, <1>4, <1>5, <1>6, <1>7, <1>8 DEF Next

LEMMA FeedInit == Init => FeedInv
<1> SUFFICES ASSUME Init PROVE FeedInv
  OBVIOUS
<1>1. /\ cinemas = [f \in Facilities |-> 0] /\ issuing = <<>>
      /\ listed = [f \in Facilities |-> 1] /\ run = [r \in Runs |-> Idle]
      /\ feed = [etag |-> None, modified |-> [f \in Facilities |-> 0]] /\ unrecorded = {}
  BY DEF Init, DatabaseInit, NewFeed
<1>2. \A f \in Facilities :
        1 \in 1..Len(Flm[f]) /\ 0 \in 0..Len(Flm[f]) /\ 1 \in 0..Len(Flm[f])
  BY DistributionAssumption
<1>3. \A f \in Facilities : 0 \in Instants /\ 1 \in Instants
  BY <1>2, InstantsAreVersions
<1>4. listed \in [Facilities -> Instants] /\ cinemas \in [Facilities -> Instants]
      /\ [f \in Facilities |-> 0] \in [Facilities -> Instants]
  BY <1>1, <1>3
<1>5. feed \in FeedStates
  BY <1>1, <1>4 DEF FeedStates
<1>6. FeedTyped
  BY <1>1, <1>2, <1>4, <1>5 DEF FeedTyped
<1>7. \A r \in Runs : run[r] = Idle /\ run[r].phase # "saving"
  BY <1>1 DEF Idle
<1>8. QED
  BY <1>1, <1>6, <1>7 DEF FeedInv, OneHolder

LEMMA AlwaysFeedInv == Spec => []FeedInv
<1>1. FeedInv /\ [Next]_vars => FeedInv'
  BY FeedStep
<1>2. QED
  BY <1>1, FeedInit, PTL DEF Spec

-----------------------------------------------------------------------------
(* The feed state the database holds never claims a message that was not   *)
(* saved, whatever failed, was refused, overlapped or was cut off.         *)
THEOREM FeedStaysBehind == Spec => []FeedNeverAheadOfDatabase
<1>1. FeedInv => FeedNeverAheadOfDatabase
  BY DEF FeedInv, FeedNeverAheadOfDatabase
<1>2. QED
  BY <1>1, AlwaysFeedInv, PTL

(* However many refreshes overlap, one saves an older message over a newer *)
(* only where the feed state that belongs to the newer one could not be    *)
(* saved: every other slower refresh is refused by apply_feed_refresh's    *)
(* comparison.                                                             *)
THEOREM CinemasGoBackOnlyAfterLostState == Spec => OlderFlmOnlyAfterLostState
<1>1. FeedInv /\ [Next]_vars =>
        [\A f \in Facilities : cinemas'[f] >= cinemas[f] \/ f \in unrecorded]_vars
  BY FeedStep
<1>2. QED
  BY <1>1, AlwaysFeedInv, PTL DEF Spec, OlderFlmOnlyAfterLostState

-----------------------------------------------------------------------------
(* Bookings and issues.                                                    *)

IsBooking(x) ==
  /\ x = [terms |-> x.terms, screens |-> x.screens]
  /\ x.terms \in Terms
  /\ DOMAIN x.screens # {} /\ DOMAIN x.screens \subseteq Screens
  /\ IsFiniteSet(DOMAIN x.screens)
  /\ x.screens \in [DOMAIN x.screens -> KdmStates]
  /\ \A s \in DOMAIN x.screens : x.screens[s].needs_reissue => x.screens[s].issued

\* The KDM an issue of now would write.
Current(b, s) == [certificates |-> Certificates(s), terms |-> bookings[b].terms]

(* An issue half done: what it has to record is what it would write now,   *)
(* and what it need not record any more it has recorded.                   *)
PartInv(p) ==
  /\ p = [booking |-> p.booking, kdms |-> p.kdms, record |-> p.record, mark |-> p.mark]
  /\ p.booking \in Bookings /\ IsBooking(bookings[p.booking])
  /\ p.record \in Seq(DOMAIN bookings[p.booking].screens)
  /\ p.mark \in Seq(DOMAIN bookings[p.booking].screens) /\ p.mark # <<>>
  /\ \A s \in ToSet(p.record) : p.kdms[s] = Current(p.booking, s)
  /\ \A s \in ToSet(p.mark) \ ToSet(p.record) :
       issues[p.booking][s] = Current(p.booking, s)

PartsInv ==
  /\ \E S : issuing \in Seq(S)
  /\ \A p \in ToSet(issuing) : PartInv(p)

DatabaseTyped ==
  /\ removed \subseteq Facilities
  /\ DOMAIN bookings = Bookings
  /\ \A b \in Bookings : bookings[b] # None => IsBooking(bookings[b])
  /\ DOMAIN issues = Bookings
  /\ \A b \in Bookings : DOMAIN issues[b] = Screens

DatabaseInv ==
  /\ DatabaseTyped
  /\ PartsInv
  /\ BookedScreensExist
  /\ IssuedKeyIsCurrent

-----------------------------------------------------------------------------
(* The stored screens.                                                     *)

LEMMA FlmVersions ==
  \A f \in Facilities : Len(Flm[f]) \in Nat \ {0} /\ DOMAIN Flm[f] = 1..Len(Flm[f])
BY DistributionAssumption

(* A screen belongs to one facility.                                       *)
LEMMA OneFacility ==
  ASSUME NEW f \in Facilities, NEW g \in Facilities,
         NEW v \in 0..Len(Flm[f]), NEW w \in 0..Len(Flm[g]),
         NEW s \in ScreensIn(f, v), s \in ScreensIn(g, w)
  PROVE  f = g
<1>1. v \in DOMAIN Flm[f] /\ s \in DOMAIN Flm[f][v]
  BY FlmVersions DEF ScreensIn
<1>2. w \in DOMAIN Flm[g] /\ s \in DOMAIN Flm[g][w]
  BY FlmVersions DEF ScreensIn
<1>3. QED
  BY <1>1, <1>2, DistributionAssumption

LEMMA BookingIsStored ==
  ASSUME NEW x, IsBooking(x) PROVE x # None
<1>1. x.terms \in Terms
  BY DEF IsBooking
<1>2. x.screens \in UNION {[S -> KdmStates] : S \in SUBSET Screens}
  BY DEF IsBooking
<1>3. x = [terms |-> x.terms, screens |-> x.screens]
  BY DEF IsBooking
<1>4. x \in BookingRecords
  BY <1>1, <1>2, <1>3 DEF BookingRecords
<1>5. QED
  BY <1>4, DistributionAssumption

(* What is left of a part after a step of its issue.                       *)
LEMMA PartFields ==
  ASSUME NEW p, NEW x,
         p = [booking |-> p.booking, kdms |-> p.kdms, record |-> p.record, mark |-> p.mark]
  PROVE  /\ [p EXCEPT !.record = x] = [booking |-> p.booking, kdms |-> p.kdms,
                                       record |-> x, mark |-> p.mark]
         /\ [p EXCEPT !.mark = x] = [booking |-> p.booking, kdms |-> p.kdms,
                                     record |-> p.record, mark |-> x]
<1>1. PICK b, k, r, m : b = p.booking /\ k = p.kdms /\ r = p.record /\ m = p.mark
  OBVIOUS
<1>2. p = [booking |-> b, kdms |-> k, record |-> r, mark |-> m]
  BY <1>1
<1>3. /\ [p EXCEPT !.record = x] = [booking |-> b, kdms |-> k, record |-> x, mark |-> m]
      /\ [p EXCEPT !.mark = x] = [booking |-> b, kdms |-> k, record |-> r, mark |-> x]
  BY <1>2
<1>4. QED
  BY <1>1, <1>3

Versioned == \A f \in Facilities : cinemas[f] \in 0..Len(Flm[f])

LEMMA CinemasVersioned ==
  ASSUME FeedTyped PROVE Versioned
BY FeedNumbers DEF Versioned

LEMMA CertificatesOf ==
  ASSUME Versioned, NEW f \in Facilities, NEW s \in ScreensOf(f)
  PROVE  Certificates(s) = Flm[f][cinemas[f]][s]
<1>1. \A g \in Facilities : s \in ScreensOf(g) => g = f
  BY OneFacility DEF ScreensOf, Versioned
<1>2. (CHOOSE g \in Facilities : s \in ScreensOf(g)) = f
  BY <1>1
<1>3. QED
  BY <1>2 DEF Certificates

\* The same of the next state.
LEMMA CertificatesAfter ==
  ASSUME Versioned', NEW f \in Facilities, NEW s, (s \in ScreensOf(f))'
  PROVE  Certificates(s)' = Flm[f][cinemas'[f]][s]
<1>1. \A g \in Facilities : (s \in ScreensOf(g))' => g = f
  BY OneFacility DEF ScreensOf, Versioned
<1>2. (CHOOSE g \in Facilities : (s \in ScreensOf(g))') = f
  BY <1>1
<1>3. QED
  BY <1>2 DEF Certificates

LEMMA StoredAreScreens ==
  ASSUME Versioned PROVE StoredScreens \subseteq Screens
<1> SUFFICES ASSUME NEW f \in Facilities, NEW s \in ScreensIn(f, cinemas[f])
             PROVE  s \in Screens
  BY DEF StoredScreens, ScreensOf
<1>1. cinemas[f] \in DOMAIN Flm[f] /\ s \in DOMAIN Flm[f][cinemas[f]]
  BY FlmVersions DEF ScreensIn, Versioned
<1>2. QED
  BY <1>1 DEF Screens

(* Flagging leaves what is issued and flags the issued of the changed.     *)
LEMMA Flagging ==
  ASSUME NEW D, NEW screens \in [D -> KdmStates], NEW changed
  PROVE  /\ Flagged(screens, changed) \in [D -> KdmStates]
         /\ \A s \in D :
              LET flagged == Flagged(screens, changed)[s] IN
              /\ flagged.issued = screens[s].issued
              /\ flagged.needs_reissue
                   <=> screens[s].needs_reissue \/ (s \in changed /\ screens[s].issued)
<1>1. DOMAIN screens = D
  OBVIOUS
<1>2. ASSUME NEW s \in D
      PROVE  LET flagged == [screens[s] EXCEPT !.needs_reissue =
                               @ \/ (s \in changed /\ screens[s].issued)] IN
             /\ flagged \in KdmStates
             /\ flagged.issued = screens[s].issued
             /\ flagged.needs_reissue
                  <=> screens[s].needs_reissue \/ (s \in changed /\ screens[s].issued)
  <2>1. screens[s] \in KdmStates
    OBVIOUS
  <2>2. QED
    BY <2>1 DEF KdmStates
<1>3. QED
  BY <1>1, <1>2 DEF Flagged

LEMMA SameScreens ==
  ASSUME UNCHANGED <<cinemas, removed>>
  PROVE  /\ StoredScreens' = StoredScreens
         /\ \A f : ScreensOf(f)' = ScreensOf(f)
         /\ \A s : Certificates(s)' = Certificates(s)
BY DEF StoredScreens, ScreensOf, Certificates

LEMMA NoParts ==
  /\ issuing = <<>> => PartsInv
  /\ issuing' = <<>> => PartsInv'
<1>1. <<>> \in Seq({}) /\ ToSet(<<>>) = {}
  BY EmptySeq DEF ToSet
<1>2. QED
  BY <1>1 DEF PartsInv

-----------------------------------------------------------------------------
(* The user's edits.                                                       *)

(* One booking changes while no issue runs.                                *)
LEMMA OneBookingChanges ==
  ASSUME DatabaseInv, NEW b \in Bookings,
         UNCHANGED <<cinemas, removed>>, issuing' = <<>>,
         DOMAIN bookings' = Bookings, \A c \in Bookings \ {b} : bookings'[c] = bookings[c],
         DOMAIN issues' = Bookings, \A c \in Bookings \ {b} : issues'[c] = issues[c],
         DOMAIN issues'[b] = Screens,
         bookings'[b] # None =>
           IsBooking(bookings'[b]) /\ DOMAIN bookings'[b].screens \subseteq StoredScreens,
         \A s \in BookedScreens(b)' \ Pending(b)' : issues'[b][s] = Current(b, s)'
  PROVE  DatabaseInv'
<1>1. /\ StoredScreens' = StoredScreens
      /\ \A s : Certificates(s)' = Certificates(s)
  BY SameScreens
<1>2. DatabaseTyped'
  BY DEF DatabaseInv, DatabaseTyped
<1>3. PartsInv'
  BY NoParts
<1>4. \A c \in Bookings \ {b} :
        /\ BookedScreens(c)' = BookedScreens(c)
        /\ Pending(c)' = Pending(c)
  BY DEF BookedScreens, Pending
<1>5. BookedScreensExist'
  <2>1. BookedScreens(b)' \subseteq StoredScreens
    BY DEF BookedScreens
  <2>2. QED
    BY <1>1, <1>4, <2>1 DEF DatabaseInv, BookedScreensExist
<1>6. IssuedKeyIsCurrent'
  <2> SUFFICES ASSUME NEW c \in Bookings, NEW s \in BookedScreens(c)' \ Pending(c)'
               PROVE  issues'[c][s] = [certificates |-> Certificates(s)',
                                       terms |-> bookings'[c].terms]
    BY DEF IssuedKeyIsCurrent
  <2>1. CASE c = b
    BY <2>1 DEF Current
  <2>2. CASE c # b
    BY <1>1, <1>4, <2>2 DEF DatabaseInv, IssuedKeyIsCurrent
  <2>3. QED
    BY <2>1, <2>2
<1>7. QED
  BY <1>2, <1>3, <1>5, <1>6 DEF DatabaseInv

LEMMA AddBookingStep ==
  ASSUME FeedTyped, DatabaseInv, NEW b \in Bookings,
         NEW screens \in Selections, NEW terms \in Terms,
         AddBooking(b, screens, terms)
  PROVE  DatabaseInv'
<1> DEFINE booked == [terms |-> terms, screens |-> [s \in screens |-> NewlyBooked]]
<1>1. /\ UNCHANGED <<cinemas, removed, issues>> /\ issuing' = <<>>
      /\ screens # {} /\ screens \subseteq StoredScreens
      /\ bookings' = [bookings EXCEPT ![b] = booked]
  BY DEF AddBooking, Edit
<1>2. DOMAIN bookings = Bookings /\ DOMAIN issues = Bookings /\ DOMAIN issues[b] = Screens
  BY DEF DatabaseInv, DatabaseTyped
<1>3. bookings'[b] = booked /\ DOMAIN bookings' = Bookings
      /\ \A c \in Bookings \ {b} : bookings'[c] = bookings[c]
  BY <1>1, <1>2
<1>4. IsFiniteSet(screens) /\ screens \subseteq Screens
  BY <1>1, CinemasVersioned, StoredAreScreens, DistributionAssumption
<1>5. IsBooking(booked)
  BY <1>1, <1>4 DEF IsBooking, NewlyBooked, KdmStates
<1>6. BookedScreens(b)' \subseteq Pending(b)'
  BY <1>3 DEF BookedScreens, Pending, NewlyBooked
<1>7. QED
  BY <1>1, <1>2, <1>3, <1>5, <1>6, OneBookingChanges

LEMMA UpdateBookingStep ==
  ASSUME FeedTyped, DatabaseInv, NEW b \in Bookings,
         NEW screens \in Selections, NEW terms \in Terms,
         UpdateBooking(b, screens, terms)
  PROVE  DatabaseInv'
<1> DEFINE old == bookings[b].screens
           kept == [s \in screens |-> IF s \in BookedScreens(b) THEN old[s] ELSE NewlyBooked]
           new == IF terms = bookings[b].terms THEN kept ELSE Flagged(kept, screens)
           updated == [terms |-> terms, screens |-> new]
<1>1. /\ UNCHANGED <<cinemas, removed, issues>> /\ issuing' = <<>> /\ bookings[b] # None
      /\ screens # {} /\ screens \subseteq StoredScreens
      /\ bookings' = [bookings EXCEPT ![b] = updated]
  BY DEF UpdateBooking, Edit
<1>2. /\ DOMAIN bookings = Bookings /\ DOMAIN issues = Bookings
      /\ DOMAIN issues[b] = Screens /\ IsBooking(bookings[b])
  BY <1>1 DEF DatabaseInv, DatabaseTyped
<1>3. /\ BookedScreens(b) = DOMAIN old /\ old \in [DOMAIN old -> KdmStates]
      /\ \A s \in DOMAIN old : old[s].needs_reissue => old[s].issued
  BY <1>1, <1>2 DEF BookedScreens, IsBooking
<1>4. IsFiniteSet(screens) /\ screens \subseteq Screens
  BY <1>1, CinemasVersioned, StoredAreScreens, DistributionAssumption
<1>5. /\ kept \in [screens -> KdmStates]
      /\ \A s \in screens : kept[s].needs_reissue => kept[s].issued
      /\ \A s \in screens : kept[s].issued => s \in DOMAIN old /\ kept[s] = old[s]
  BY <1>3 DEF NewlyBooked, KdmStates
<1> HIDE DEF kept
<1>6. /\ new \in [screens -> KdmStates]
      /\ \A s \in screens :
           /\ new[s].needs_reissue => new[s].issued
           /\ new[s].issued /\ ~new[s].needs_reissue
                => terms = bookings[b].terms /\ s \in DOMAIN old /\ new[s] = old[s]
  <2>1. CASE terms = bookings[b].terms
    BY <1>5, <2>1
  <2>2. CASE terms # bookings[b].terms
    BY <1>5, <2>2, Flagging
  <2>3. QED
    BY <2>1, <2>2
<1> HIDE DEF new
<1>7. bookings'[b] = updated /\ DOMAIN bookings' = Bookings
      /\ \A c \in Bookings \ {b} : bookings'[c] = bookings[c]
  BY <1>1, <1>2
<1>8. updated.terms = terms /\ updated.screens = new /\ DOMAIN new = screens
  BY <1>6
<1>9. IsBooking(updated)
  BY <1>1, <1>4, <1>6, <1>8 DEF IsBooking
<1>10. ASSUME NEW s \in BookedScreens(b)' \ Pending(b)'
       PROVE  issues'[b][s] = Current(b, s)'
  <2>1. s \in screens /\ new[s].issued /\ ~new[s].needs_reissue
    BY <1>7, <1>8, <1>10 DEF BookedScreens, Pending
  <2>2. terms = bookings[b].terms /\ s \in BookedScreens(b) \ Pending(b)
    BY <1>3, <1>6, <2>1 DEF Pending
  <2>3. issues[b][s] = [certificates |-> Certificates(s), terms |-> terms]
    BY <2>2 DEF DatabaseInv, IssuedKeyIsCurrent
  <2>4. Certificates(s)' = Certificates(s)
    BY <1>1, SameScreens
  <2>5. QED
    BY <1>1, <1>7, <1>8, <2>3, <2>4 DEF Current
<1>11. QED
  BY <1>1, <1>2, <1>7, <1>8, <1>9, <1>10, OneBookingChanges

LEMMA RemoveBookingStep ==
  ASSUME DatabaseInv, NEW b \in Bookings, RemoveBooking(b)
  PROVE  DatabaseInv'
<1>1. /\ UNCHANGED <<cinemas, removed>> /\ issuing' = <<>>
      /\ bookings' = [bookings EXCEPT ![b] = None]
      /\ issues' = [issues EXCEPT ![b] = [s \in Screens |-> None]]
  BY DEF RemoveBooking, Edit
<1>2. DOMAIN bookings = Bookings /\ DOMAIN issues = Bookings
  BY DEF DatabaseInv, DatabaseTyped
<1>3. /\ bookings'[b] = None /\ DOMAIN bookings' = Bookings
      /\ \A c \in Bookings \ {b} : bookings'[c] = bookings[c]
      /\ DOMAIN issues' = Bookings /\ DOMAIN issues'[b] = Screens
      /\ \A c \in Bookings \ {b} : issues'[c] = issues[c]
  BY <1>1, <1>2
<1>4. BookedScreens(b)' = {}
  BY <1>3 DEF BookedScreens
<1>5. QED
  BY <1>1, <1>3, <1>4, OneBookingChanges

LEMMA RemoveCinemaStep ==
  ASSUME FeedTyped, DatabaseInv, NEW f \in Facilities, RemoveCinema(f)
  PROVE  DatabaseInv'
<1>1. /\ UNCHANGED <<cinemas, bookings, issues>> /\ issuing' = <<>>
      /\ removed' = removed \cup {f} /\ \A s \in ScreensOf(f) : ~Booked(s)
  BY DEF RemoveCinema, Edit
<1>2. \A c \in Bookings : BookedScreens(c)' = BookedScreens(c) /\ Pending(c)' = Pending(c)
  BY <1>1 DEF BookedScreens, Pending
<1>3. Versioned /\ Versioned'
  BY <1>1, CinemasVersioned DEF Versioned
<1>4. ASSUME NEW c \in Bookings, NEW s \in BookedScreens(c)
      PROVE  \E g \in Facilities : /\ s \in ScreensOf(g) /\ (s \in ScreensOf(g))'
                                   /\ Certificates(s)' = Certificates(s)
  <2>1. PICK g \in Facilities : s \in ScreensOf(g)
    BY DEF DatabaseInv, BookedScreensExist, StoredScreens
  <2>2. g # f
    BY <1>1, <2>1 DEF Booked
  <2>3. (s \in ScreensOf(g))'
    BY <1>1, <2>1, <2>2 DEF ScreensOf
  <2>4. Certificates(s) = Flm[g][cinemas[g]][s] /\ Certificates(s)' = Flm[g][cinemas'[g]][s]
    BY <1>3, <2>1, <2>3, CertificatesOf, CertificatesAfter
  <2>5. QED
    BY <1>1, <2>1, <2>3, <2>4
<1>5. DatabaseTyped'
  BY <1>1 DEF DatabaseInv, DatabaseTyped
<1>6. BookedScreensExist'
  BY <1>2, <1>4 DEF BookedScreensExist, StoredScreens
<1>7. IssuedKeyIsCurrent'
  BY <1>1, <1>2, <1>4 DEF DatabaseInv, IssuedKeyIsCurrent
<1>8. QED
  BY <1>1, <1>5, <1>6, <1>7, NoParts DEF DatabaseInv

-----------------------------------------------------------------------------
(* An issue: begun with what it would write now, it records all of a       *)
(* booking's KDMs before it marks the first screen.                        *)

LEMMA PartBegins ==
  ASSUME DatabaseInv, NEW b \in Bookings, bookings[b] # None,
         NEW written \in SUBSET BookedScreens(b), written # {}
  PROVE  PartInv(Part(b, written))
<1> DEFINE D == DOMAIN bookings[b].screens
           seq == SetToSeq(written)
           p == Part(b, written)
<1>1. IsBooking(bookings[b]) /\ BookedScreens(b) = D
  BY DEF DatabaseInv, DatabaseTyped, BookedScreens
<1>2. IsFiniteSet(written)
  BY <1>1, FS_Subset DEF IsBooking
<1>3. seq \in Seq(written) /\ ToSet(seq) = written
  BY <1>2, SetListed
<1>4. seq \in Seq(D)
  BY <1>1, <1>3
<1>5. seq # <<>>
  <2>1. ToSet(<<>>) = {}
    BY DEF ToSet
  <2>2. QED
    BY <1>3, <2>1
<1>6. p = [booking |-> b,
           kdms |-> [s \in written |-> [certificates |-> Certificates(s),
                                        terms |-> bookings[b].terms]],
           record |-> seq, mark |-> seq]
  BY DEF Part
<1> HIDE DEF seq, p
<1>7. /\ p = [booking |-> p.booking, kdms |-> p.kdms, record |-> p.record, mark |-> p.mark]
      /\ p.booking = b /\ p.record = seq /\ p.mark = seq
      /\ \A s \in written : p.kdms[s] = Current(b, s)
  BY <1>6 DEF Current
<1>8. PartInv(p)
  BY <1>1, <1>3, <1>4, <1>5, <1>7 DEF PartInv
<1>9. QED
  BY <1>8 DEF p

LEMMA PartKept ==
  ASSUME UNCHANGED <<cinemas, removed, bookings, issues>>, NEW p, PartInv(p)
  PROVE  PartInv(p)'
<1>1. \A s : Certificates(s)' = Certificates(s)
  BY SameScreens
<1>2. QED
  BY <1>1 DEF PartInv, Current

\* Only the list of parts changes.
LEMMA OnlyParts ==
  ASSUME DatabaseInv, UNCHANGED <<cinemas, removed, bookings, issues>>, PartsInv'
  PROVE  DatabaseInv'
<1>1. /\ StoredScreens' = StoredScreens
      /\ \A s : Certificates(s)' = Certificates(s)
  BY SameScreens
<1>2. \A b \in Bookings : BookedScreens(b)' = BookedScreens(b) /\ Pending(b)' = Pending(b)
  BY DEF BookedScreens, Pending
<1>3. BookedScreensExist' /\ IssuedKeyIsCurrent'
  BY <1>1, <1>2 DEF DatabaseInv, BookedScreensExist, IssuedKeyIsCurrent
<1>4. QED
  BY <1>3 DEF DatabaseInv, DatabaseTyped

LEMMA IssueBookingStep ==
  ASSUME DatabaseInv, NEW b \in Bookings,
         IssueAllScreens(b) \/ IssuePendingScreens(b)
  PROVE  DatabaseInv'
<1>1. Pending(b) \subseteq BookedScreens(b)
  BY DEF Pending
<1>2. /\ bookings[b] # None /\ UNCHANGED <<cinemas, removed, bookings, issues>>
      /\ \E written \in SUBSET BookedScreens(b) :
           written # {} /\ issuing' = <<Part(b, written)>>
  BY <1>1 DEF IssueAllScreens, IssuePendingScreens, IssueBooking
<1>3. PICK written \in SUBSET BookedScreens(b) :
        written # {} /\ issuing' = <<Part(b, written)>>
  BY <1>2
<1>4. PICK p : p = Part(b, written)
  OBVIOUS
<1>5. PartInv(p)'
  <2>1. PartInv(p)
    BY <1>2, <1>3, <1>4, PartBegins
  <2>2. QED
    BY <1>2, <2>1, PartKept
<1>6. issuing' = <<p>>
  BY <1>3, <1>4
<1>7. issuing' \in Seq({p}) /\ ToSet(issuing') = {p}
  BY <1>6 DEF ToSet
<1>8. PartsInv'
  BY <1>5, <1>7 DEF PartsInv
<1>9. QED
  BY <1>2, <1>8, OnlyParts

LEMMA IssueCinemaPendingStep ==
  ASSUME DatabaseInv, NEW f \in Facilities, IssueCinemaPending(f)
  PROVE  DatabaseInv'
<1> DEFINE here(b) == Pending(b) \cap ScreensOf(f)
<1>1. UNCHANGED <<cinemas, removed, bookings, issues>>
  BY DEF IssueCinemaPending
<1>11. PICK due \in SUBSET {b \in Bookings : here(b) # {}} :
         \E written \in [due -> SUBSET ScreensOf(f)] :
           /\ \A b \in due : written[b] # {} /\ written[b] \subseteq here(b)
           /\ issuing' = [i \in 1..Cardinality(due) |->
                Part(SetToSeq(due)[i], written[SetToSeq(due)[i]])]
  BY DEF IssueCinemaPending
<1> DEFINE n == Cardinality(due)
           order == SetToSeq(due)
<1>2. PICK written \in [due -> SUBSET ScreensOf(f)] :
        /\ \A b \in due : written[b] # {} /\ written[b] \subseteq here(b)
        /\ issuing' = [i \in 1..n |-> Part(order[i], written[order[i]])]
  BY <1>11
<1>3. IsFiniteSet(due)
  BY FS_Subset, DistributionAssumption
<1>4. n \in Nat /\ order \in Seq(due) /\ Len(order) = n
  BY <1>3, SetListed, FS_CardinalityType
<1>5. \A i \in 1..n : order[i] \in due
  BY <1>4, ElementOfSeq
<1>6. PICK parts : parts = [i \in 1..n |-> Part(order[i], written[order[i]])]
  OBVIOUS
<1>7. ASSUME NEW i \in 1..n
      PROVE  PartInv(parts[i])'
  <2> DEFINE b == order[i]
  <2>1. b \in due /\ b \in Bookings
    BY <1>5
  <2> HIDE DEF b
  <2>2. bookings[b] # None /\ written[b] \in SUBSET BookedScreens(b) /\ written[b] # {}
    BY <1>2, <2>1 DEF Pending, BookedScreens
  <2>3. PartInv(Part(b, written[b]))
    BY <2>1, <2>2, PartBegins
  <2>4. PartInv(parts[i])
    BY <1>6, <2>3 DEF b
  <2>5. QED
    BY <1>1, <2>4, PartKept
<1>8. PartsInv'
  <2>1. issuing' = parts
    BY <1>2, <1>6
  <2> DEFINE S == {parts[i] : i \in 1..n}
  <2>2. parts \in [1..n -> S]
    BY <1>6
  <2> HIDE DEF S, n
  <2>3. parts \in Seq(S) /\ DOMAIN parts = 1..n
    BY <1>4, <2>2, SeqDef
  <2>4. \A p \in ToSet(parts) : PartInv(p)'
    BY <1>7, <2>3 DEF ToSet
  <2>5. QED
    BY <2>1, <2>3, <2>4 DEF PartsInv
<1>9. QED
  BY <1>1, <1>8, OnlyParts

(* The first part, and the parts that are left without it or with it       *)
(* changed.                                                                *)
LEMMA FirstPart ==
  ASSUME PartsInv, issuing # <<>>
  PROVE  /\ PartInv(Head(issuing)) /\ Head(issuing) = issuing[1]
         /\ \E S : Tail(issuing) \in Seq(S)
         /\ ToSet(Tail(issuing)) \subseteq ToSet(issuing)
         /\ \A q : /\ \E S : [issuing EXCEPT ![1] = q] \in Seq(S)
                   /\ ToSet([issuing EXCEPT ![1] = q]) \subseteq ToSet(issuing) \cup {q}
<1>1. PICK S : issuing \in Seq(S)
  BY DEF PartsInv
<1>2. /\ Head(issuing) = issuing[1] /\ Len(issuing) \in Nat \ {0}
      /\ DOMAIN issuing = 1..Len(issuing)
  BY <1>1, EmptySeq, LenProperties, HeadTailProperties
<1>3. Tail(issuing) \in Seq(S) /\ ToSet(issuing) = {Head(issuing)} \cup ToSet(Tail(issuing))
  BY <1>1, HeadAndTail
<1>4. ASSUME NEW q
      PROVE  /\ \E T : [issuing EXCEPT ![1] = q] \in Seq(T)
             /\ ToSet([issuing EXCEPT ![1] = q]) \subseteq ToSet(issuing) \cup {q}
  <2> DEFINE new == [issuing EXCEPT ![1] = q]
  <2>1. issuing \in Seq(S \cup {q}) /\ 1 \in 1..Len(issuing)
    BY <1>1, <1>2, SeqMonotonic
  <2>2. /\ new \in Seq(S \cup {q}) /\ Len(new) = Len(issuing)
        /\ \A j \in 1..Len(issuing) : new[j] = IF j = 1 THEN q ELSE issuing[j]
    BY <2>1, ExceptSeq
  <2> HIDE DEF new
  <2>3. DOMAIN new = 1..Len(issuing)
    BY <2>2, LenProperties
  <2>4. ToSet(new) \subseteq ToSet(issuing) \cup {q}
    BY <1>2, <2>2, <2>3 DEF ToSet
  <2>5. QED
    BY <2>2, <2>4 DEF new
<1>5. QED
  BY <1>2, <1>3, <1>4 DEF PartsInv

LEMMA IssueFailsStep ==
  ASSUME DatabaseInv, issuing # <<>>, issuing' = Tail(issuing),
         UNCHANGED <<cinemas, removed, bookings, issues>>
  PROVE  DatabaseInv'
<1>1. /\ \E S : Tail(issuing) \in Seq(S)
      /\ ToSet(Tail(issuing)) \subseteq ToSet(issuing)
  BY FirstPart DEF DatabaseInv
<1>2. \A p \in ToSet(issuing) : PartInv(p)'
  BY PartKept DEF DatabaseInv, PartsInv
<1>3. PartsInv'
  BY <1>1, <1>2 DEF PartsInv
<1>4. QED
  BY <1>3, OnlyParts

LEMMA RecordIssueStep ==
  ASSUME DatabaseInv, RecordIssue
  PROVE  DatabaseInv'
<1>1. PICK p : p = Head(issuing)
  OBVIOUS
<1> DEFINE b == p.booking
           D == DOMAIN bookings[b].screens
           screen == Head(p.record)
           q == [p EXCEPT !.record = Tail(p.record)]
<1>2. /\ issuing # <<>> /\ p.record # <<>>
      /\ UNCHANGED <<cinemas, removed, bookings>>
      /\ issues' = [issues EXCEPT ![b][screen] = p.kdms[screen]]
      /\ issuing' = [issuing EXCEPT ![1].record = Tail(@)]
  BY <1>1 DEF RecordIssue
<1>3. /\ PartInv(p) /\ p = issuing[1]
      /\ \E S : [issuing EXCEPT ![1] = q] \in Seq(S)
      /\ ToSet([issuing EXCEPT ![1] = q]) \subseteq ToSet(issuing) \cup {q}
  BY <1>1, <1>2, FirstPart DEF DatabaseInv
<1>4. issuing' = [issuing EXCEPT ![1] = q]
  BY <1>2, <1>3
<1>5. /\ p = [booking |-> b, kdms |-> p.kdms, record |-> p.record, mark |-> p.mark]
      /\ b \in Bookings /\ IsBooking(bookings[b])
      /\ p.record \in Seq(D) /\ p.mark \in Seq(D) /\ p.mark # <<>>
  BY <1>3 DEF PartInv
<1>6. /\ screen \in D /\ Tail(p.record) \in Seq(D)
      /\ ToSet(p.record) = {screen} \cup ToSet(Tail(p.record))
  BY <1>2, <1>5, HeadAndTail
<1>7. screen \in Screens /\ p.kdms[screen] = Current(b, screen)
  BY <1>3, <1>5, <1>6 DEF PartInv, IsBooking
<1>8. /\ q = [booking |-> b, kdms |-> p.kdms, record |-> Tail(p.record), mark |-> p.mark]
      /\ q.booking = b /\ q.kdms = p.kdms /\ q.record = Tail(p.record)
      /\ q.mark = p.mark
  <2>1. q = [booking |-> b, kdms |-> p.kdms, record |-> Tail(p.record), mark |-> p.mark]
    <3>1. p = [booking |-> p.booking, kdms |-> p.kdms, record |-> p.record, mark |-> p.mark]
      BY <1>5
    <3>2. QED
      BY <3>1, PartFields
  <2> HIDE DEF q
  <2>2. QED
    BY <2>1
<1> HIDE DEF q, screen
<1>9. \A s : Certificates(s)' = Certificates(s)
  BY <1>2, SameScreens
<1>10. \A c, s : Current(c, s)' = Current(c, s)
  BY <1>2, <1>9 DEF Current
<1>11. DOMAIN issues = Bookings /\ \A c \in Bookings : DOMAIN issues[c] = Screens
  BY DEF DatabaseInv, DatabaseTyped
<1>12. /\ DOMAIN issues' = Bookings /\ \A c \in Bookings : DOMAIN issues'[c] = Screens
       /\ \A c \in Bookings, s \in Screens :
            issues'[c][s] = IF c = b /\ s = screen THEN Current(b, screen)
                            ELSE issues[c][s]
  BY <1>2, <1>5, <1>7, <1>11
<1>13. ASSUME NEW r \in ToSet(issuing)
       PROVE  PartInv(r)'
  <2>1. PartInv(r)
    BY DEF DatabaseInv, PartsInv
  <2>2. ToSet(r.mark) \subseteq Screens
    <3>1. r.mark \in Seq(DOMAIN bookings[r.booking].screens)
          /\ DOMAIN bookings[r.booking].screens \subseteq Screens
      BY <2>1 DEF PartInv, IsBooking
    <3>2. QED
      BY <3>1, LenProperties DEF ToSet
  <2>3. \A s \in ToSet(r.mark) \ ToSet(r.record) : issues'[r.booking][s] = Current(r.booking, s)
    BY <1>12, <2>1, <2>2 DEF PartInv
  <2>4. QED
    BY <1>2, <1>10, <2>1, <2>3 DEF PartInv
<1>14. PartInv(p)' /\ PartInv(p)
  <2>1. p \in ToSet(issuing)
    <3>1. PICK S : issuing \in Seq(S)
      BY DEF DatabaseInv, PartsInv
    <3>2. ToSet(issuing) = {Head(issuing)} \cup ToSet(Tail(issuing))
      BY <1>2, <3>1, HeadAndTail
    <3>3. QED
      BY <1>1, <3>2
  <2>2. QED
    BY <1>3, <1>13, <2>1
<1>15. PICK new : new = q
  OBVIOUS
<1>16. PartInv(new)'
  <2>1. \A s \in ToSet(p.mark) \ ToSet(Tail(p.record)) : issues'[b][s] = Current(b, s)
    <3>1. ToSet(p.mark) \subseteq Screens
      BY <1>5, LenProperties DEF ToSet, IsBooking
    <3>2. QED
      BY <1>5, <1>6, <1>7, <1>12, <1>14, <3>1 DEF PartInv
  <2>2. \A s \in ToSet(Tail(p.record)) : p.kdms[s] = Current(b, s)
    BY <1>3, <1>6 DEF PartInv
  <2>3. QED
    BY <1>2, <1>5, <1>6, <1>8, <1>10, <1>15, <2>1, <2>2 DEF PartInv
<1>17. PartsInv'
  BY <1>3, <1>4, <1>13, <1>15, <1>16 DEF PartsInv
<1>18. \A c \in Bookings : BookedScreens(c)' = BookedScreens(c) /\ Pending(c)' = Pending(c)
  BY <1>2 DEF BookedScreens, Pending
<1>19. IssuedKeyIsCurrent'
  <2> SUFFICES ASSUME NEW c \in Bookings, NEW s \in BookedScreens(c) \ Pending(c)
               PROVE  issues'[c][s] = Current(c, s)
    BY <1>10, <1>18 DEF IssuedKeyIsCurrent, Current
  <2>1. issues[c][s] = Current(c, s)
    BY DEF DatabaseInv, IssuedKeyIsCurrent, Current
  <2>2. s \in Screens
    BY DEF DatabaseInv, DatabaseTyped, BookedScreens, IsBooking
  <2>3. QED
    BY <1>12, <2>1, <2>2
<1>20. DatabaseTyped' /\ BookedScreensExist'
  BY <1>2, <1>12, <1>18, SameScreens DEF DatabaseInv, DatabaseTyped, BookedScreensExist
<1>21. QED
  BY <1>17, <1>19, <1>20 DEF DatabaseInv

(* A screen is marked only with its KDM recorded.                          *)
LEMMA MarkIssuedStep ==
  ASSUME DatabaseInv, MarkIssued
  PROVE  DatabaseInv'
<1>1. PICK p : p = Head(issuing)
  OBVIOUS
<1> DEFINE b == p.booking
           D == DOMAIN bookings[b].screens
           screen == Head(p.mark)
           left == Tail(p.mark)
           q == [p EXCEPT !.mark = left]
           marked == [issued |-> TRUE, needs_reissue |-> FALSE]
<1>2. /\ issuing # <<>> /\ p.record = <<>>
      /\ UNCHANGED <<cinemas, removed, issues>>
      /\ bookings' = [bookings EXCEPT ![b].screens[screen] = marked]
      /\ issuing' = IF left = <<>> THEN Tail(issuing) ELSE [issuing EXCEPT ![1].mark = left]
  BY <1>1 DEF MarkIssued, MayMark
<1>3. /\ PartInv(p) /\ p = issuing[1]
      /\ \E S : Tail(issuing) \in Seq(S)
      /\ ToSet(Tail(issuing)) \subseteq ToSet(issuing)
      /\ \E S : [issuing EXCEPT ![1] = q] \in Seq(S)
      /\ ToSet([issuing EXCEPT ![1] = q]) \subseteq ToSet(issuing) \cup {q}
  BY <1>1, <1>2, FirstPart DEF DatabaseInv
<1>4. /\ p = [booking |-> b, kdms |-> p.kdms, record |-> p.record, mark |-> p.mark]
      /\ b \in Bookings /\ IsBooking(bookings[b])
      /\ p.mark \in Seq(D) /\ p.mark # <<>>
  BY <1>3 DEF PartInv
<1>5. /\ screen \in D /\ left \in Seq(D)
      /\ ToSet(p.mark) = {screen} \cup ToSet(left)
  BY <1>4, HeadAndTail
<1>6. ToSet(p.record) = {}
  BY <1>2 DEF ToSet
<1>7. \A s \in ToSet(p.mark) : issues[b][s] = Current(b, s)
  BY <1>3, <1>6 DEF PartInv
<1>8. issuing' = IF left = <<>> THEN Tail(issuing) ELSE [issuing EXCEPT ![1] = q]
  BY <1>2, <1>3
<1>9. /\ q = [booking |-> b, kdms |-> p.kdms, record |-> <<>>, mark |-> left]
      /\ q.booking = b /\ q.kdms = p.kdms /\ q.record = <<>> /\ q.mark = left
  <2>1. q = [booking |-> b, kdms |-> p.kdms, record |-> p.record, mark |-> left]
    <3>1. p = [booking |-> p.booking, kdms |-> p.kdms, record |-> p.record, mark |-> p.mark]
      BY <1>4
    <3>2. QED
      BY <3>1, PartFields
  <2> HIDE DEF q
  <2>2. QED
    BY <1>2, <2>1
<1> HIDE DEF q, screen, left
<1>10. /\ DOMAIN bookings' = Bookings
       /\ \A c \in Bookings \ {b} : bookings'[c] = bookings[c]
       /\ bookings'[b] = [terms |-> bookings[b].terms,
                          screens |-> [bookings[b].screens EXCEPT ![screen] = marked]]
  <2>1. DOMAIN bookings = Bookings
    BY DEF DatabaseInv, DatabaseTyped
  <2>2. bookings[b] = [terms |-> bookings[b].terms, screens |-> bookings[b].screens]
    BY <1>4 DEF IsBooking
  <2>3. bookings'[b] = [bookings[b] EXCEPT !.screens[screen] = marked]
    BY <1>2, <1>4, <2>1
  <2>4. QED
    BY <1>2, <1>4, <2>1, <2>2, <2>3
<1> DEFINE screens == [bookings[b].screens EXCEPT ![screen] = marked]
<1>11. /\ screens \in [D -> KdmStates] /\ screens[screen] = marked
       /\ \A s \in D : s # screen => screens[s] = bookings[b].screens[s]
       /\ DOMAIN screens = D
  <2>1. marked \in KdmStates /\ bookings[b].screens \in [D -> KdmStates]
    BY <1>4 DEF KdmStates, IsBooking
  <2>2. QED
    BY <1>5, <2>1
<1> HIDE DEF screens
<1>12. bookings'[b].terms = bookings[b].terms /\ bookings'[b].screens = screens
  BY <1>10 DEF screens
<1>13. IsBooking(bookings'[b]) /\ DOMAIN bookings'[b].screens = D
  <2>1. bookings'[b] = [terms |-> bookings'[b].terms, screens |-> bookings'[b].screens]
    BY <1>10
  <2>2. \A s \in D : screens[s].needs_reissue => screens[s].issued
    BY <1>4, <1>11 DEF IsBooking
  <2>3. QED
    BY <1>4, <1>11, <1>12, <2>1, <2>2 DEF IsBooking
<1>14. \A c \in Bookings :
         /\ bookings'[c].terms = bookings[c].terms
         /\ IsBooking(bookings[c]) => /\ IsBooking(bookings'[c])
                                      /\ DOMAIN bookings'[c].screens
                                           = DOMAIN bookings[c].screens
  BY <1>10, <1>12, <1>13
<1>15. \A s : Certificates(s)' = Certificates(s)
  BY <1>2, SameScreens
<1>16. \A c \in Bookings : \A s : Current(c, s)' = Current(c, s)
  BY <1>14, <1>15 DEF Current
<1>17. ASSUME NEW r \in ToSet(issuing)
       PROVE  PartInv(r)'
  <2>1. PartInv(r)
    BY DEF DatabaseInv, PartsInv
  <2>2. QED
    BY <1>2, <1>14, <1>16, <2>1 DEF PartInv
<1>18. PICK new : new = q
  OBVIOUS
<1>19. left # <<>> => PartInv(new)'
  <2>1. \A s \in ToSet(left) : issues'[b][s] = Current(b, s)'
    BY <1>2, <1>4, <1>5, <1>7, <1>16
  <2>2. left \in Seq(DOMAIN bookings'[b].screens) /\ <<>> \in Seq(DOMAIN bookings'[b].screens)
    BY <1>5, <1>13, EmptySeq
  <2>3. ToSet(<<>>) = {}
    BY DEF ToSet
  <2>4. QED
    BY <1>4, <1>9, <1>13, <1>18, <2>1, <2>2, <2>3 DEF PartInv
<1>20. PartsInv'
  BY <1>3, <1>8, <1>17, <1>18, <1>19 DEF PartsInv
<1>21. DatabaseTyped'
  <2>1. \A c \in Bookings : bookings'[c] # None => IsBooking(bookings'[c])
    BY <1>10, <1>13 DEF DatabaseInv, DatabaseTyped
  <2>2. QED
    BY <1>2, <1>10, <2>1 DEF DatabaseInv, DatabaseTyped
<1>22. bookings[b] # None /\ bookings'[b] # None
  BY <1>4, <1>13, BookingIsStored
<1>23. BookedScreens(b) = D /\ BookedScreens(b)' = D
  BY <1>13, <1>22 DEF BookedScreens
<1>24. \A c \in Bookings \ {b} :
         BookedScreens(c)' = BookedScreens(c) /\ Pending(c)' = Pending(c)
  BY <1>10 DEF BookedScreens, Pending
<1>25. BookedScreensExist'
  BY <1>2, <1>23, <1>24, SameScreens DEF DatabaseInv, BookedScreensExist
<1>26. IssuedKeyIsCurrent'
  <2> SUFFICES ASSUME NEW c \in Bookings, NEW s \in BookedScreens(c)' \ Pending(c)'
               PROVE  issues[c][s] = Current(c, s)
    BY <1>2, <1>16 DEF IssuedKeyIsCurrent, Current
  <2>1. CASE c = b /\ s = screen
    BY <1>5, <1>7, <2>1
  <2>2. CASE c = b /\ s # screen
    <3>1. s \in D /\ screens[s] = bookings[b].screens[s]
      BY <1>11, <1>23, <2>2
    <3>2. s \in BookedScreens(b) \ Pending(b)
      BY <1>12, <1>23, <2>2, <3>1 DEF Pending
    <3>3. QED
      BY <2>2, <3>2 DEF DatabaseInv, IssuedKeyIsCurrent, Current
  <2>3. CASE c # b
    BY <1>24, <2>3 DEF DatabaseInv, IssuedKeyIsCurrent, Current
  <2>4. QED
    BY <2>1, <2>2, <2>3
<1>27. QED
  BY <1>20, <1>21, <1>25, <1>26 DEF DatabaseInv

-----------------------------------------------------------------------------
(* A refresh: saving a message flags each issued screen whose certificates *)
(* it changes, and is refused when it lacks a booked screen.               *)
LEMMA SaveCinemaStep ==
  ASSUME FeedTyped, DatabaseInv, issuing = <<>>,
         NEW f \in Facilities, NEW v \in 1..Len(Flm[f]), SaveCinema(f, v)
  PROVE  DatabaseInv'
<1> DEFINE changed == CertificatesChanged(f, v)
           flagged(b) == Flagged(bookings[b].screens, changed)
<1>1. /\ ~SaveRefused(f, v) /\ UNCHANGED <<issues, issuing>>
      /\ bookings' = [b \in Bookings |->
                        IF bookings[b] = None THEN None
                        ELSE [bookings[b] EXCEPT !.screens = flagged(b)]]
      /\ cinemas' = [cinemas EXCEPT ![f] = v]
      /\ removed' = removed \ {f}
  BY DEF SaveCinema
<1>2. Versioned /\ Versioned' /\ v # 0
  <2>1. DOMAIN cinemas = Facilities /\ Versioned /\ Len(Flm[f]) \in Nat
    BY CinemasVersioned, DistributionAssumption DEF FeedTyped
  <2>2. QED
    BY <1>1, <2>1 DEF Versioned
<1>3. cinemas'[f] = v /\ \A g \in Facilities \ {f} : cinemas'[g] = cinemas[g]
  BY <1>1 DEF FeedTyped
<1>4. /\ ScreensOf(f)' = ScreensIn(f, v)
      /\ \A g \in Facilities \ {f} : ScreensOf(g)' = ScreensOf(g)
  BY <1>1, <1>3 DEF ScreensOf
<1> HIDE DEF changed
<1>5. ASSUME NEW b \in Bookings
      PROVE  /\ BookedScreens(b)' = BookedScreens(b)
             /\ bookings'[b] # None => IsBooking(bookings'[b])
             /\ bookings'[b].terms = bookings[b].terms \/ BookedScreens(b)' = {}
             /\ \A s \in BookedScreens(b)' \ Pending(b)' :
                  s \in BookedScreens(b) \ Pending(b) /\ s \notin changed
  <2>1. CASE bookings[b] = None
    <3>1. bookings'[b] = None
      BY <1>1, <2>1
    <3>2. QED
      BY <2>1, <3>1 DEF BookedScreens
  <2>2. CASE bookings[b] # None
    <3> DEFINE old == bookings[b].screens
               D == DOMAIN old
    <3>1. /\ IsBooking(bookings[b])
          /\ bookings[b] = [terms |-> bookings[b].terms, screens |-> old]
          /\ old \in [D -> KdmStates]
          /\ \A s \in D : old[s].needs_reissue => old[s].issued
      BY <2>2 DEF DatabaseInv, DatabaseTyped, IsBooking
    <3>2. PICK new : new = flagged(b)
      OBVIOUS
    <3>3. /\ new \in [D -> KdmStates]
          /\ \A s \in D :
               /\ new[s].issued = old[s].issued
               /\ new[s].needs_reissue
                    <=> old[s].needs_reissue \/ (s \in changed /\ old[s].issued)
      BY <3>1, <3>2, Flagging
    <3>4. bookings'[b] = [terms |-> bookings[b].terms, screens |-> new]
      BY <1>1, <2>2, <3>1, <3>2
    <3>5. bookings'[b].terms = bookings[b].terms /\ bookings'[b].screens = new
      BY <3>4
    <3>6. IsBooking(bookings'[b])
      <4>1. DOMAIN new = D
        BY <3>3
      <4>2. \A s \in D : new[s].needs_reissue => new[s].issued
        BY <3>1, <3>3
      <4>3. QED
        BY <3>1, <3>3, <3>4, <3>5, <4>1, <4>2 DEF IsBooking
    <3>7. BookedScreens(b) = D /\ BookedScreens(b)' = D
      BY <2>2, <3>3, <3>5, <3>6, BookingIsStored DEF BookedScreens
    <3>8. \A s \in BookedScreens(b)' \ Pending(b)' :
            s \in BookedScreens(b) \ Pending(b) /\ s \notin changed
      BY <3>3, <3>5, <3>7 DEF Pending
    <3>9. QED
      BY <3>5, <3>6, <3>7, <3>8
  <2>3. QED
    BY <2>1, <2>2
<1>6. ASSUME NEW b \in Bookings, NEW s \in BookedScreens(b)
      PROVE  \E g \in Facilities :
               /\ s \in ScreensOf(g) /\ (s \in ScreensOf(g))'
               /\ s \notin changed => Certificates(s)' = Certificates(s)
  <2>1. PICK g \in Facilities : s \in ScreensOf(g)
    BY DEF DatabaseInv, BookedScreensExist, StoredScreens
  <2>2. (s \in ScreensOf(g))'
    <3>1. CASE g # f
      BY <1>4, <2>1, <3>1
    <3>2. CASE g = f
      <4>1. Booked(s)
        BY DEF Booked
      <4>2. s \in ScreensIn(f, v)
        BY <1>1, <2>1, <3>2, <4>1 DEF SaveRefused
      <4>3. QED
        BY <1>4, <3>2, <4>2
    <3>3. QED
      BY <3>1, <3>2
  <2>3. Certificates(s) = Flm[g][cinemas[g]][s] /\ Certificates(s)' = Flm[g][cinemas'[g]][s]
    BY <1>2, <2>1, <2>2, CertificatesOf, CertificatesAfter
  <2>4. s \notin changed => Certificates(s)' = Certificates(s)
    <3>1. CASE g # f
      BY <1>3, <2>3, <3>1
    <3>2. CASE g = f
      BY <1>3, <1>4, <2>1, <2>2, <2>3, <3>2 DEF changed, CertificatesChanged
    <3>3. QED
      BY <3>1, <3>2
  <2>5. QED
    BY <2>1, <2>2, <2>4
<1>7. DatabaseTyped'
  BY <1>1, <1>5 DEF DatabaseInv, DatabaseTyped
<1>8. BookedScreensExist'
  BY <1>5, <1>6 DEF BookedScreensExist, StoredScreens
<1>9. IssuedKeyIsCurrent'
  <2> SUFFICES ASSUME NEW b \in Bookings, NEW s \in BookedScreens(b)' \ Pending(b)'
               PROVE  issues'[b][s] = [certificates |-> Certificates(s)',
                                       terms |-> bookings'[b].terms]
    BY DEF IssuedKeyIsCurrent
  <2>1. s \in BookedScreens(b) \ Pending(b) /\ s \notin changed
        /\ bookings'[b].terms = bookings[b].terms
    BY <1>5
  <2>2. Certificates(s)' = Certificates(s)
    BY <1>6, <2>1
  <2>3. QED
    BY <1>1, <2>1, <2>2 DEF DatabaseInv, IssuedKeyIsCurrent
<1>10. PartsInv'
  BY <1>1, NoParts
<1>11. QED
  BY <1>7, <1>8, <1>9, <1>10 DEF DatabaseInv

LEMMA SaveStep ==
  ASSUME FeedInv, DatabaseInv, NEW r \in Runs, SaveNextFlm(r)
  PROVE  DatabaseInv'
<1> DEFINE x == run[r]
           flm == Head(x.flms)
<1>1. x.phase = "saving" /\ x.flms # <<>> /\ issuing = <<>>
  BY DEF SaveNextFlm, FeedInv, OneHolder
<1>2. x \in Refreshes /\ WorkInv(x)
  BY <1>1, RunningRefresh DEF Active, RunInv
<1>3. flm \in ToSet(x.flms) /\ x.flms \in Seq(Messages)
  BY <1>1, <1>2, RefreshFields, HeadAndTail
<1>4. flm.facility \in Facilities /\ flm.version \in 1..Len(Flm[flm.facility])
  <2>1. flm.facility \in Facilities /\ flm.version \in Nat
    BY <1>2, <1>3, FlmFields
  <2>2. flm.version \in 1..listed[flm.facility]
    BY <1>2, <1>3 DEF WorkInv
  <2>3. listed[flm.facility] <= Len(Flm[flm.facility])
        /\ listed[flm.facility] \in Nat /\ Len(Flm[flm.facility]) \in Nat
    BY <2>1, FeedNumbers DEF FeedInv
  <2>4. QED
    BY <2>1, <2>2, <2>3
<1>5. CASE SaveCinema(flm.facility, flm.version)
  <2> HIDE DEF flm
  <2>1. QED
    BY <1>1, <1>4, <1>5, SaveCinemaStep DEF FeedInv
<1>6. CASE UNCHANGED databaseVars
  BY <1>1, <1>6, NoParts, OnlyParts DEF databaseVars
<1>7. QED
  BY <1>5, <1>6 DEF SaveNextFlm

LEMMA EditsStep ==
  ASSUME FeedTyped, DatabaseInv, Edits
  PROVE  DatabaseInv'
<1>1. ASSUME NEW b \in Bookings, NEW screens \in Selections, NEW terms \in Terms,
             AddBooking(b, screens, terms) \/ UpdateBooking(b, screens, terms)
      PROVE  DatabaseInv'
  BY <1>1, AddBookingStep, UpdateBookingStep
<1>2. ASSUME NEW b \in Bookings,
             RemoveBooking(b) \/ IssueAllScreens(b) \/ IssuePendingScreens(b)
      PROVE  DatabaseInv'
  BY <1>2, RemoveBookingStep, IssueBookingStep
<1>3. ASSUME NEW f \in Facilities, RemoveCinema(f) \/ IssueCinemaPending(f)
      PROVE  DatabaseInv'
  BY <1>3, RemoveCinemaStep, IssueCinemaPendingStep
<1>4. QED
  BY <1>1, <1>2, <1>3 DEF Edits

(* Every step keeps what is booked and what is issued in agreement.        *)
LEMMA DatabaseStep ==
  ASSUME FeedInv, DatabaseInv, [Next]_vars
  PROVE  DatabaseInv'
<1>1. ASSUME UNCHANGED databaseVars PROVE DatabaseInv'
  <2>1. UNCHANGED <<cinemas, removed, bookings, issues, issuing>>
    BY <1>1 DEF databaseVars
  <2>2. \A p \in ToSet(issuing) : PartInv(p)'
    BY <2>1, PartKept DEF DatabaseInv, PartsInv
  <2>3. PartsInv'
    BY <2>1, <2>2 DEF DatabaseInv, PartsInv
  <2>4. QED
    BY <2>1, <2>3, OnlyParts
<1>2. CASE \E f \in Facilities : FacilityChanges(f)
  BY <1>1, <1>2 DEF FacilityChanges
<1>3. ASSUME NEW r \in Runs, RefreshSteps(r) PROVE DatabaseInv'
  BY <1>1, <1>3, SaveStep
  DEF RefreshSteps, FetchSiteList, FetchFlm, FetchFails, ApplyRefresh, SaveFeedState,
      SaveFeedStateFails
<1>4. CASE Edits
  BY <1>4, EditsStep DEF FeedInv
<1>5. CASE IssueSteps
  BY <1>5, RecordIssueStep, MarkIssuedStep DEF IssueSteps
<1>6. CASE AnIssueFails
  BY <1>6, IssueFailsStep DEF AnIssueFails, IssueFails
<1>7. CASE Crash
  BY <1>7, NoParts, OnlyParts DEF Crash
<1>8. CASE UNCHANGED vars
  BY <1>1, <1>8 DEF vars
<1>9. QED
  BY <1>2, <1>3, <1>4, <1>5, <1>6, <1>7, <1>8 DEF Next

LEMMA DatabaseBegins == Init => DatabaseInv
<1> SUFFICES ASSUME Init PROVE DatabaseInv
  OBVIOUS
<1>1. /\ removed = {} /\ bookings = [b \in Bookings |-> None] /\ issuing = <<>>
      /\ issues = [b \in Bookings |-> [s \in Screens |-> None]]
  BY DEF Init, DatabaseInit
<1>2. \A b \in Bookings : BookedScreens(b) = {}
  BY <1>1 DEF BookedScreens
<1>3. DatabaseTyped
  BY <1>1 DEF DatabaseTyped
<1>4. BookedScreensExist /\ IssuedKeyIsCurrent
  BY <1>2 DEF BookedScreensExist, IssuedKeyIsCurrent
<1>5. QED
  BY <1>1, <1>3, <1>4, NoParts DEF DatabaseInv

LEMMA AlwaysDatabaseInv == Spec => [](FeedInv /\ DatabaseInv)
<1>1. FeedInv /\ DatabaseInv /\ [Next]_vars => (FeedInv /\ DatabaseInv)'
  BY FeedStep, DatabaseStep
<1>2. Init => FeedInv /\ DatabaseInv
  BY FeedInit, DatabaseBegins
<1>3. QED
  BY <1>1, <1>2, PTL DEF Spec

-----------------------------------------------------------------------------
(* A booked screen that is not pending always has a recorded KDM for the   *)
(* certificates and terms of now, whatever changed, failed or stopped.     *)
THEOREM IssuedKeysStayCurrent == Spec => []IssuedKeyIsCurrent
<1>1. DatabaseInv => IssuedKeyIsCurrent
  BY DEF DatabaseInv
<1>2. QED
  BY <1>1, AlwaysDatabaseInv, PTL

(* No message that is saved and no cinema that is removed takes a booked   *)
(* screen away.                                                            *)
THEOREM BookedScreensStay == Spec => []BookedScreensExist
<1>1. DatabaseInv => BookedScreensExist
  BY DEF DatabaseInv
<1>2. QED
  BY <1>1, AlwaysDatabaseInv, PTL

(* What is booked is always some stored screens with an honest flag, and   *)
(* of the refreshes that save and the issue at most one has the database.  *)
THEOREM DistributionTypes == Spec => []KdmTypeOK
<1>1. ASSUME FeedInv, DatabaseInv PROVE KdmTypeOK
  <2>1. \A f \in Facilities : cinemas[f] \in 0..Len(Flm[f])
    BY <1>1, CinemasVersioned DEF FeedInv, Versioned
  <2>2. ASSUME NEW b \in Bookings, bookings[b] # None
        PROVE  /\ bookings[b].terms \in Terms
               /\ BookedScreens(b) # {} /\ BookedScreens(b) \subseteq Screens
               /\ \A s \in BookedScreens(b) :
                    /\ bookings[b].screens[s] \in KdmStates
                    /\ bookings[b].screens[s].needs_reissue
                         => bookings[b].screens[s].issued
    BY <1>1, <2>2 DEF DatabaseInv, DatabaseTyped, IsBooking, BookedScreens
  <2>3. \A r \in Runs : run[r] # Idle =>
          run[r].previous \in FeedStates /\ run[r].next \in FeedStates
    BY <1>1, RefreshFields DEF FeedInv, FeedTyped
  <2>4. \A r \in Runs : run[r].phase \in {"fetching", "fetched", "saving"}
          => run[r] # Idle
    BY DEF Idle
  <2> DEFINE holders == {r \in Runs : run[r].phase = "saving"}
                          \cup (IF issuing = <<>> THEN {} ELSE {None})
  <2>5. Cardinality(holders) <= 1
    <3>1. \A x, y \in holders : x = y
      BY <1>1 DEF FeedInv, OneHolder
    <3> HIDE DEF holders
    <3>2. CASE holders = {}
      BY <3>2, FS_EmptySet
    <3>3. CASE \E x : holders = {x}
      <4>1. PICK x : holders = {x}
        BY <3>3
      <4>2. Cardinality({x}) = 1
        BY FS_Singleton
      <4>3. QED
        BY <4>1, <4>2
    <3>4. QED
      BY <3>1, <3>2, <3>3
  <2>6. QED
    BY <1>1, <2>1, <2>2, <2>3, <2>4, <2>5
    DEF KdmTypeOK, FeedInv, FeedTyped, DatabaseInv, DatabaseTyped
<1>2. QED
  BY <1>1, AlwaysDatabaseInv, PTL
=============================================================================
