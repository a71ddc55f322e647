-------------------------- MODULE KdmDistribution --------------------------
(***************************************************************************)
(* The refresh of a feed of facility list messages into the database,      *)
(* src/kdm_distribution/flm_exchange.rs, beside the user's bookings and    *)
(* issues (KdmDatabase).  A refresh reads the feed state the last one      *)
(* left, asks the server for its site list and for each message whose      *)
(* modification instant differs, all without the database, and then saves  *)
(* the cinemas one transaction at a time and the new feed state last.      *)
(* Several may be fetching at once; the process may stop anywhere.         *)
(***************************************************************************)
EXTENDS KdmDatabase

CONSTANTS
  Runs,         \* the refreshes that may overlap
  MaxTroubles   \* bound: the fetches, saves and issues that fail and the stops

ASSUME DistributionAssumption ==
  /\ \A f \in Facilities : Len(Flm[f]) \in Nat \ {0} /\ DOMAIN Flm[f] = 1..Len(Flm[f])
  /\ \A f, g \in Facilities : f # g =>
       \A v \in DOMAIN Flm[f], w \in DOMAIN Flm[g] :
         DOMAIN Flm[f][v] \cap DOMAIN Flm[g][w] = {}
  /\ IsFiniteSet(Facilities) /\ IsFiniteSet(Bookings)
  /\ \A screens \in Selections : IsFiniteSet(screens)
  /\ None \notin BookingRecords
  /\ MaxEdits \in Nat /\ MaxTroubles \in Nat

VARIABLES
  listed,    \* the server: the version of each facility's message
  feed,      \* the feed state the database holds
  run,       \* where each refresh is
  unrecorded,\* history, not in the code: the facilities whose message was
             \* saved by a refresh that then could not save its feed state
  troubles   \* how many fetches, saves and issues failed, and stops

feedVars == <<listed, feed, run, unrecorded, troubles>>
vars == <<databaseVars, feedVars>>

\* FeedSyncState: the validator of the site list last applied, and the
\* instant of each message last saved, 0 for none.
NewFeed == [etag |-> None, modified |-> [f \in Facilities |-> 0]]

Idle == [phase |-> "idle"]

Init ==
  /\ DatabaseInit
  /\ listed = [f \in Facilities |-> 1]
  /\ feed = NewFeed
  /\ run = [r \in Runs |-> Idle]
  /\ unrecorded = {}
  /\ troubles = 0

\* Something fails.
Trouble ==
  /\ troubles < MaxTroubles
  /\ troubles' = troubles + 1

\* No issue and no other refresh has the database.
DatabaseFree ==
  /\ issuing = <<>>
  /\ \A r \in Runs : run[r].phase # "saving"

-----------------------------------------------------------------------------
(* The server.                                                             *)
FacilityChanges(f) ==
  /\ listed[f] < Len(Flm[f])
  /\ listed' = [listed EXCEPT ![f] = @ + 1]
  /\ UNCHANGED <<databaseVars, feed, run, unrecorded, troubles>>

-----------------------------------------------------------------------------
(* One refresh.                                                            *)
\* The facilities to fetch, in the order of the list: those whose instant is
\* not the one last saved.
Outdated(previous, list) ==
  SetToSeq({f \in Facilities : previous.modified[f] # list[f]})

\* A refresh with these messages left to fetch, fetched when there are none.
Fetching(previous, left, flms, next) ==
  [phase |-> IF left = <<>> THEN "fetched" ELSE "fetching",
   previous |-> previous, left |-> left, flms |-> flms, next |-> next]

(* Reads the feed state and asks for the site list.  What happens between  *)
(* the two either changes the state, and the refresh will be refused, or   *)
(* might as well have happened before.  304 Not Modified: nothing to fetch *)
(* and the state stays as it was.  A request that fails and a list that     *)
(* cannot be read end the refresh with nothing changed: no step at all.    *)
FetchSiteList(r) ==
  /\ run[r] = Idle
  /\ DatabaseFree
  /\ run' = [run EXCEPT ![r] =
       IF feed.etag = listed
         THEN Fetching(feed, <<>>, <<>>, feed)
         ELSE Fetching(feed, Outdated(feed, listed), <<>>,
                       [etag |-> listed, modified |-> listed])]
  /\ UNCHANGED <<databaseVars, listed, feed, unrecorded, troubles>>

(* A bug: the instant is taken, and the message comes with a later one.    *)
KeepsOlderInstantNever(next, previous, f) == [next EXCEPT !.etag = None]

(* A bug: the next refresh may be answered 304 and retry nothing.          *)
KeepsValidators(next, previous, f) ==
  [next EXCEPT !.modified[f] = previous.modified[f]]

\* A message that failed is fetched again: its older instant is kept, and
\* without the validator the server cannot answer that nothing changed.
RetryNextTime(next, previous, f) ==
  [etag     |-> None,
   modified |-> [next.modified EXCEPT ![f] = previous.modified[f]]]

\* The message may be newer than the instant the site list gave for it.
FetchFlm(r) ==
  /\ run[r].phase = "fetching"
  /\ LET f   == Head(run[r].left)
         flm == [facility |-> f, version |-> listed[f]]
     IN run' = [run EXCEPT ![r] =
          Fetching(@.previous, Tail(@.left), Append(@.flms, flm), @.next)]
  /\ UNCHANGED <<databaseVars, listed, feed, unrecorded, troubles>>

FetchFails(r) ==
  /\ run[r].phase = "fetching"
  /\ Trouble
  /\ LET f == Head(run[r].left) IN
     run' = [run EXCEPT ![r] =
       Fetching(@.previous, Tail(@.left), @.flms,
                RetryNextTime(@.next, @.previous, f))]
  /\ UNCHANGED <<databaseVars, listed, feed, unrecorded>>

(* A bug: what another refresh did meanwhile is not looked at.             *)
RefusedNever(refresh) == FALSE

\* Another refresh applied what may be newer messages since this one began.
Refused(refresh) == feed # refresh.previous

(* The state is compared with the one the refresh began from; a refresh     *)
(* that is refused, or that cannot read the state, ends here.              *)
ApplyRefresh(r) ==
  /\ run[r].phase = "fetched"
  /\ DatabaseFree
  /\ \/ /\ ~Refused(run[r])
        /\ run' = [run EXCEPT ![r].phase = "saving"]
        /\ UNCHANGED troubles
     \/ /\ \/ Refused(run[r]) /\ UNCHANGED troubles
           \/ Trouble
        /\ run' = [run EXCEPT ![r] = Idle]
  /\ UNCHANGED <<databaseVars, listed, feed, unrecorded>>

(* A message is saved, or it is not: a booked screen would go, it cannot be *)
(* read, another cinema has its name, or the database fails.               *)
SaveNextFlm(r) ==
  /\ run[r].phase = "saving"
  /\ run[r].flms # <<>>
  /\ LET flm == Head(run[r].flms) IN
     \/ /\ SaveCinema(flm.facility, flm.version)
        /\ run' = [run EXCEPT ![r].flms = Tail(@)]
        /\ UNCHANGED troubles
     \/ /\ \/ SaveRefused(flm.facility, flm.version) /\ UNCHANGED troubles
           \/ Trouble
        /\ run' = [run EXCEPT ![r].flms = Tail(@),
                     ![r].next = RetryNextTime(@, run[r].previous, flm.facility)]
        /\ UNCHANGED databaseVars
  /\ UNCHANGED <<listed, feed, unrecorded>>

\* What a refresh has saved when it has nothing left to save.
SavedBy(refresh) ==
  {f \in Facilities : refresh.previous.modified[f] # refresh.next.modified[f]}

SaveFeedState(r) ==
  /\ run[r].phase = "saving"
  /\ run[r].flms = <<>>
  /\ feed' = run[r].next
  /\ unrecorded' = unrecorded \ SavedBy(run[r])
  /\ run' = [run EXCEPT ![r] = Idle]
  /\ UNCHANGED <<databaseVars, listed, troubles>>

(* The database fails on the last statement: what the refresh saved stays, *)
(* the state is the old one, and the refreshes on their way go on.         *)
SaveFeedStateFails(r) ==
  /\ run[r].phase = "saving"
  /\ run[r].flms = <<>>
  /\ Trouble
  /\ unrecorded' = unrecorded \cup SavedBy(run[r])
  /\ run' = [run EXCEPT ![r] = Idle]
  /\ UNCHANGED <<databaseVars, listed, feed>>

RefreshSteps(r) ==
  \/ FetchSiteList(r)
  \/ FetchFlm(r)
  \/ FetchFails(r)
  \/ ApplyRefresh(r)
  \/ SaveNextFlm(r)
  \/ SaveFeedState(r)
  \/ SaveFeedStateFails(r)

-----------------------------------------------------------------------------
\* An error of the database in the middle of an issue.
AnIssueFails ==
  /\ Trouble
  /\ IssueFails
  /\ UNCHANGED <<listed, feed, run, unrecorded>>

\* The process stops: every refresh and every issue is gone, and what was
\* committed stays.
Crash ==
  /\ Trouble
  /\ issuing' = <<>>
  /\ run' = [r \in Runs |-> Idle]
  /\ unrecorded' = {}
  /\ UNCHANGED <<cinemas, removed, bookings, issues, edits,
                 listed, feed>>

Next ==
  \/ \E f \in Facilities : FacilityChanges(f)
  \/ \E r \in Runs : RefreshSteps(r)
  \/ DatabaseFree /\ Edits /\ UNCHANGED feedVars
  \/ IssueSteps /\ UNCHANGED feedVars
  \/ AnIssueFails
  \/ Crash

(* The host refreshes the feed again and again, and an issue that began    *)
(* goes on.  Nothing else has to happen.                                   *)
Fairness ==
  /\ \A r \in Runs : WF_vars(RefreshSteps(r))
  /\ WF_vars(IssueSteps /\ UNCHANGED feedVars)

Spec == Init /\ [][Next]_vars /\ Fairness

-----------------------------------------------------------------------------
Instants == UNION {0..Len(Flm[f]) : f \in Facilities}
FeedStates == [etag : {None} \cup [Facilities -> Instants],
               modified : [Facilities -> Instants]]

\* What the cinemas, the bookings and the feed store keeps its type, a screen
\* is flagged only when issued, and one at a time has the database.
KdmTypeOK ==
  /\ \A f \in Facilities : cinemas[f] \in 0..Len(Flm[f])
  /\ removed \subseteq Facilities /\ unrecorded \subseteq Facilities
  /\ \A b \in Bookings : bookings[b] # None =>
       /\ bookings[b].terms \in Terms
       /\ BookedScreens(b) # {} /\ BookedScreens(b) \subseteq Screens
       /\ \A s \in BookedScreens(b) :
            /\ bookings[b].screens[s] \in KdmStates
            /\ bookings[b].screens[s].needs_reissue
                 => bookings[b].screens[s].issued
  /\ feed \in FeedStates
  /\ \A f \in Facilities : listed[f] \in 1..Len(Flm[f])
  /\ \A r \in Runs : run[r] # Idle => run[r].previous \in FeedStates
  /\ \A r \in Runs : run[r].phase \in {"fetching", "fetched", "saving"} =>
       run[r].next \in FeedStates
  /\ Cardinality({r \in Runs : run[r].phase = "saving"}
                   \cup (IF issuing = <<>> THEN {} ELSE {None})) <= 1

(* A booked screen that is not pending has a recorded KDM for the          *)
(* certificates it has now and the terms its booking has now, whatever     *)
(* changed since, and wherever an issue failed or stopped: the flags of    *)
(* save_cinema and update_booking, and the order of issue_parts.           *)
IssuedKeyIsCurrent ==
  \A b \in Bookings : \A s \in BookedScreens(b) \ Pending(b) :
    issues[b][s] = [certificates |-> Certificates(s),
                    terms |-> bookings[b].terms]

(* A booked screen is never lost to a message that no longer lists it, nor *)
(* with a cinema that is removed: "a booked screen cannot disappear".      *)
BookedScreensExist ==
  \A b \in Bookings : BookedScreens(b) \subseteq StoredScreens

(* The feed state never claims a message the database has not saved: one   *)
(* that failed, or that a crash cut off, would never be fetched again.     *)
FeedNeverAheadOfDatabase ==
  \A f \in Facilities : feed.modified[f] <= cinemas[f]

(* flm_exchange.rs:269: "its FLMs may be older than the ones another        *)
(* refresh already saved".  The comparison turns every slower refresh away  *)
(* where the newer one's feed state was saved.  Where saving that state     *)
(* failed (308, after the cinemas) it does not, and a cinema may go back.   *)
OlderFlmOnlyAfterLostState ==
  [][\A f \in Facilities : cinemas'[f] >= cinemas[f] \/ f \in unrecorded]_vars

(* Every message comes to be saved, unless it lacks a screen that stays    *)
(* booked: after failures, refused refreshes and crashes, the retry at the *)
(* next refresh is never skipped.                                          *)
FeedCatchesUp ==
  \A f \in Facilities :
    []<>(cinemas[f] = listed[f] \/ SaveRefused(f, listed[f]))
=============================================================================
