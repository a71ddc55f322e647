---------------------------- MODULE KdmDatabase ----------------------------
(***************************************************************************)
(* The distributor's database of cinemas, bookings and issued KDMs:        *)
(* src/kdm_distribution/database.rs over issue.rs.  Each method that is    *)
(* one transaction is one action.  An issue is not: it writes its KDMs,    *)
(* then records each and then marks each screen, one committed statement   *)
(* at a time, and may fail or be stopped between any two.                  *)
(*                                                                         *)
(* Abstracted: a cinema is the facility list message (FLM) it was saved    *)
(* from, a message is the certificates of its screens (of the security     *)
(* manager and of the devices its KDM lists, taken as one), the terms of a *)
(* booking are its window and formulation, and a KDM is the certificates   *)
(* and the terms it was written for.  Names, time zones, titles, ZIP files *)
(* and deliveries are left out.                                            *)
(***************************************************************************)
EXTENDS Integers, Sequences, SequencesExt, FiniteSetsExt

CONSTANTS
  Facilities,  \* the cinemas, by facility id
  Flm,         \* what each facility publishes in turn: its screens'
               \* certificates, one function for each version
  Bookings,    \* the bookings that may be made
  Terms,       \* the windows and formulations a booking may ask for
  None,
  Selections,  \* bound: the sets of screens a booking may ask for
  MaxEdits     \* bound: the changes and issues the user asks for

VARIABLES
  cinemas,   \* the version each cinema was last saved from, 0 for never
  removed,   \* the cinemas the user removed since
  bookings,  \* the bookings and their booked screens
  issues,    \* the last KDM recorded for each booking and screen
  issuing,   \* the bookings an issue still has to finish, the first begun
  edits      \* how much the user asked for

databaseVars == <<cinemas, removed, bookings, issues, issuing, edits>>

ScreensIn(f, version) == IF version = 0 THEN {} ELSE DOMAIN Flm[f][version]

Screens == UNION {UNION {DOMAIN Flm[f][v] : v \in DOMAIN Flm[f]} : f \in Facilities}

\* What can be stored of a booking.
KdmStates == [issued : BOOLEAN, needs_reissue : BOOLEAN]
BookingRecords ==
  [terms : Terms, screens : UNION {[S -> KdmStates] : S \in SUBSET Screens}]

ScreensOf(f) == IF f \in removed THEN {} ELSE ScreensIn(f, cinemas[f])

StoredScreens == UNION {ScreensOf(f) : f \in Facilities}

Certificates(screen) ==
  LET f == CHOOSE g \in Facilities : screen \in ScreensOf(g)
  IN Flm[f][cinemas[f]][screen]

BookedScreens(b) == IF bookings[b] = None THEN {} ELSE DOMAIN bookings[b].screens

Booked(screen) == \E b \in Bookings : screen \in BookedScreens(b)

\* A screen with no KDM yet, or whose KDM was flagged as out of date.
Pending(b) ==
  {s \in BookedScreens(b) :
     \/ ~bookings[b].screens[s].issued
     \/ bookings[b].screens[s].needs_reissue}

DatabaseInit ==
  /\ cinemas = [f \in Facilities |-> 0]
  /\ removed = {}
  /\ bookings = [b \in Bookings |-> None]
  /\ issues = [b \in Bookings |-> [s \in Screens |-> None]]
  /\ issuing = <<>>
  /\ edits = 0

-----------------------------------------------------------------------------
(* A bug: screens no KDM was issued for are flagged too.                   *)
FlaggedUnissued(screens, changed) ==
  [s \in DOMAIN screens |->
     [screens[s] EXCEPT !.needs_reissue = @ \/ s \in changed]]

\* The booked screens with the issued ones of a set flagged.
Flagged(screens, changed) ==
  [s \in DOMAIN screens |->
     [screens[s] EXCEPT !.needs_reissue =
        @ \/ (s \in changed /\ screens[s].issued)]]

(* A bug: a screen's certificates change and its KDMs are not flagged.     *)
CertificatesChangedUnseen(f, version) == {}

CertificatesChanged(f, version) ==
  {s \in ScreensOf(f) \cap ScreensIn(f, version) :
     Certificates(s) # Flm[f][version][s]}

(* A bug: a screen that is gone is deleted though it is booked.            *)
SaveRefusedNever(f, version) == FALSE

\* A booked screen cannot be deleted, and the transaction fails as a whole.
SaveRefused(f, version) ==
  \E s \in ScreensOf(f) \ ScreensIn(f, version) : Booked(s)

SaveCinema(f, version) ==
  /\ ~SaveRefused(f, version)
  /\ bookings' =
       [b \in Bookings |->
          IF bookings[b] = None THEN None
          ELSE [bookings[b] EXCEPT !.screens =
                  Flagged(bookings[b].screens, CertificatesChanged(f, version))]]
  /\ cinemas' = [cinemas EXCEPT ![f] = version]
  /\ removed' = removed \ {f}
  /\ UNCHANGED <<issues, issuing, edits>>

-----------------------------------------------------------------------------
(* What the user asks for.  The database has one handle, which an issue    *)
(* keeps until it returns.                                                 *)
Edit ==
  /\ issuing = <<>>
  /\ edits < MaxEdits
  /\ edits' = edits + 1

NewlyBooked == [issued |-> FALSE, needs_reissue |-> FALSE]

AddBooking(b, screens, terms) ==
  /\ bookings[b] = None
  /\ screens # {} /\ screens \subseteq StoredScreens
  /\ Edit
  /\ bookings' = [bookings EXCEPT ![b] =
       [terms |-> terms, screens |-> [s \in screens |-> NewlyBooked]]]
  /\ UNCHANGED <<cinemas, removed, issues, issuing>>

\* A kept screen keeps its state, and new terms flag every issued screen.
UpdateBooking(b, screens, terms) ==
  /\ bookings[b] # None
  /\ screens # {} /\ screens \subseteq StoredScreens
  /\ Edit
  /\ LET kept == [s \in screens |->
                    IF s \in BookedScreens(b)
                      THEN bookings[b].screens[s] ELSE NewlyBooked]
     IN bookings' = [bookings EXCEPT ![b] =
          [terms |-> terms,
           screens |-> IF terms = bookings[b].terms
                         THEN kept ELSE Flagged(kept, screens)]]
  /\ UNCHANGED <<cinemas, removed, issues, issuing>>

\* The history of its issues stays, with no booking to point at.
RemoveBooking(b) ==
  /\ bookings[b] # None
  /\ Edit
  /\ bookings' = [bookings EXCEPT ![b] = None]
  /\ issues' = [issues EXCEPT ![b] = [s \in Screens |-> None]]
  /\ UNCHANGED <<cinemas, removed, issuing>>

RemoveCinema(f) ==
  /\ cinemas[f] # 0 /\ f \notin removed
  /\ \A s \in ScreensOf(f) : ~Booked(s)
  /\ Edit
  /\ removed' = removed \cup {f}
  /\ UNCHANGED <<cinemas, bookings, issues, issuing>>

-----------------------------------------------------------------------------
(* What an issue of a booking has to record and to mark, read before       *)
(* anything is written.  A screen that fails a check is refused.           *)
Part(b, screens) ==
  [booking |-> b,
   kdms    |-> [s \in screens |->
                  [certificates |-> Certificates(s),
                   terms |-> bookings[b].terms]],
   record  |-> SetToSeq(screens),
   mark    |-> SetToSeq(screens)]

IssueBooking(b, selected) ==
  /\ bookings[b] # None
  /\ Edit
  /\ \E written \in (SUBSET selected) \ {{}} : issuing' = <<Part(b, written)>>
  /\ UNCHANGED <<cinemas, removed, bookings, issues>>

IssueAllScreens(b) == IssueBooking(b, BookedScreens(b))

IssuePendingScreens(b) == IssueBooking(b, Pending(b))

\* Every booking's pending screens at the cinema, one booking at a time; one
\* whose screens are all refused has nothing to finish.
IssueCinemaPending(f) ==
  LET here(b) == Pending(b) \cap ScreensOf(f)
      due == {b \in Bookings : here(b) # {}}
  IN /\ Edit
     /\ \E kept \in (SUBSET due) \ {{}} : \E written \in [kept -> SUBSET ScreensOf(f)] :
          /\ \A b \in kept : written[b] # {} /\ written[b] \subseteq here(b)
          /\ issuing' = [i \in 1..Cardinality(kept) |->
               LET b == SetToSeq(kept)[i] IN Part(b, written[b])]
     /\ UNCHANGED <<cinemas, removed, bookings, issues>>

RecordIssue ==
  /\ issuing # <<>>
  /\ Head(issuing).record # <<>>
  /\ LET part == Head(issuing)
         screen == Head(part.record)
     IN /\ issues' = [issues EXCEPT ![part.booking][screen] = part.kdms[screen]]
        /\ issuing' = [issuing EXCEPT ![1].record = Tail(@)]
  /\ UNCHANGED <<cinemas, removed, bookings, edits>>

(* A bug: screens are marked before their KDMs are recorded.               *)
MayMarkUnrecorded(part) == TRUE

\* Every KDM of the booking is recorded before its first screen is marked.
MayMark(part) == part.record = <<>>

MarkIssued ==
  /\ issuing # <<>>
  /\ MayMark(Head(issuing))
  /\ LET part == Head(issuing)
         left == Tail(part.mark)
     IN /\ bookings' = [bookings EXCEPT
                ![part.booking].screens[Head(part.mark)] =
                  [issued |-> TRUE, needs_reissue |-> FALSE]]
        /\ issuing' = IF left = <<>> THEN Tail(issuing)
                      ELSE [issuing EXCEPT ![1].mark = left]
  /\ UNCHANGED <<cinemas, removed, issues, edits>>

\* An error ends one booking's issue where it is; the next one still goes on.
IssueFails ==
  /\ issuing # <<>>
  /\ issuing' = Tail(issuing)
  /\ UNCHANGED <<cinemas, removed, bookings, issues, edits>>

IssueSteps == RecordIssue \/ MarkIssued

Edits ==
  \/ \E b \in Bookings :
       \/ \E screens \in Selections, terms \in Terms :
            AddBooking(b, screens, terms) \/ UpdateBooking(b, screens, terms)
       \/ RemoveBooking(b)
       \/ IssueAllScreens(b)
       \/ IssuePendingScreens(b)
  \/ \E f \in Facilities : RemoveCinema(f) \/ IssueCinemaPending(f)
=============================================================================
