---------------------------- MODULE Participants -----------------------------
(***************************************************************************)
(* What senders and travelers do with their devices: listing shipments and *)
(* trips, being recommended matches, asking for bookings, agreeing on a    *)
(* handover, being notified, reviewing each other.                         *)
(*                                                                         *)
(* These components keep no state in common, so that what one of them does *)
(* cannot depend on the others: instead of every interleaving, a behaviour *)
(* of this module has one component move.                                  *)
(***************************************************************************)
EXTENDS Naturals, Sequences, FiniteSets

CONSTANTS Blank,           \* an empty form, a missing listing, nothing agreed
          MaxRestarts,     \* bound on the restarts of the application
          \* ListingSubmission
          Texts, TooLong, MissingReadable, Persistent, StorageFails, SlowStorage,
          MaxOps, MaxStarts,
          \* MatchDiscovery
          Shipments, Journeys, CardChoices, DefaultChoice, EvidenceSet, MaxQueries, MaxChanges,
          \* PairEvidence
          Routes, ShipmentRoute, Windows, Dates, Capacities, Weight, Identities, Filters,
          Stars, MaxCompleted, MaxCancelled, MaxReviews,
          \* BookingCalls
          Trip, Tap, MaxRequests, MaxPresses,
          \* HandoffAgreement
          BookingId, MaxAttempts, Booking, Entries, Meetings, MaxSaves,
          \* Reputation
          Users, Devices, Owner, Bookings, SenderOf, TravelerOf, Ratings, Sought, MaxCrashes

VARIABLE moving    \* the component that moves

\* ListingSubmission
VARIABLES form, op, banner, errorType, post, check, quiet, stored, restoring, fresh,
          queue, listings, restarts, intent, last, toldAbsent

\* MatchDiscovery
VARIABLES listed, known, connection, evidence, owned, listLoading, filters, queries,
          current, matches, loading, failed, changes

\* PairEvidence
VARIABLES trip, window, identity, filter, deliveries, ratings, reputation

\* BookingCalls
VARIABLES booking, optimistic, opRef, opStored, opFresh, message, call, stray, presses,
          homeRestarts, published, started, requestOf

\* HandoffAgreement
VARIABLES handoffs, secrets, agreement, status, doc, screen, save, saves, confirm

\* LifecycleEvents
VARIABLES history, triggers, notifications, scan

\* Reputation
VARIABLES outcome, reviews, forms, announced, reputations, owed, tasks, crashes

-----------------------------------------------------------------------------
Submission == INSTANCE ListingSubmission

Discovery == INSTANCE MatchDiscovery WITH Shipment <- Shipments, Trip <- Journeys

Pair == INSTANCE PairEvidence WITH
  history <- deliveries, reviews <- ratings, Ratings <- Stars

Calls == INSTANCE BookingCalls WITH
  stored <- opStored, fresh <- opFresh, restarts <- homeRestarts, MaxOps <- MaxRequests

Agreeing == INSTANCE HandoffAgreement

Events == INSTANCE LifecycleEvents

Reviews == INSTANCE Reputation WITH status <- outcome

ASSUME PartsAssumption ==
  /\ Submission!SubmissionAssumption /\ Discovery!MatchDiscoveryAssumption
  /\ Pair!PairEvidenceAssumption /\ Calls!CallsAssumption /\ Agreeing!AgreementAssumption
  /\ Reviews!ReputationAssumption

-----------------------------------------------------------------------------
listingVars == <<form, op, banner, errorType, post, check, quiet, stored, restoring, fresh,
                 queue, listings, restarts, intent, last, toldAbsent>>
discoveryVars == <<listed, known, connection, evidence, owned, listLoading, filters,
                   queries, current, matches, loading, failed, changes>>
pairVars == <<trip, window, identity, filter, deliveries, ratings, reputation>>
callVars == <<booking, optimistic, opRef, opStored, opFresh, message, call, stray, presses,
              homeRestarts, published, started, requestOf>>
agreementVars == <<handoffs, secrets, agreement, status, doc, screen, save, saves, confirm>>
eventVars == <<history, triggers, notifications, scan>>
reviewVars == <<outcome, reviews, forms, announced, reputations, owed, tasks, crashes>>

vars == <<moving, listingVars, discoveryVars, pairVars, callVars, agreementVars,
          eventVars, reviewVars>>

\* A component that does not move stays where it starts.  Where there are
\* several places to start from, one will do.
DiscoveryInit ==
  /\ Discovery!Init
  /\ moving # "discovery" => connection = "online"

PairInit ==
  /\ Pair!Init
  /\ moving # "scoring" =>
       /\ trip = (CHOOSE t \in Pair!Trips : TRUE) /\ window = (CHOOSE w \in Windows : TRUE)
       /\ identity = Pair!Hidden /\ filter = (CHOOSE f \in Filters : TRUE)

ListingInit ==
  /\ Submission!Init
  /\ moving # "listing" => op = 1

Init ==
  /\ moving \in {"listing", "discovery", "scoring", "trust", "agreement", "events", "calls",
                 "reviews"}
  /\ ListingInit /\ DiscoveryInit /\ PairInit
  /\ Calls!Init /\ Agreeing!Init /\ Events!Init /\ Reviews!Init

-----------------------------------------------------------------------------
OthersThanListing ==
  UNCHANGED <<moving, discoveryVars, pairVars, callVars, agreementVars, eventVars, reviewVars>>
OthersThanPair ==
  UNCHANGED <<moving, listingVars, discoveryVars, callVars, agreementVars, eventVars, reviewVars>>
OthersThanCalls ==
  UNCHANGED <<moving, listingVars, discoveryVars, pairVars, agreementVars, eventVars, reviewVars>>
OthersThanReviews ==
  UNCHANGED <<moving, listingVars, discoveryVars, pairVars, callVars, agreementVars, eventVars>>

ListingMoves == moving = "listing" /\ Submission!Next /\ OthersThanListing

DiscoveryMoves ==
  /\ moving = "discovery" /\ Discovery!Next
  /\ UNCHANGED <<moving, listingVars, pairVars, callVars, agreementVars, eventVars, reviewVars>>

\* The trip changes and the traveler is the same; the traveler's record grows
\* and the trip stays.
ScoringMoves ==
  /\ moving = "scoring" /\ Pair!Next /\ OthersThanPair
  /\ UNCHANGED <<deliveries, ratings, reputation>>
TrustMoves ==
  /\ moving = "trust" /\ Pair!Next /\ OthersThanPair
  /\ UNCHANGED <<trip, window, identity, filter>>

CallsMove == moving = "calls" /\ Calls!Next /\ OthersThanCalls

AgreementMoves ==
  /\ moving = "agreement" /\ Agreeing!Next
  /\ UNCHANGED <<moving, listingVars, discoveryVars, pairVars, callVars, eventVars, reviewVars>>

EventsMove ==
  /\ moving = "events" /\ Events!Next
  /\ UNCHANGED <<moving, listingVars, discoveryVars, pairVars, callVars, agreementVars, reviewVars>>

ReviewsMove == moving = "reviews" /\ Reviews!Next /\ OthersThanReviews

Next ==
  \/ ListingMoves \/ DiscoveryMoves \/ ScoringMoves \/ TrustMoves
  \/ CallsMove \/ AgreementMoves \/ EventsMove \/ ReviewsMove

Spec == Init /\ [][Next]_vars

-----------------------------------------------------------------------------
\* ShipmentService.create and TripService.create, however often an attempt is
\* repeated, checked on or cut short by a restart: until the owner is told how
\* it ended one listing comes of it, what is reported as saved is there as it
\* was entered, and what a check says is missing, when no attempt was begun
\* meanwhile, stays so.
ListedOnce ==
  /\ [](moving = "listing" =>
          Submission!TypeOK /\ Submission!OneListingPerStart /\ Submission!QuietCheckIsRight)
  /\ [][moving = "listing" => Submission!AsEntered]_listingVars

\* RecommendedMatchesSection, although queries overlap and the filters change
\* meanwhile: what it shows passed the filters it displays, the cap leaves out
\* only what comes later, and it loads while the query it waits for is out.
RecommendedAsFiltered ==
  moving = "discovery" =>
    /\ Discovery!TypeOK /\ Discovery!LoadingTellsQuery
    /\ Discovery!ShownIsAsFiltered /\ Discovery!CapKeepsTheBest

Pairing == moving \in {"scoring", "trust"}

\* matching.ts and trust.ts, over every pair of a shipment and a trip of the
\* instance and every record: a trip that fits as well in all and better in
\* something scores no less, good news about a traveler costs no points, the
\* points stay within what is shown beside them, and what is eligible can be
\* carried.
BetterScoresNoLess ==
  /\ [](Pairing => Pair!TypeOK /\ Pair!PointsWithinMaxima)
  /\ [](Pairing => Pair!EligibleCanBeCarried /\ Pair!FreshRecordIsSeen)
  /\ [][Pairing => Pair!NoLess /\ Pair!NoCost]_pairVars

\* HandoffService, whose saves write the whole document back: the
\* outcome of the codes that it shows is the server's, and no participant
\* takes back a part of the other.
AgreementKept ==
  /\ [](moving = "agreement" => Agreeing!TypeOK /\ Agreeing!OutcomeMirrored)
  /\ [][moving = "agreement" => Agreeing!OtherPartsStay]_agreementVars

\* reconcileBookingLifecycleNotifications: a scan that has ended leaves no
\* step that it read without a notification to the party who did not take it.
ReconciledAll == moving = "events" => Events!ReconciledAll

\* BookingService.requestBooking from the home screen: from the press to the
\* report, through lost answers, late calls and restarts, one booking.
RequestedOnce == moving = "calls" => Calls!TypeOK /\ Calls!RequestedOnce

\* ReviewService.submitReview from several devices at once: one review of each
\* side, announced once, and counted only with the completed booking.
ReviewedOnce ==
  moving = "reviews" => Reviews!TypeOK /\ Reviews!ReviewedOnce
=============================================================================
