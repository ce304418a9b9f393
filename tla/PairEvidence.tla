---------------------------- MODULE PairEvidence -----------------------------
(***************************************************************************)
(* One shipment and one trip, and what is known of the traveler, while     *)
(* both listings are edited and the traveler's history grows: what the     *)
(* score of the pair (MatchingService.evaluate) and the traveler's visible *)
(* trust (TrustService.getVisibleSummary) do when the facts change.        *)
(*                                                                         *)
(* The server recalculates the traveler's reputation record from the       *)
(* reviews and bookings some time after they change; before that the       *)
(* record is absent or out of date.                                        *)
(***************************************************************************)
EXTENDS Matching, Sequences

CONSTANTS Routes,         \* routes of the trip
          ShipmentRoute,
          Windows,        \* delivery windows of the shipment
          Dates,          \* [departure, arrival] of the trip
          Capacities,     \* of the trip
          Weight,         \* of the shipment
          Identities,     \* states of the traveler's identity verification
          Filters,        \* filters of the viewer
          Ratings,        \* what reviewers give, in hundredths of stars
          MaxCompleted,   \* bound on completed deliveries
          MaxCancelled,   \* bound on cancelled bookings
          MaxReviews      \* bound on reviews

PairEvidenceAssumption ==
    /\ \A r \in Routes \cup {ShipmentRoute} : r = [f \in RouteFields |-> r[f]]
    /\ Windows \subseteq [start : Int, end : Int]
    /\ \A d \in Dates : d[1] \in Int /\ d[2] \in Int /\ d[1] <= d[2]
    /\ Capacities \cup {Weight} \subseteq Nat
    /\ \A f \in Filters : f.maximumTimingGapDays \in 0..365
    /\ Ratings \subseteq 100..500
    /\ MaxCompleted \in Nat /\ MaxCancelled \in Nat /\ MaxReviews \in Nat

VARIABLES trip,         \* the trip
          window,       \* the shipment's delivery window
          identity,     \* of the traveler, or Hidden from the viewer
          filter,
          history,      \* the traveler's completed and cancelled bookings
          reviews,      \* the ratings the traveler was given
          reputation    \* userReputations/{traveler}, or NoRecord

vars == <<trip, window, identity, filter, history, reviews, reputation>>

Shipment == [owner |-> "sender", route |-> ShipmentRoute, window |-> window,
             weight |-> Weight, category |-> "documents"]

NoRecord == [none |-> TRUE]

Average(ratings) ==
    LET sum[n \in 0..Len(ratings)] == IF n = 0 THEN 0 ELSE ratings[n] + sum[n - 1]
    IN IF ratings = <<>> THEN Unknown ELSE Rounded(sum[Len(ratings)], Len(ratings))

\* What the server writes: the averages rounded to the hundredth.
Recalculated ==
    [average |-> Average(reviews), reviewed |-> Len(reviews),
     completed |-> history.completed, cancelled |-> history.cancelled]

(***************************************************************************)
(* What another user's card is told.  A record without reviews sends the   *)
(* reader to the reviews; each review is of a booking of its own.          *)
(***************************************************************************)

VisibleInputs ==
    LET listed == reputation = NoRecord \/ reputation.reviewed = 0
    IN Inputs(IF reputation # NoRecord THEN reputation.completed ELSE Len(reviews),
              IF reputation # NoRecord THEN reputation.cancelled ELSE 0,
              IF listed THEN Average(reviews) ELSE reputation.average,
              IF listed THEN Len(reviews) ELSE reputation.reviewed, 0, "none")

VisibleTrust == calculate(VisibleInputs)

Evidence == [completed |-> VisibleInputs.completed, identity |-> identity,
             trust |-> VisibleTrust]

Match == scoreMatch(Shipment, trip, Evidence, filter)

Trips == {[owner |-> "traveler", route |-> r, departure |-> d[1], arrival |-> d[2],
           capacity |-> c] : r \in Routes, d \in Dates, c \in Capacities}

TypeOK ==
    /\ trip \in Trips /\ window \in Windows /\ identity \in Identities \cup {Hidden}
    /\ filter \in Filters
    /\ history \in [completed : 0..MaxCompleted, cancelled : 0..MaxCancelled]
    /\ Len(reviews) <= MaxReviews
    /\ \A n \in 1..Len(reviews) : reviews[n] \in Ratings
    /\ reputation # NoRecord =>
          reputation.completed <= history.completed /\ reputation.reviewed <= Len(reviews)

Init ==
    /\ trip \in Trips /\ window \in Windows /\ filter \in Filters
    /\ identity \in Identities \cup {Hidden}
    /\ history = [completed |-> 0, cancelled |-> 0]
    /\ reviews = <<>> /\ reputation = NoRecord

\* The traveler edits the trip.
EditTrip(t) ==
    /\ t # trip /\ trip' = t
    /\ UNCHANGED <<window, identity, filter, history, reviews, reputation>>

\* The verification of the traveler moves on.
Verify(i) ==
    /\ identity # Hidden /\ i # identity /\ identity' = i
    /\ UNCHANGED <<trip, window, filter, history, reviews, reputation>>

Complete ==
    /\ history.completed < MaxCompleted
    /\ history' = [history EXCEPT !.completed = @ + 1]
    /\ UNCHANGED <<trip, window, identity, filter, reviews, reputation>>

Cancel ==
    /\ history.cancelled < MaxCancelled
    /\ history' = [history EXCEPT !.cancelled = @ + 1]
    /\ UNCHANGED <<trip, window, identity, filter, reviews, reputation>>

\* A participant of a completed booking reviews the traveler.
Review(rating) ==
    /\ Len(reviews) < MaxReviews /\ Len(reviews) < history.completed
    /\ reviews' = Append(reviews, rating)
    /\ UNCHANGED <<trip, window, identity, filter, history, reputation>>

Recalculate ==
    /\ reputation # Recalculated
    /\ reputation' = Recalculated
    /\ UNCHANGED <<trip, window, identity, filter, history, reviews>>

Next ==
    \/ \E t \in Trips : EditTrip(t)
    \/ \E i \in Identities : Verify(i)
    \/ Complete \/ Cancel \/ Recalculate
    \/ \E r \in Ratings : Review(r)

Spec == Init /\ [][Next]_vars

(***************************************************************************)
(* Properties.                                                             *)
(***************************************************************************)
\* Whatever the evidence, the points of a pair stay within the maxima that
\* are shown beside them, so that a score is out of 100, and so does trust.
PointsWithinMaxima ==
    /\ \A k \in DOMAIN maximumPoints : Match.factors[k] \in 0..maximumPoints[k]
    /\ Match.total \in 0..100
    /\ VisibleTrust \in 0..FullTrust

\* How far the arrival of the trip misses the delivery window.
Missed(t) == IF t.arrival < window.start THEN window.start - t.arrival
             ELSE IF t.arrival > window.end THEN t.arrival - window.end ELSE 0

AtLeastAsGood(t, u) ==
    /\ Differing(Shipment, t) \subseteq Differing(Shipment, u)
    /\ t.capacity >= u.capacity
    /\ \/ window = Unstructured
       \/ t.departure = u.departure /\ t.arrival = u.arrival
       \/ Missed(t) = 0
       \/ ~Overlaps(Shipment, u) /\ (Overlaps(Shipment, t) \/ GapDays(Shipment, t) <= GapDays(Shipment, u))

\* An edit that makes the trip fit the shipment at least as well in every
\* respect loses no points and is never what rules the pair out.
NoLess ==
    AtLeastAsGood(trip', trip) /\ UNCHANGED <<window, identity, filter, reviews, reputation>>
        => Match'.total >= Match.total /\ (Match.eligible => Match'.eligible)

\* A pair that is offered as eligible is within the weight, on the route and
\* verified where the filter asks for it, however high or low its score.
EligibleCanBeCarried ==
    Match.eligible =>
        /\ filter.requireCapacity => Weight <= trip.capacity
        /\ filter.requireExactRoute => trip.route = ShipmentRoute
        /\ filter.requireIdentityVerification => identity = "verified"

BetterInputs(i, j) ==
    /\ i.completed >= j.completed /\ i.cancelled <= j.cancelled
    /\ j.average = Unknown \/ i.average >= j.average

\* News of deliveries or of better reviews, by whichever way it becomes
\* visible, never lowers the trust or the points of a traveler.
NoCost ==
    BetterInputs(VisibleInputs', VisibleInputs) /\ UNCHANGED <<trip, window, identity, filter>>
        => VisibleTrust' >= VisibleTrust /\ Match'.total >= Match.total

\* Once the record is up to date the reader sees what the server counted,
\* whichever of the record and the reviews supplied it.
FreshRecordIsSeen ==
    reputation = Recalculated =>
        VisibleInputs = Inputs(history.completed, history.cancelled, Average(reviews),
                               Len(reviews), 0, "none")

\* "Other-user cards use reviews-only evidence.  They do not read or infer
\* ... cancellations": no cancellation moves another user's visible trust.
OthersCancellationsUnseen ==
    VisibleTrust = calculate([VisibleInputs EXCEPT !.cancelled = 0])
=============================================================================
