------------------------------ MODULE Matching -------------------------------
(***************************************************************************)
(* How a shipment and a trip are scored against each other, and how a      *)
(* traveler's trust is calculated: the pure functions of scoringFactors,   *)
(* TrustCalculator and MatchFilter.                                        *)
(*                                                                         *)
(* Days are numbers.  Ratings, trust points and trust scores are counted   *)
(* in hundredths, which is how the code rounds them.                       *)
(***************************************************************************)
EXTENDS Integers, FiniteSets

Least(a, b) == IF a < b THEN a ELSE b
Greatest(a, b) == IF a > b THEN a ELSE b
Clamp(x, low, high) == Least(Greatest(x, low), high)

\* x / y to the nearest whole, halves upwards, as Math.round does.
Rounded(x, y) == (2 * x + y) \div (2 * y)

Unknown == -1            \* a number that the viewer cannot see
Hidden == "hidden"       \* an identity status that the viewer cannot see

(***************************************************************************)
(* TrustCalculator.                                                        *)
(***************************************************************************)
Inputs(completed, cancelled, average, reviewed, age, level) ==
    [completed |-> completed, cancelled |-> cancelled, average |-> average,
     reviewed |-> reviewed, age |-> age, level |-> level]

FullTrust == 10000       \* a trust score of a hundred

LevelPoints == [none |-> 0, basic |-> 1000, identity |-> 2000]

CancellationPoints(i) == -500 * Clamp(i.cancelled, 0, 5)

ReviewPoints(i) == IF i.reviewed > 0 THEN 5 * Clamp(i.average, 100, 500) ELSE 0

calculate(i) ==
    LET sum == 400 * Clamp(i.completed, 0, 10) + CancellationPoints(i) + ReviewPoints(i)
               + Rounded(1500 * Clamp(i.age, 0, 365), 365) + LevelPoints[i.level]
    IN Clamp(sum, 0, FullTrust)

(***************************************************************************)
(* The factors.  A shipment s and a trip t have a route, which gives the   *)
(* place of each field; a shipment has a window, a pair of days, or        *)
(* Unstructured.  ev is the evidence about the traveler.                   *)
(***************************************************************************)
maximumPoints == [route |-> 25, timing |-> 15, capacity |-> 15, package |-> 10,
                  trust |-> 15, identity |-> 10, history |-> 10]

RouteFields == {"originCountry", "originCity", "destinationCountry", "destinationCity"}

Differing(s, t) == {f \in RouteFields : s.route[f] # t.route[f]}

RoutePoints(s, t) ==
    LET of(f) == IF f \in Differing(s, t) THEN 0
                 ELSE CASE f = "originCountry" -> 5 [] f = "originCity" -> 8
                        [] f = "destinationCountry" -> 5 [] f = "destinationCity" -> 7
    IN of("originCountry") + of("originCity") + of("destinationCountry") + of("destinationCity")

RouteBlocks(s, t, filter) ==
    RoutePoints(s, t) = 0 \/ (filter.requireExactRoute /\ Differing(s, t) # {})

Unstructured == [start |-> 0, end |-> -1]

ArrivesInside(s, t) == s.window.start <= t.arrival /\ t.arrival <= s.window.end
Overlaps(s, t) == t.departure <= s.window.end /\ s.window.start <= t.arrival

GapDays(s, t) ==
    Greatest(0, IF t.arrival < s.window.start THEN s.window.start - t.arrival
                ELSE t.departure - s.window.end)

\* What a gap between the trip and the window is worth: less, the longer.
GapPointsMutant(gap, longest) ==
    IF gap > longest THEN 0 ELSE 9 + (gap * 8) \div Greatest(1, longest)

GapPoints(gap, longest) ==
    IF gap > longest THEN 0 ELSE Greatest(1, 9 - (gap * 8) \div Greatest(1, longest))

TimingPoints(s, t, filter) ==
    IF s.window = Unstructured THEN 5
    ELSE IF ArrivesInside(s, t) THEN 15
    ELSE IF Overlaps(s, t) THEN 10
    ELSE GapPoints(GapDays(s, t), filter.maximumTimingGapDays)

TimingBlocks(s, t, filter) ==
    /\ filter.requireTimingOverlap
    /\ s.window = Unstructured \/ ~(ArrivesInside(s, t) \/ Overlaps(s, t))

CapacityPoints(s, t) == IF s.weight <= t.capacity THEN 15 ELSE 0

CapacityBlocks(s, t, filter) == filter.requireCapacity /\ s.weight > t.capacity

Compatible(s, filter) ==
    /\ s.category \notin filter.blocked
    /\ filter.allowed = {} \/ s.category \in filter.allowed

PackagePoints(s, filter) ==
    IF ~Compatible(s, filter) THEN 0 ELSE IF filter.allowed = {} THEN 5 ELSE 10

PackageBlocks(s, filter) ==
    /\ ~Compatible(s, filter)
    /\ filter.requirePackageCompatibility \/ s.category \in filter.blocked

TrustPoints(ev) ==
    IF ev.trust = Unknown THEN 0 ELSE Rounded(15 * Clamp(ev.trust, 0, FullTrust), FullTrust)

InProgress == {"draft", "submitted", "under_review"}

IdentityPoints(ev) ==
    IF ev.identity = "verified" THEN 10
    ELSE IF ev.identity \in InProgress \cup {Hidden} THEN 5 ELSE 0

IdentityBlocks(ev, filter) ==
    filter.requireIdentityVerification /\ ev.identity # "verified"

HistoryPoints(ev) ==
    IF ev.completed = Unknown THEN 0
    ELSE IF ev.completed >= 5 THEN 10
    ELSE IF ev.completed >= 2 THEN 6
    ELSE IF ev.completed = 1 THEN 3 ELSE 0

Factors(s, t, ev, filter) ==
    [route |-> RoutePoints(s, t), timing |-> TimingPoints(s, t, filter),
     capacity |-> CapacityPoints(s, t), package |-> PackagePoints(s, filter),
     trust |-> TrustPoints(ev), identity |-> IdentityPoints(ev), history |-> HistoryPoints(ev)]

\* The listing and the filter forbid the pair, whatever its points.
Blocked(s, t, ev, filter) ==
    \/ RouteBlocks(s, t, filter) \/ TimingBlocks(s, t, filter)
    \/ CapacityBlocks(s, t, filter) \/ PackageBlocks(s, filter)
    \/ IdentityBlocks(ev, filter)
    \/ ~filter.includeSameOwner /\ s.owner = t.owner

scoreMatch(s, t, ev, filter) ==
    LET f == Factors(s, t, ev, filter)
    IN [factors |-> f, eligible |-> ~Blocked(s, t, ev, filter),
        total |-> f.route + f.timing + f.capacity + f.package + f.trust + f.identity + f.history]

(***************************************************************************)
(* MatchFilter.                                                            *)
(***************************************************************************)
defaultMatchFilter ==
    [allowed |-> {}, blocked |-> {}, eligibleOnly |-> TRUE, includeSameOwner |-> FALSE,
     maximumResults |-> 50, maximumTimingGapDays |-> 14, minimumScore |-> 0,
     requireCapacity |-> TRUE, requireExactRoute |-> TRUE,
     requireIdentityVerification |-> FALSE, requirePackageCompatibility |-> FALSE,
     requireTimingOverlap |-> FALSE]

\* What the two screens ask for, given the choices of their filter card.
createMatchFilter(choice) ==
    [defaultMatchFilter EXCEPT
        !.allowed = choice.category, !.requirePackageCompatibility = (choice.category # {}),
        !.eligibleOnly = choice.eligibleOnly, !.maximumResults = choice.maximumResults,
        !.minimumScore = choice.minimumScore,
        !.requireIdentityVerification = choice.verifiedOnly]
=============================================================================
