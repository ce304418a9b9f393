--------------------------- MODULE MatchDiscovery ----------------------------
(***************************************************************************)
(* The recommendations of the Send screen: an effect of the screen asks    *)
(* MatchingService for the best trips of every active shipment whenever    *)
(* the shipments, the filters or the retry key change.  The service notes  *)
(* the connection, reads the active listings and then the evidence about   *)
(* the travelers, and ranks.  Listings, evidence and connection change     *)
(* meanwhile.  (The Travel screen does the same with the sides swapped.)   *)
(*                                                                         *)
(* A query only reads: a query whose effect was cleaned up changes nothing *)
(* but is kept, since its answer still arrives.                            *)
(***************************************************************************)
EXTENDS Matching, Sequences

CONSTANTS Shipment,      \* the user's shipments: a function of their numbers
          Trip,          \* other users' trips: a function of their numbers
          CardChoices,       \* what may be applied in the filter card
          DefaultChoice, \* what the card starts with
          EvidenceSet,   \* what may be known of a traveler
          MaxQueries,    \* bound on the queries of the screen
          MaxChanges     \* bound on changes of the world outside the screen

MatchDiscoveryAssumption ==
    /\ DOMAIN Shipment \subseteq Nat /\ DOMAIN Trip \subseteq Nat /\ IsFiniteSet(DOMAIN Trip)
    /\ \A s \in DOMAIN Shipment :
          Shipment[s].window.start \in Int /\ Shipment[s].window.end \in Int
    /\ \A t \in DOMAIN Trip : Trip[t].departure \in Int /\ Trip[t].arrival \in Int
    /\ DefaultChoice \in CardChoices
    /\ \A c \in CardChoices : c.maximumResults \in 1..100 /\ c.minimumScore \in 0..100
    /\ \A e \in EvidenceSet : /\ e.identity = Hidden     \* shown to its owner only
                              /\ e.trust \in Int /\ e.completed \in Int
    /\ MaxQueries \in Nat /\ MaxChanges \in Nat

Travelers == {Trip[t].owner : t \in DOMAIN Trip}

VARIABLES listed,       \* the trips that are active in the database
          known,        \* those that the device's cache holds as active
          connection,   \* OfflineService.getStatus().connection
          evidence,     \* what is visible of each traveler
          owned,        \* activeShipments
          listLoading,  \* the owned shipments are being watched afresh
          filters,      \* matchFilters
          queries,      \* calls of findMatchesForShipments
          current,      \* the query whose effect is active, or 0
          matches,      \* matchesByShipment
          loading,      \* matchesLoading
          failed,       \* matchesError
          changes       \* changes counted against MaxChanges

world == <<listed, known, connection, evidence>>
vars == <<world, owned, listLoading, filters, queries, current, matches, loading, failed,
          changes>>

NoEvidence == [completed |-> Unknown, identity |-> Hidden, trust |-> Unknown]

Freshness == [online |-> "live", offline |-> "cached", unknown |-> "unknown"]

Query == [shipments : SUBSET DOMAIN Shipment, filter : {createMatchFilter(c) : c \in CardChoices},
          label : {"live", "cached", "unknown"}, step : {"listings", "evidence", "done"},
          trips : SUBSET DOMAIN Trip, cached : BOOLEAN,
          evidence : [Travelers -> EvidenceSet \cup {NoEvidence}]]

TypeOK ==
    /\ listed \subseteq DOMAIN Trip /\ known \subseteq DOMAIN Trip
    /\ connection \in DOMAIN Freshness
    /\ evidence \in [Travelers -> EvidenceSet]
    /\ owned \subseteq DOMAIN Shipment /\ filters \in CardChoices
    /\ listLoading \in BOOLEAN /\ loading \in BOOLEAN /\ failed \in BOOLEAN
    /\ current \in 0..Len(queries) /\ Len(queries) <= MaxQueries
    /\ \A n \in 1..Len(queries) : queries[n] \in Query
    /\ DOMAIN matches \subseteq DOMAIN Shipment
    /\ ~(loading /\ failed)

Init ==
    /\ listed = DOMAIN Trip /\ known = {}
    /\ connection \in {"online", "unknown"}
    /\ \E e \in EvidenceSet : evidence = [u \in Travelers |-> e]
    /\ owned = {} /\ listLoading = TRUE /\ filters = DefaultChoice
    /\ queries = <<>> /\ current = 0 /\ matches = <<>>
    /\ loading = FALSE /\ failed = FALSE /\ changes = 0

(***************************************************************************)
(* Ranking.                                                                *)
(***************************************************************************)
Result(q, s, t) ==
    LET e == scoreMatch(Shipment[s], Trip[t], q.evidence[Trip[t].owner], q.filter)
    IN [shipment |-> s, trip |-> t, total |-> e.total, route |-> e.factors.route,
        eligible |-> e.eligible, label |-> q.label]

Precedes(l, r) ==
    LET key(x) == <<-x.total, -x.route, Trip[x.trip].departure, x.trip>>
    IN \E n \in 1..4 : key(l)[n] < key(r)[n] /\ \A k \in 1..n - 1 : key(l)[k] = key(r)[k]

\* The pairs of the query that its filter lets through.
Passing(q) ==
    {r \in {Result(q, s, t) : s \in q.shipments, t \in q.trips} :
        (q.filter.eligibleOnly => r.eligible) /\ r.total >= q.filter.minimumScore}

\* The first n of S in that order; place is a result's number in it.
Best(S, n) ==
    LET place(r) == Cardinality({x \in S : Precedes(x, r)}) + 1
    IN [k \in 1..Least(n, Cardinality(S)) |-> CHOOSE r \in S : place(r) = k]

findMatchesForShipments(q) ==
    [s \in q.shipments |-> Best({r \in Passing(q) : r.shipment = s}, q.filter.maximumResults)]

(***************************************************************************)
(* The effect of the screen, run with the new values of its dependencies.  *)
(***************************************************************************)
Ask(shipments, choice) ==
    queries' = Append(queries,
        [shipments |-> shipments, filter |-> createMatchFilter(choice),
         label |-> Freshness[connection], step |-> "listings", trips |-> {},
         cached |-> FALSE, evidence |-> [u \in Travelers |-> NoEvidence]])

Effect(shipments, choice) ==
    IF shipments = {}
    THEN /\ current' = 0 /\ matches' = <<>> /\ loading' = FALSE /\ failed' = FALSE
         /\ UNCHANGED queries
    ELSE /\ Len(queries) < MaxQueries
         /\ Ask(shipments, choice)
         /\ current' = Len(queries) + 1 /\ loading' = TRUE /\ failed' = FALSE
         /\ UNCHANGED matches

\* The watch of the owned shipments delivers them: a new array every time.
Deliver(shipments) ==
    /\ owned' = shipments /\ listLoading' = FALSE
    /\ Effect(shipments, filters)
    /\ UNCHANGED <<world, filters, changes>>

\* The watch fails: the old array stays, and the effect runs only since the
\* list no longer loads.
WatchFails ==
    /\ listLoading /\ listLoading' = FALSE
    /\ Effect(owned, filters)
    /\ UNCHANGED <<world, owned, filters, changes>>

\* The user retries the list: the effect is cleaned up and does not begin
\* again until the list is there.
RetryList ==
    /\ ~listLoading /\ changes < MaxChanges /\ changes' = changes + 1
    /\ listLoading' = TRUE /\ current' = 0
    /\ UNCHANGED <<world, owned, filters, queries, matches, loading, failed>>

ApplyMutant(choice) ==
    /\ filters' = choice
    /\ UNCHANGED <<world, owned, listLoading, queries, current, matches, loading, failed, changes>>

\* Apply or Reset in the filter card, a new object even for the same choice.
Apply(choice) ==
    /\ filters' = choice
    /\ IF listLoading
       THEN current' = 0 /\ UNCHANGED <<queries, matches, loading, failed>>
       ELSE Effect(owned, choice)
    /\ UNCHANGED <<world, owned, listLoading, changes>>

\* The user retries the recommendations.
Retry ==
    /\ failed /\ ~listLoading
    /\ Effect(owned, filters)
    /\ UNCHANGED <<world, owned, listLoading, filters, changes>>

(***************************************************************************)
(* The service.                                                            *)
(***************************************************************************)
\* The active listings arrive, from the device's cache when it is offline.
ReadListings(n) ==
    /\ queries[n].step = "listings"
    /\ LET cached == connection = "offline"
           read == IF cached THEN known ELSE listed
       IN /\ queries' = [queries EXCEPT ![n].step = "evidence", ![n].trips = read,
                                        ![n].cached = cached]
          /\ known' = read
    /\ UNCHANGED <<listed, connection, evidence, owned, listLoading, filters, current, matches,
                   loading, failed, changes>>

\* The evidence arrives, except what could not be read, and the ranking is
\* shown if its effect is still the active one.
Settle(n, hidden) ==
    /\ queries[n].step = "evidence"
    /\ queries' = [queries EXCEPT ![n].step = "done",
           ![n].evidence = [u \in Travelers |-> IF u \in hidden THEN NoEvidence ELSE evidence[u]]]
    /\ IF n = current
       THEN matches' = findMatchesForShipments(queries'[n]) /\ loading' = FALSE
       ELSE UNCHANGED <<matches, loading>>
    /\ UNCHANGED <<world, owned, listLoading, filters, current, failed, changes>>

\* The listings cannot be read.
Fail(n) ==
    /\ queries[n].step = "listings"
    /\ queries' = [queries EXCEPT ![n].step = "done"]
    /\ IF n = current THEN failed' = TRUE /\ loading' = FALSE ELSE UNCHANGED <<failed, loading>>
    /\ UNCHANGED <<world, owned, listLoading, filters, current, matches, changes>>

(***************************************************************************)
(* The world outside the screen.                                           *)
(***************************************************************************)
World ==
    /\ changes < MaxChanges /\ changes' = changes + 1
    /\ \/ \E t \in DOMAIN Trip :
             /\ listed' = IF t \in listed THEN listed \ {t} ELSE listed \cup {t}
             /\ UNCHANGED <<connection, evidence>>
       \/ \E c \in DOMAIN Freshness \ {connection} :
             c # "unknown" /\ connection' = c /\ UNCHANGED <<listed, evidence>>
       \/ \E u \in Travelers, e \in EvidenceSet :
             /\ e # evidence[u] /\ evidence' = [evidence EXCEPT ![u] = e]
             /\ UNCHANGED <<listed, connection>>
    /\ UNCHANGED <<known, owned, listLoading, filters, queries, current, matches, loading, failed>>

Answers(n) ==
    ReadListings(n) \/ Fail(n) \/ \E hidden \in SUBSET Travelers : Settle(n, hidden)

Next ==
    \/ \E S \in SUBSET DOMAIN Shipment : Deliver(S)
    \/ WatchFails \/ RetryList \/ Retry \/ World
    \/ \E c \in CardChoices : Apply(c)
    \/ \E n \in 1..Len(queries) : Answers(n)

Spec == Init /\ [][Next]_vars

(***************************************************************************)
(* Properties.                                                             *)
(***************************************************************************)
Settled == current # 0 /\ ~loading /\ ~failed

\* The card says that it loads exactly while the query of the active effect
\* is out, however many older ones are still under way.
LoadingTellsQuery ==
    ~listLoading => (loading <=> current # 0 /\ queries[current].step # "done")

\* What is shown was asked for with the filters that the card displays, for
\* the shipments on the screen.
ShownIsAsFiltered ==
    Settled =>
        /\ DOMAIN matches = owned
        /\ \A s \in owned : \A n \in 1..Len(matches[s]) :
              LET r == matches[s][n] IN
              /\ filters.eligibleOnly => r.eligible
              /\ r.total >= filters.minimumScore
              /\ filters.verifiedOnly /\ filters.eligibleOnly => FALSE
        /\ \A s \in owned : Len(matches[s]) <= filters.maximumResults

\* The cap is for each shipment: a pair that passed the filter and is not
\* shown under its shipment stands behind a full list of better ones.
CapKeepsTheBest ==
    Settled =>
        \A r \in Passing(queries[current]) :
            LET shown == matches[r.shipment] IN
            \/ \E n \in 1..Len(shown) : shown[n] = r
            \/ /\ Len(shown) = filters.maximumResults
               /\ \A n \in 1..Len(shown) : Precedes(shown[n], r)

\* "Recommendations were evaluated with an online connection": what carries
\* the label was not read from the device's cache.
LiveIsNotCached ==
    Settled => \A s \in DOMAIN matches : \A n \in 1..Len(matches[s]) :
                   matches[s][n].label = "live" => ~queries[current].cached
=============================================================================
