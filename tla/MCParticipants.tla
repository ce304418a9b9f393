--------------------------- MODULE MCParticipants ----------------------------
(***************************************************************************)
(* Values of Participants' parameters for TLC.                             *)
(***************************************************************************)
EXTENDS Participants, Matching, TLC

\* The shipments of one sender and other users' trips
Route(oc, o, dc, d) == [originCountry |-> oc, originCity |-> o,
                        destinationCountry |-> dc, destinationCity |-> d]
Here == Route("ke", "nairobi", "uk", "london")

Parcel(weight) == [owner |-> "sender", route |-> Here, category |-> "documents",
                   window |-> [start |-> 10, end |-> 14], weight |-> weight]

Flight(owner, departure, capacity) ==
  [owner |-> owner, route |-> Here, departure |-> departure, arrival |-> departure + 1,
   capacity |-> capacity]

Card(eligible, most, least, verified) ==
  [category |-> {}, eligibleOnly |-> eligible, maximumResults |-> most,
   minimumScore |-> least, verifiedOnly |-> verified]

Parcels == <<Parcel(1), Parcel(3)>>
Flights == <<Flight("tom", 11, 5), Flight("una", 16, 2)>>
OneBest == Card(TRUE, 1, 0, FALSE)
Cards == {OneBest, Card(FALSE, 2, 65, FALSE)}
Regulars == {[completed |-> 5, identity |-> Hidden, trust |-> 8000]}

-----------------------------------------------------------------------------
\* One shipment and the trips it is scored against
AllRoutes == {Here, Route("ke", "nairobi", "uk", "leeds")}
SomeWindows == {[start |-> 20, end |-> 24], Unstructured}
SomeDates == {<<4, 5>>, <<17, 19>>, <<23, 26>>, <<25, 26>>, <<32, 33>>}
SomeFilters ==
  {defaultMatchFilter, createMatchFilter(Card(TRUE, 3, 0, TRUE)),
   [defaultMatchFilter EXCEPT !.requireTimingOverlap = TRUE, !.requireCapacity = FALSE,
                              !.requireExactRoute = FALSE, !.maximumTimingGapDays = 0]}

-----------------------------------------------------------------------------
\* Two devices of one participant, and a reader of the other's record
DeviceOwner == [d \in {"phone", "tablet"} |-> "ann"]
ReviewedSender == "b1" :> "ann"
ReviewedTraveler == "b1" :> "ben"
=============================================================================
