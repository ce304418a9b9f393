---------------------------- MODULE SafetyProofs -----------------------------
(***************************************************************************)
(* Holds, reviews and their audit log in SafetyState, for any number of    *)
(* operators, shipments and idempotency keys: what the operators' races    *)
(* for a shipment leave behind, and that the log tells it.                 *)
(***************************************************************************)
EXTENDS SafetyState, TLAPS, FiniteSetTheorems

\* What the proofs need to know of a shipment: its content version counts.
ContentCounts ==
  /\ shipment = [s \in Shipment |-> shipment[s]]
  /\ \A s \in Shipment :
       /\ shipment[s].content \in Nat
       /\ DOMAIN shipment[s] = {"status", "weight", "corridor", "content",
                                "activeBooking", "activeCarrier", "activeTrip"}

\* A hold and a review name their shipment.
LEMMA IdParts ==
  /\ \A h \in HoldId : h = <<h[1], h[2], h[3]>> /\ h[1] \in Admin /\ h[2] \in Shipment
                       /\ h[3] \in HoldKey
  /\ \A r \in ReviewId : r = <<r[1], r[2], r[3]>> /\ r[1] \in Admin /\ r[2] \in Shipment
                         /\ r[3] \in ReviewKey
BY DEF HoldId, ReviewId

\* The audit record of a placement, of a submission; the releases of a hold
PlacedRecord(h) ==
  [action |-> "hold.place", actor |-> h[1], target |-> h[2], key |-> h[3]]

SubmittedRecord(r) ==
  [action |-> "safety_review.submit", actor |-> r[1], target |-> r[2], key |-> r[3]]

Releases(h) == {record \in audit : record.action = "hold.release" /\ record.target = h}

\* The log of one hold, with the release it has, and of one review
HoldLogged(h) ==
  /\ hold[h] # "absent" <=> PlacedRecord(h) \in audit
  /\ hold[h] = "released" => \E record : Releases(h) = {record}
  /\ hold[h] # "released" => Releases(h) = {}

ReviewLogged(r) == review[r].decision # "absent" <=> SubmittedRecord(r) \in audit

Logged == (\A h \in HoldId : HoldLogged(h)) /\ (\A r \in ReviewId : ReviewLogged(r))

SafetyInv ==
  /\ SafetyTypeOK /\ ContentCounts
  /\ OneActiveHold /\ OneFinalDecision /\ Logged

\* A log of at most one release per hold has the cardinality it should have.
LEMMA LoggedIsTold == Logged => AuditTellsState
<1> SUFFICES ASSUME Logged, NEW h \in HoldId
             PROVE  Cardinality(Releases(h)) = IF hold[h] = "released" THEN 1 ELSE 0
  BY DEF Logged, HoldLogged, ReviewLogged, PlacedRecord, SubmittedRecord, Releases,
         AuditTellsState
<1>1. CASE hold[h] = "released"
  BY <1>1, FS_Singleton DEF Logged, HoldLogged
<1>2. CASE hold[h] # "released"
  BY <1>2, FS_EmptySet DEF Logged, HoldLogged
<1> QED
  BY <1>1, <1>2

-----------------------------------------------------------------------------
\* Without holds, reviews and records there is nothing to tell.
LEMMA SafetyInvInit == SafetyInit => SafetyInv
<1> SUFFICES ASSUME SafetyInit PROVE SafetyInv
  OBVIOUS
<1>1. /\ \A h \in HoldId : hold[h] = "absent"
      /\ \A r \in ReviewId : review[r] = NoReview
      /\ audit = {}
  BY DEF SafetyInit, InitSafety
<1>2. SafetyTypeOK
  <2>1. NoReview \in Review
    BY ListingAssumption DEF NoReview, Review
  <2> QED
    BY <2>1 DEF SafetyInit, InitSafety, SafetyTypeOK
<1>3. ContentCounts
  BY DEF SafetyInit, InitListings, ContentCounts
<1>4. OneActiveHold
  BY <1>1 DEF OneActiveHold
<1>5. OneFinalDecision
  BY <1>1, <1>3, IdParts DEF OneFinalDecision, NoReview, FinalDecision, ContentCounts
<1>6. Logged
  <2>1. \A h \in HoldId : HoldLogged(h)
    BY <1>1 DEF HoldLogged, Releases
  <2>2. \A r \in ReviewId : ReviewLogged(r)
    BY <1>1 DEF ReviewLogged, NoReview
  <2> QED
    BY <2>1, <2>2 DEF Logged
<1> QED
  BY <1>2, <1>3, <1>4, <1>5, <1>6 DEF SafetyInv

\* A placement finds its shipment without an active hold and its id unused.
LEMMA PlaceHoldKeeps ==
  ASSUME SafetyInv, NEW a \in Admin, NEW s \in Shipment, NEW k \in HoldKey,
         PlaceHold(a, s, k), UNCHANGED listingVars
  PROVE  SafetyInv'
<1> DEFINE new == <<a, s, k>>
           record == [action |-> "hold.place", actor |-> a, target |-> s, key |-> k]
<1>1. new \in HoldId /\ new[1] = a /\ new[2] = s /\ new[3] = k
  BY DEF HoldId
<1>2. /\ hold[new] = "absent" /\ ~HeldShipment(s)
      /\ hold' = [hold EXCEPT ![new] = "active"]
      /\ audit' = audit \cup {record} /\ review' = review
  BY DEF PlaceHold, RecordAuditLog
<1>3. hold \in [HoldId -> {"absent", "active", "released"}]
  BY DEF SafetyInv, SafetyTypeOK
<1>4. SafetyTypeOK'
  <2>1. hold' \in [HoldId -> {"absent", "active", "released"}]
    BY <1>1, <1>2, <1>3
  <2>2. audit' \subseteq AuditRecord
    BY <1>2 DEF AuditRecord, SafetyInv, SafetyTypeOK
  <2> QED
    BY <1>2, <2>1, <2>2 DEF SafetyInv, SafetyTypeOK
<1>5. ContentCounts' /\ OneFinalDecision'
  BY <1>2 DEF SafetyInv, ContentCounts, OneFinalDecision, listingVars
<1>6. OneActiveHold'
  BY <1>1, <1>2, <1>3 DEF SafetyInv, OneActiveHold, HeldShipment
<1>7. ASSUME NEW h \in HoldId PROVE HoldLogged(h)'
  <2>1. HoldLogged(h)
    BY DEF SafetyInv, Logged
  <2>2. Releases(h)' = Releases(h)
    BY <1>2 DEF Releases
  <2>3. CASE h = new
    BY <1>1, <1>2, <1>3, <2>1, <2>2, <2>3 DEF HoldLogged, PlacedRecord
  <2>4. CASE h # new
    <3>1. PlacedRecord(h) # record
      BY <1>1, <2>4, IdParts DEF PlacedRecord
    <3> QED
      BY <1>2, <1>3, <2>1, <2>2, <2>4, <3>1 DEF HoldLogged, PlacedRecord
  <2> QED
    BY <2>3, <2>4
<1>8. ASSUME NEW r \in ReviewId PROVE ReviewLogged(r)'
  <2>1. SubmittedRecord(r) # record
    BY DEF SubmittedRecord
  <2> QED
    BY <1>2, <2>1 DEF SafetyInv, Logged, ReviewLogged, SubmittedRecord
<1> QED
  BY <1>4, <1>5, <1>6, <1>7, <1>8 DEF SafetyInv, Logged

\* A release finds its hold active, hence never released before.
LEMMA ReleaseHoldKeeps ==
  ASSUME SafetyInv, NEW a \in Admin, NEW x \in HoldId, NEW k \in HoldKey,
         ReleaseHold(a, x, k), UNCHANGED listingVars
  PROVE  SafetyInv'
<1> DEFINE record == [action |-> "hold.release", actor |-> a, target |-> x, key |-> k]
<1>1. /\ hold[x] = "active"
      /\ hold' = [hold EXCEPT ![x] = "released"]
      /\ audit' = audit \cup {record} /\ review' = review
  BY DEF ReleaseHold, Releasable, RecordAuditLog
<1>2. hold \in [HoldId -> {"absent", "active", "released"}]
  BY DEF SafetyInv, SafetyTypeOK
<1>3. SafetyTypeOK'
  <2>1. hold' \in [HoldId -> {"absent", "active", "released"}]
    BY <1>1, <1>2
  <2>2. audit' \subseteq AuditRecord
    BY <1>1 DEF AuditRecord, SafetyInv, SafetyTypeOK
  <2> QED
    BY <1>1, <2>1, <2>2 DEF SafetyInv, SafetyTypeOK
<1>4. ContentCounts' /\ OneFinalDecision'
  BY <1>1 DEF SafetyInv, ContentCounts, OneFinalDecision, listingVars
<1>5. OneActiveHold'
  BY <1>1, <1>2 DEF SafetyInv, OneActiveHold
<1>6. ASSUME NEW h \in HoldId PROVE HoldLogged(h)'
  <2>1. HoldLogged(h)
    BY DEF SafetyInv, Logged
  <2>2. PlacedRecord(h)' \in audit' <=> PlacedRecord(h) \in audit
    BY <1>1 DEF PlacedRecord
  <2>3. CASE h = x
    <3>1. Releases(h)' = Releases(h) \cup {record}
      BY <1>1, <2>3 DEF Releases
    <3>2. Releases(h)' = {record}
      BY <1>1, <2>1, <2>3, <3>1 DEF HoldLogged
    <3> QED
      BY <1>1, <1>2, <2>1, <2>2, <2>3, <3>2 DEF HoldLogged
  <2>4. CASE h # x
    <3>1. Releases(h)' = Releases(h)
      BY <1>1, <2>4 DEF Releases
    <3> QED
      BY <1>1, <1>2, <2>1, <2>2, <2>4, <3>1 DEF HoldLogged
  <2> QED
    BY <2>3, <2>4
<1>7. ASSUME NEW r \in ReviewId PROVE ReviewLogged(r)'
  <2>1. SubmittedRecord(r) # record
    BY DEF SubmittedRecord
  <2> QED
    BY <1>1, <2>1 DEF SafetyInv, Logged, ReviewLogged, SubmittedRecord
<1> QED
  BY <1>3, <1>4, <1>5, <1>6, <1>7 DEF SafetyInv, Logged

\* A submission finds no final decision on its shipment and its id unused.
LEMMA SubmitKeeps ==
  ASSUME SafetyInv, NEW a \in Admin, NEW s \in Shipment, NEW k \in ReviewKey,
         NEW decision \in Decision, NEW content \in 1..MaxContent,
         SubmitSafetyReview(a, s, k, decision, content), UNCHANGED listingVars
  PROVE  SafetyInv'
<1> DEFINE new == <<a, s, k>>
           made == [decision |-> decision, content |-> content]
           record == [action |-> "safety_review.submit", actor |-> a, target |-> s,
                      key |-> k]
<1>1. new \in ReviewId /\ new[1] = a /\ new[2] = s /\ new[3] = k
  BY DEF ReviewId
<1>2. /\ review[new].decision = "absent" /\ ~Reviewed(s, FinalDecision)
      /\ content = shipment[s].content
      /\ review' = [review EXCEPT ![new] = made]
      /\ audit' = audit \cup {record} /\ hold' = hold
  BY DEF SubmitSafetyReview, ReviewOpen, RecordAuditLog
<1>3. review \in [ReviewId -> Review]
  BY DEF SafetyInv, SafetyTypeOK
<1>4. /\ review'[new] = made
      /\ \A r \in ReviewId \ {new} : review'[r] = review[r]
  BY <1>1, <1>2, <1>3
<1>5. SafetyTypeOK'
  <2>1. made \in Review
    BY ListingAssumption DEF Review
  <2>2. review' \in [ReviewId -> Review]
    BY <1>2, <1>3, <2>1
  <2>3. audit' \subseteq AuditRecord
    BY <1>2 DEF AuditRecord, SafetyInv, SafetyTypeOK
  <2> QED
    BY <1>2, <2>2, <2>3 DEF SafetyInv, SafetyTypeOK
<1>6. ContentCounts' /\ OneActiveHold'
  BY <1>2 DEF SafetyInv, ContentCounts, OneActiveHold, listingVars
<1>7. OneFinalDecision'
  <2>1. ASSUME NEW q \in ReviewId, q # new, q[2] = s
        PROVE  review'[q].decision \notin FinalDecision
    BY <1>2, <1>4, <2>1 DEF Reviewed
  <2>2. ASSUME NEW q \in ReviewId, NEW r \in ReviewId, q[2] = r[2],
               review'[q].decision \in FinalDecision, review'[r].decision \in FinalDecision
        PROVE  q = r
    BY <1>1, <1>4, <2>1, <2>2 DEF SafetyInv, OneFinalDecision
  <2>3. ASSUME NEW r \in ReviewId PROVE review'[r].content <= shipment'[r[2]].content
    <3>1. CASE r = new
      BY <1>1, <1>2, <1>4, <3>1 DEF listingVars, SafetyInv, ContentCounts
    <3>2. CASE r # new
      BY <1>4, <3>2 DEF SafetyInv, OneFinalDecision, listingVars
    <3> QED
      BY <3>1, <3>2
  <2> QED
    BY <2>2, <2>3 DEF OneFinalDecision
<1>8. ASSUME NEW h \in HoldId PROVE HoldLogged(h)'
  <2>1. PlacedRecord(h) # record
    BY DEF PlacedRecord
  <2>2. Releases(h)' = Releases(h)
    BY <1>2 DEF Releases
  <2> QED
    BY <1>2, <2>1, <2>2 DEF SafetyInv, Logged, HoldLogged, PlacedRecord
<1>9. ASSUME NEW r \in ReviewId PROVE ReviewLogged(r)'
  <2>1. CASE r = new
    BY <1>1, <1>2, <1>4, <2>1 DEF ReviewLogged, SubmittedRecord, Decision
  <2>2. CASE r # new
    <3>1. SubmittedRecord(r) # record
      BY <1>1, <2>2, IdParts DEF SubmittedRecord
    <3> QED
      BY <1>2, <1>4, <2>2, <3>1 DEF SafetyInv, Logged, ReviewLogged, SubmittedRecord
  <2> QED
    BY <2>1, <2>2
<1> QED
  BY <1>5, <1>6, <1>7, <1>8, <1>9 DEF SafetyInv, Logged

-----------------------------------------------------------------------------
\* All the operators' part needs of the rest of the system: nobody else writes
\* holds, reviews or the log, and no content version is ever taken back.
EnvironmentStep ==
  /\ UNCHANGED safetyVars
  /\ ContentCounts'
  /\ \A s \in Shipment : shipment'[s].content >= shipment[s].content

\* The operators among any such neighbours: SafetySpec is one instance, the
\* booking system another.
OperatorsNext ==
  \/ \E a \in Admin : OperatorAction(a) /\ UNCHANGED listingVars
  \/ EnvironmentStep

OperatorsSpec == SafetyInit /\ [][OperatorsNext]_<<listingVars, safetyVars>>

\* An edit raises the content version, and touches neither holds nor reviews.
LEMMA EditIsEnvironment ==
  ASSUME ContentCounts, NEW x \in Shipment, NEW w \in Weights, NEW c \in Corridor,
         NEW changed \in BOOLEAN, EditShipment(x, w, c, changed), UNCHANGED safetyVars
  PROVE  EnvironmentStep
<1> DEFINE version == IF changed THEN shipment[x].content + 1 ELSE shipment[x].content
           edited == [shipment[x] EXCEPT !.weight = w, !.corridor = c,
                                         !.content = version]
<1>1. shipment' = [shipment EXCEPT ![x] = edited]
  BY DEF EditShipment
<1>2. shipment[x].content \in Nat /\ version \in Nat /\ version >= shipment[x].content
  BY DEF ContentCounts
<1>3. /\ edited.content = version /\ DOMAIN edited = DOMAIN shipment[x]
  BY DEF ContentCounts
<1>4. \A s \in Shipment : shipment'[s] = IF s = x THEN edited ELSE shipment[s]
  BY <1>1 DEF ContentCounts
<1> HIDE DEF edited, version
<1>5. ContentCounts'
  <2>1. shipment' = [s \in Shipment |-> shipment'[s]]
    BY <1>1 DEF ContentCounts
  <2> QED
    BY <1>2, <1>3, <1>4, <2>1 DEF ContentCounts
<1>6. ASSUME NEW s \in Shipment
      PROVE  shipment'[s].content >= shipment[s].content
  <2>1. CASE s = x
    BY <1>2, <1>3, <1>4, <2>1
  <2>2. CASE s # x
    BY <1>4, <2>2 DEF ContentCounts
  <2> QED
    BY <2>1, <2>2
<1> QED
  BY <1>5, <1>6 DEF EnvironmentStep

\* What goes on beside the operators' part leaves its invariant as it is.
LEMMA EnvironmentKeeps ==
  ASSUME SafetyInv, EnvironmentStep
  PROVE  SafetyInv'
<1>1. UNCHANGED safetyVars /\ ContentCounts'
  BY DEF EnvironmentStep
<1>2. ASSUME NEW r \in ReviewId PROVE review'[r].content <= shipment'[r[2]].content
  <2>1. /\ review[r].content \in Int /\ review[r].content <= shipment[r[2]].content
        /\ r[2] \in Shipment /\ shipment[r[2]].content \in Nat
    BY IdParts, ListingAssumption
       DEF SafetyInv, SafetyTypeOK, Review, OneFinalDecision, ContentCounts
  <2>2. /\ shipment'[r[2]].content >= shipment[r[2]].content
        /\ shipment'[r[2]].content \in Nat
    BY <1>1, <2>1 DEF EnvironmentStep, ContentCounts
  <2>3. review'[r].content = review[r].content
    BY <1>1 DEF safetyVars
  <2> QED
    BY <2>1, <2>2, <2>3
<1>3. OneFinalDecision'
  BY <1>1, <1>2 DEF SafetyInv, OneFinalDecision, safetyVars
<1>4. SafetyTypeOK' /\ OneActiveHold' /\ Logged'
  BY <1>1 DEF SafetyInv, SafetyTypeOK, OneActiveHold, Logged, HoldLogged, ReviewLogged,
              Releases, PlacedRecord, SubmittedRecord, safetyVars
<1> QED
  BY <1>1, <1>3, <1>4 DEF SafetyInv

\* Every step of the operators and of their neighbours keeps the invariant.
LEMMA SafetyInvStep ==
  ASSUME SafetyInv, [OperatorsNext]_<<listingVars, safetyVars>>
  PROVE  SafetyInv'
<1>1. ASSUME NEW a \in Admin, OperatorAction(a), UNCHANGED listingVars
      PROVE  SafetyInv'
  BY <1>1, PlaceHoldKeeps, ReleaseHoldKeeps, SubmitKeeps DEF OperatorAction
<1>2. CASE UNCHANGED <<listingVars, safetyVars>>
  BY <1>2 DEF SafetyInv, SafetyTypeOK, ContentCounts, OneActiveHold, OneFinalDecision,
              Logged, HoldLogged, ReviewLogged, Releases, PlacedRecord, SubmittedRecord,
              listingVars, safetyVars
<1> QED
  BY <1>1, <1>2, EnvironmentKeeps DEF OperatorsNext

\* The invariant of holds, reviews and log holds in every reachable state.
LEMMA OperatorsInvariant == OperatorsSpec => []SafetyInv
BY SafetyInvInit, SafetyInvStep, PTL DEF OperatorsSpec

\* What the operators' part promises holds among any neighbours of that kind:
\* one hold in force on a shipment, a log that tells the state, one final
\* decision on a shipment, and no review after it.
LEMMA OperatorsPromise ==
  OperatorsSpec => /\ []OneActiveHold /\ []AuditTellsState /\ []OneFinalDecision
                   /\ FinalDecisionStands
<1>1. SafetyInv => OneActiveHold /\ AuditTellsState /\ OneFinalDecision
  BY LoggedIsTold DEF SafetyInv
<1>2. SafetyInv /\ [OperatorsNext]_<<listingVars, safetyVars>> =>
        [\A r \in ReviewId :
           Reviewed(r[2], FinalDecision) => review'[r] = review[r]]_<<listingVars, safetyVars>>
  <2> SUFFICES ASSUME SafetyInv, OperatorsNext, NEW r \in ReviewId,
                      Reviewed(r[2], FinalDecision)
               PROVE  review'[r] = review[r]
    OBVIOUS
  <2>1. ASSUME NEW a \in Admin, NEW s \in Shipment, NEW k \in ReviewKey,
               NEW decision \in Decision, NEW content \in 1..MaxContent,
               SubmitSafetyReview(a, s, k, decision, content)
        PROVE  review'[r] = review[r]
    <3>1. <<a, s, k>> # r
      BY <2>1 DEF SubmitSafetyReview, ReviewOpen
    <3> QED
      BY <2>1, <3>1 DEF SubmitSafetyReview, SafetyInv, SafetyTypeOK
  <2> QED
    BY <2>1 DEF OperatorsNext, OperatorAction, PlaceHold, ReleaseHold, EnvironmentStep,
                safetyVars
<1> QED
  BY <1>1, <1>2, OperatorsInvariant, PTL DEF OperatorsSpec, FinalDecisionStands

-----------------------------------------------------------------------------
\* Owners who edit their shipments are such neighbours.
THEOREM OwnersAreNeighbours == SafetySpec => OperatorsSpec
<1>1. SafetyInv /\ [SafetyNext]_<<listingVars, safetyVars>> =>
        [OperatorsNext]_<<listingVars, safetyVars>>
  BY EditIsEnvironment DEF SafetyInv, SafetyNext, OperatorsNext
<1>2. SafetyInv /\ [SafetyNext]_<<listingVars, safetyVars>> => SafetyInv'
  BY <1>1, SafetyInvStep
<1> QED
  BY <1>1, <1>2, SafetyInvInit, PTL DEF SafetySpec, OperatorsSpec

\* However many operators race, each with keys of their own, a shipment has at
\* most one hold in force.
THEOREM OneHold == SafetySpec => []OneActiveHold
BY OwnersAreNeighbours, OperatorsPromise, PTL

\* The audit log has the placement of every hold and of none else, exactly one
\* release of a released hold and none of an active one, and the submission of
\* every review, whatever calls were repeated.
THEOREM AuditIsTrue == SafetySpec => []AuditTellsState
BY OwnersAreNeighbours, OperatorsPromise, PTL

\* A shipment gets one final decision, on a content it had reached.
THEOREM FinalOnce == SafetySpec => []OneFinalDecision
BY OwnersAreNeighbours, OperatorsPromise, PTL

\* Once a review of a shipment is final no review of it is added or changed,
\* whatever its owner edits.
THEOREM FinalStands == SafetySpec => FinalDecisionStands
BY OwnersAreNeighbours, OperatorsPromise, PTL
=============================================================================
