---------------------------- MODULE SafetyState -----------------------------
(***************************************************************************)
(* Administrative holds and shipment safety reviews: the operator's half   *)
(* of the system.  Document ids are derived from (actor, shipment,         *)
(* idempotency key), so a hold or a review is addressed by that triple.    *)
(* A call whose id is taken writes nothing: it succeeds as a replay or     *)
(* fails as a conflict.                                                    *)
(***************************************************************************)
EXTENDS Listings

CONSTANTS
  Admin,             \* operators with the permission to hold and review
  HoldKey,           \* idempotency keys of hold placements and releases
  ReviewKey          \* idempotency keys of review submissions

VARIABLES
  hold,              \* [HoldId -> {"absent", "active", "released"}]
  review,            \* [ReviewId -> decision, content version reviewed]
  audit              \* the set of audit records written

safetyVars == <<hold, review, audit>>

-----------------------------------------------------------------------------
HoldId == Admin \X Shipment \X HoldKey
ReviewId == Admin \X Shipment \X ReviewKey

Decision == {"approved", "rejected", "needs_more_information"}
FinalDecision == {"approved", "rejected"}
Review == [decision: Decision \cup {"absent"}, content: 0..MaxContent]
NoReview == [decision |-> "absent", content |-> 0]

AuditRecord ==
  [action: {"hold.place"}, actor: Admin, target: Shipment, key: HoldKey]
    \cup [action: {"hold.release"}, actor: Admin, target: HoldId, key: HoldKey]
    \cup [action: {"safety_review.submit"}, actor: Admin, target: Shipment,
          key: ReviewKey]

SafetyTypeOK ==
  /\ hold \in [HoldId -> {"absent", "active", "released"}]
  /\ review \in [ReviewId -> Review]
  /\ audit \subseteq AuditRecord

InitSafety ==
  /\ hold = [h \in HoldId |-> "absent"]
  /\ review = [r \in ReviewId |-> NoReview]
  /\ audit = {}

-----------------------------------------------------------------------------
HeldShipment(s) == \E h \in HoldId : h[2] = s /\ hold[h] = "active"

Reviewed(s, decisions) ==
  \E r \in ReviewId : r[2] = s /\ review[r].decision \in decisions

\* What booking creation, acceptance and pickup require of the shipment
SafetyClearMutant(s) ==
  Reviewed(s, {"rejected", "needs_more_information"}) => Reviewed(s, {"approved"})
AssertShipmentSafetyClear(s) ==
  /\ ~HeldShipment(s)
  /\ ~Reviewed(s, {"rejected"})
  /\ Reviewed(s, {"needs_more_information"}) => Reviewed(s, {"approved"})

RecordAuditLog(action, a, target, key) ==
  audit' = audit \cup {[action |-> action, actor |-> a,
                        target |-> target, key |-> key]}

PlaceHoldMutant(a, s, k) ==
  /\ hold[<<a, s, k>>] = "absent"
  /\ hold' = [hold EXCEPT ![<<a, s, k>>] = "active"]
  /\ RecordAuditLog("hold.place", a, s, k)
  /\ UNCHANGED review
PlaceHold(a, s, k) ==
  /\ hold[<<a, s, k>>] = "absent"
  /\ ~HeldShipment(s)
  /\ hold' = [hold EXCEPT ![<<a, s, k>>] = "active"]
  /\ RecordAuditLog("hold.place", a, s, k)
  /\ UNCHANGED review

\* A hold released before is not released again
ReleasableMutant(h) == hold[h] # "absent"
Releasable(h) == hold[h] = "active"

\* A release whose own audit record exists is a replay
ReleaseHold(a, h, k) ==
  /\ ~\E record \in audit :
        /\ record.action = "hold.release"
        /\ record.actor = a /\ record.target = h /\ record.key = k
  /\ Releasable(h)
  /\ hold' = [hold EXCEPT ![h] = "released"]
  /\ RecordAuditLog("hold.release", a, h, k)
  /\ UNCHANGED review

ReviewOpenMutant(s) == ~Reviewed(s, {"rejected"})
ReviewOpen(s) == ~Reviewed(s, FinalDecision)

\* The reviewer names the content version reviewed
SubmitSafetyReview(a, s, k, decision, content) ==
  /\ review[<<a, s, k>>].decision = "absent"
  /\ ReviewOpen(s)
  /\ content = shipment[s].content
  /\ review' = [review EXCEPT ![<<a, s, k>>] =
                  [decision |-> decision, content |-> content]]
  /\ RecordAuditLog("safety_review.submit", a, s, k)
  /\ UNCHANGED hold

-----------------------------------------------------------------------------
OperatorAction(a) ==
  \/ \E s \in Shipment, k \in HoldKey : PlaceHold(a, s, k)
  \/ \E h \in HoldId, k \in HoldKey : ReleaseHold(a, h, k)
  \/ \E s \in Shipment, k \in ReviewKey, decision \in Decision,
        content \in 1..MaxContent : SubmitSafetyReview(a, s, k, decision, content)

\* The component on its own: operators act on shipments their owners edit
SafetyNext ==
  \/ \E a \in Admin : OperatorAction(a) /\ UNCHANGED listingVars
  \/ \E s \in Shipment, w \in Weights, c \in Corridor, changed \in BOOLEAN :
       EditShipment(s, w, c, changed) /\ UNCHANGED safetyVars

SafetyInit == InitListings /\ InitSafety

SafetySpec == SafetyInit /\ [][SafetyNext]_<<listingVars, safetyVars>>

-----------------------------------------------------------------------------
\* Operators who race for a shipment, each with keys of their own, never put
\* two holds in force on it: one release clears the shipment of its hold.
OneActiveHold ==
  \A g, h \in HoldId :
    hold[g] = "active" /\ hold[h] = "active" /\ g[2] = h[2] => g = h

\* The audit log tells the state: a placement for every hold and none else,
\* one release for a released hold and none for an active one, a submission
\* for every review; no retry with another key or by another operator is
\* logged as a second release.
AuditTellsState ==
  /\ \A h \in HoldId :
       LET releases == {record \in audit : record.action = "hold.release"
                                          /\ record.target = h} IN
       /\ hold[h] # "absent" <=>
            [action |-> "hold.place", actor |-> h[1], target |-> h[2],
             key |-> h[3]] \in audit
       /\ Cardinality(releases) = IF hold[h] = "released" THEN 1 ELSE 0
  /\ \A r \in ReviewId :
       review[r].decision # "absent" <=>
         [action |-> "safety_review.submit", actor |-> r[1], target |-> r[2],
          key |-> r[3]] \in audit

\* A final decision ends the review of a shipment for good: there is one, and
\* no review of the shipment was made on a content it had not reached.
OneFinalDecision ==
  /\ \A q, r \in ReviewId :
       /\ q[2] = r[2]
       /\ review[q].decision \in FinalDecision
       /\ review[r].decision \in FinalDecision
       => q = r
  /\ \A r \in ReviewId : review[r].content <= shipment[r[2]].content

\* Nothing is added to or changed in the reviews of a shipment once one of
\* them is final, whatever its owner edits afterwards.
FinalDecisionStands ==
  [][\A r \in ReviewId :
       Reviewed(r[2], FinalDecision) => review'[r] = review[r]]_<<listingVars, safetyVars>>
=============================================================================
