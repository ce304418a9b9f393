--------------------------- MODULE PromiseProofs ----------------------------
(***************************************************************************)
(* Codes and the promise. In BookingLifecycle the participants see what    *)
(* the server holds and custody never runs ahead of the codes, for any     *)
(* number of bookings and any allowance of attempts; and BookingLifecycle  *)
(* implements ParcelPromise.                                               *)
(*                                                                         *)
(* The mapping looks at the booking that claims a shipment; that there is  *)
(* one such booking, agreed on what is offered, and that its codes are the *)
(* ones its custody waits for, is what CommitmentInv and HandoffInv say.   *)
(***************************************************************************)
EXTENDS StatusProofs

(***************************************************************************)
(* The handoff codes.                                                      *)
(***************************************************************************)
\* The steps as one code of one booking sees them
CodeKept(b, c) ==
  secrets'[b][c] = secrets[b][c] /\ agreement'[b][c] = agreement[b][c]

CodeCreated(b, c) ==
  /\ booking[b].status = "pending" /\ b \notin handoffs
  /\ Accepted(b)
  /\ secrets'[b][c] = NewSecret /\ agreement'[b][c] = NewVerification

CodeIssued(b, c) ==
  /\ secrets'[b][c].verified = secrets[b][c].verified
  /\ agreement'[b][c].verified = agreement[b][c].verified
  /\ agreement'[b][c].failed = secrets'[b][c].attempts

CodeVerified(b, c) ==
  /\ booking[b].status \in VerifiableIn(c)
  /\ secrets'[b][c].verified = TRUE /\ agreement'[b][c].verified = TRUE

CodeMissed(b, c) ==
  /\ secrets[b][c].verified = FALSE
  /\ secrets'[b][c].verified = FALSE /\ agreement'[b][c].verified = FALSE
  /\ agreement'[b][c].failed = secrets'[b][c].attempts

CodeTried(b, c) ==
  /\ CodeIssued(b, c) \/ CodeVerified(b, c) \/ CodeMissed(b, c)
  /\ UNCHANGED <<bookingVars, listingVars, safetyVars, handoffs>>

CodeMoved(b, c) == CodeKept(b, c) \/ CodeCreated(b, c) \/ CodeTried(b, c)

\* The two documents of every booking are well formed.
LEMMA HandoffShape ==
  ASSUME TypeOK
  PROVE  /\ secrets \in [BookingId -> [CodeType -> Secret]]
         /\ agreement \in [BookingId -> [CodeType -> Verification]]
BY DEF TypeOK, HandoffTypeOK

\* A code issued is seen by that code alone, without attempts.
LEMMA IssuedSeen ==
  ASSUME TypeOK, NEW b \in BookingId, NEW c \in CodeType,
         IssueHandoffCode(b, c, booking[b].status)
  PROVE  /\ CodeIssued(b, c)
         /\ \A x \in BookingId, d \in CodeType : x # b \/ d # c => CodeKept(x, d)
<1> DEFINE issued == [secrets[b][c] EXCEPT !.issued = TRUE, !.usable = TRUE,
                                           !.attempts = 0]
           cleared == [agreement[b][c] EXCEPT !.failed = 0]
<1>1. secrets' = [secrets EXCEPT ![b][c] = issued]
  BY DEF IssueHandoffCode
<1>2. agreement' = [agreement EXCEPT ![b][c] = cleared]
  BY DEF IssueHandoffCode
<1>3. secrets[b][c] \in Secret /\ agreement[b][c] \in Verification
  BY HandoffShape
<1>4. /\ issued.verified = secrets[b][c].verified /\ issued.attempts = 0
      /\ cleared.verified = agreement[b][c].verified /\ cleared.failed = 0
  BY <1>3 DEF Secret, Verification
<1> HIDE DEF issued, cleared
<1>5. secrets'[b][c] = issued /\ agreement'[b][c] = cleared
  BY <1>1, <1>2, HandoffShape
<1>6. \A x \in BookingId, d \in CodeType : x # b \/ d # c => CodeKept(x, d)
  BY <1>1, <1>2, HandoffShape DEF CodeKept
<1> QED
  BY <1>4, <1>5, <1>6 DEF CodeIssued

\* So is a code entered, right or wrong.
LEMMA VerifiedSeen ==
  ASSUME TypeOK, NEW b \in BookingId, NEW c \in CodeType, NEW match \in BOOLEAN,
         VerifyHandoff(b, c, booking[b].status, match)
  PROVE  /\ CodeVerified(b, c) \/ CodeMissed(b, c)
         /\ \A x \in BookingId, d \in CodeType : x # b \/ d # c => CodeKept(x, d)
<1>1. secrets[b][c] \in Secret
  BY HandoffShape
<1>2. CASE match
  <2> DEFINE verified == [secrets[b][c] EXCEPT !.verified = TRUE, !.usable = FALSE]
             outcome == [verified |-> TRUE, failed |-> 0]
  <2>1. /\ booking[b].status \in VerifiableIn(c)
        /\ secrets' = [secrets EXCEPT ![b][c].verified = TRUE, ![b][c].usable = FALSE]
        /\ agreement' = [agreement EXCEPT ![b][c] = outcome]
    BY <1>2, Zenon DEF VerifyHandoff
  <2>2. secrets' = [secrets EXCEPT ![b][c] = verified]
    BY <2>1
  <2>3. verified.verified = TRUE /\ outcome.verified = TRUE
    BY <1>1 DEF Secret
  <2> HIDE DEF verified, outcome
  <2>4. secrets'[b][c] = verified /\ agreement'[b][c] = outcome
    BY <2>1, <2>2, HandoffShape
  <2>5. \A x \in BookingId, d \in CodeType : x # b \/ d # c => CodeKept(x, d)
    BY <2>1, <2>2, HandoffShape DEF CodeKept
  <2> QED
    BY <2>1, <2>3, <2>4, <2>5 DEF CodeVerified
<1>3. CASE ~match
  <2> DEFINE attempts == secrets[b][c].attempts + 1
             counted == [secrets[b][c] EXCEPT !.attempts = attempts]
             outcome == [verified |-> FALSE, failed |-> attempts]
  <2>1. /\ ~secrets[b][c].verified
        /\ secrets' = [secrets EXCEPT ![b][c].attempts = attempts]
        /\ agreement' = [agreement EXCEPT ![b][c] = outcome]
    BY <1>3, Zenon DEF VerifyHandoff
  <2>2. secrets' = [secrets EXCEPT ![b][c] = counted]
    BY <2>1
  <2>3. /\ counted.verified = secrets[b][c].verified /\ counted.attempts = attempts
        /\ outcome.verified = FALSE /\ outcome.failed = attempts
        /\ secrets[b][c].verified \in BOOLEAN
    BY <1>1 DEF Secret
  <2> HIDE DEF counted, outcome, attempts
  <2>4. secrets'[b][c] = counted /\ agreement'[b][c] = outcome
    BY <2>1, <2>2, HandoffShape
  <2>5. \A x \in BookingId, d \in CodeType : x # b \/ d # c => CodeKept(x, d)
    BY <2>1, <2>2, HandoffShape DEF CodeKept
  <2>6. CodeMissed(b, c)
    BY <2>1, <2>3, <2>4, Zenon DEF CodeMissed
  <2> QED
    BY <2>5, <2>6
<1> QED
  BY <1>2, <1>3

\* Every step of the system is one of these to each code.
LEMMA CodeStep ==
  ASSUME TypeOK, [Next]_vars, NEW x \in BookingId, NEW d \in CodeType
  PROVE  CodeMoved(x, d)
<1>1. CASE UNCHANGED handoffVars
  BY <1>1 DEF handoffVars, CodeMoved, CodeKept
<1>2. ASSUME NEW b \in BookingId, AcceptBooking(b)
      PROVE  CodeMoved(x, d)
  <2>1. CreateInitialHandoffRecords(b)
    BY <1>2 DEF AcceptBooking
  <2>2. CASE b \in handoffs
    BY <2>1, <2>2 DEF CreateInitialHandoffRecords, handoffVars, CodeMoved, CodeKept
  <2>3. CASE b \notin handoffs
    <3>1. /\ secrets' = [secrets EXCEPT ![b] = [c \in CodeType |-> NewSecret]]
          /\ agreement' = [agreement EXCEPT ![b] = [c \in CodeType |-> NewVerification]]
      BY <2>1, <2>3 DEF CreateInitialHandoffRecords
    <3>2. CASE x = b
      <4>1. secrets'[x][d] = NewSecret /\ agreement'[x][d] = NewVerification
        BY <3>1, <3>2, HandoffShape
      <4>2. booking[x].status = "pending" /\ booking'[x].status = "accepted"
        <5>1. booking'[b] = [status |-> "accepted", reserved |-> shipment[b[1]].weight]
          BY <1>2, AcceptEffect
        <5>2. booking[b].status = "pending"
          BY <1>2, AcceptEffect
        <5> QED
          BY <3>2, <5>1, <5>2
      <4>3. Accepted(x)
        BY <4>2, StepOf DEF Moved, Unmoved, Created, Withdrawn, PickedUp, Delivered,
                            Completed, Travelled
      <4> QED
        BY <2>3, <3>2, <4>1, <4>2, <4>3 DEF CodeMoved, CodeCreated
    <3>3. CASE x # b
      BY <3>1, <3>3, HandoffShape DEF CodeMoved, CodeKept
    <3> QED
      BY <3>2, <3>3
  <2> QED
    BY <2>2, <2>3
<1>3. ASSUME NEW b \in BookingId, HandoffStep(b)
      PROVE  CodeMoved(x, d)
  <2>1. /\ UNCHANGED <<bookingVars, listingVars, safetyVars>>
        /\ \E c \in CodeType :
             \/ IssueHandoffCode(b, c, booking[b].status)
             \/ \E match \in BOOLEAN : VerifyHandoff(b, c, booking[b].status, match)
    BY <1>3 DEF HandoffStep
  <2>2. ASSUME NEW c \in CodeType, IssueHandoffCode(b, c, booking[b].status)
        PROVE  CodeMoved(x, d)
    <3>1. handoffs' = handoffs
      BY <2>2 DEF IssueHandoffCode
    <3>2. CASE x = b /\ d = c
      BY <2>1, <2>2, <3>1, <3>2, IssuedSeen DEF CodeMoved, CodeTried
    <3>3. CASE x # b \/ d # c
      BY <2>2, <3>3, IssuedSeen DEF CodeMoved
    <3> QED
      BY <3>2, <3>3
  <2>3. ASSUME NEW c \in CodeType, NEW match \in BOOLEAN,
               VerifyHandoff(b, c, booking[b].status, match)
        PROVE  CodeMoved(x, d)
    <3>1. handoffs' = handoffs
      BY <2>3, Zenon DEF VerifyHandoff
    <3>2. CASE x = b /\ d = c
      <4>1. CodeVerified(b, c) \/ CodeMissed(b, c)
        BY <2>3, VerifiedSeen, Zenon
      <4> QED
        BY <2>1, <3>1, <3>2, <4>1 DEF CodeMoved, CodeTried
    <3>3. CASE x # b \/ d # c
      <4>1. CodeKept(x, d)
        BY <2>3, <3>3, VerifiedSeen, Zenon
      <4> QED
        BY <4>1 DEF CodeMoved
    <3> QED
      BY <3>2, <3>3
  <2> QED
    BY <2>1, <2>2, <2>3, Zenon
<1>4. ASSUME NEW s \in Shipment, NEW t \in Trip,
             \/ \E op \in Operation \cup {None} : RequestBooking(s, t, op)
             \/ CreateRequestDirectly(s, t)
      PROVE  UNCHANGED handoffVars
  BY <1>4 DEF RequestBooking, CreateRequestDirectly
<1>5. ASSUME NEW b \in BookingId,
             CancelPendingBooking(b) \/ CancelAcceptedBooking(b) \/ DeclineBooking(b)
      PROVE  UNCHANGED handoffVars
  BY <1>5 DEF CancelPendingBooking, CancelAcceptedBooking, DeclineBooking, Withdraw
<1>6. ASSUME NEW b \in BookingId, CustodyStep(b)
      PROVE  UNCHANGED handoffVars
  BY <1>6 DEF CustodyStep, ConfirmPickupCustody, ConfirmDeliveryCustody,
              CompleteBookingCustody, RecordTravelEvent
<1>7. ASSUME (\E a \in Admin : OperatorStep(a)) \/ OwnerStep \/ UNCHANGED vars
      PROVE  UNCHANGED handoffVars
  BY <1>7 DEF OperatorStep, OwnerStep, vars
<1> QED
  BY <1>1, <1>2, <1>3, <1>4, <1>5, <1>6, <1>7, Zenon DEF Next, BookingStep

-----------------------------------------------------------------------------
\* No code of a booking is verified before its acceptance, which keeps the two
\* documents of a booking that has them.
UnverifiedBefore ==
  \A b \in BookingId :
    booking[b].status \in NotYetAccepted => \A c \in CodeType : ~secrets[b][c].verified

\* The parts of VerifiedHandoffs, of one code and of one booking
Mirrored(b, c) ==
  /\ agreement[b][c].verified = secrets[b][c].verified
  /\ ~secrets[b][c].verified => agreement[b][c].failed = secrets[b][c].attempts

Unlocked(b) ==
  /\ booking[b].status \in PickedUpStatus => secrets[b]["pickup"].verified
  /\ booking[b].status \in DeliveredStatus => secrets[b]["delivery"].verified
  /\ secrets[b]["delivery"].verified => booking[b].status \in PickedUpStatus

\* With the events of a booking following its status, the parts are the whole.
LEMMA VerifiedHandoffsDef ==
  ASSUME CustodyFollowsStatus
  PROVE  VerifiedHandoffs <=>
           \A b \in BookingId : Unlocked(b) /\ \A c \in CodeType : Mirrored(b, c)
BY DEF VerifiedHandoffs, CustodyFollowsStatus, Unlocked, Mirrored, PickedUpStatus,
       DeliveredStatus

\* The participants' copy of a code is written with the server's.
LEMMA MirrorStep ==
  ASSUME TypeOK, [Next]_vars, NEW b \in BookingId, NEW c \in CodeType, Mirrored(b, c)
  PROVE  Mirrored(b, c)'
<1>1. CodeMoved(b, c)
  BY CodeStep
<1>2. CASE CodeKept(b, c)
  BY <1>2 DEF CodeKept, Mirrored
<1>3. CASE CodeCreated(b, c)
  BY <1>3 DEF CodeCreated, Mirrored, NewSecret, NewVerification
<1>4. CASE CodeIssued(b, c)
  BY <1>4 DEF CodeIssued, Mirrored
<1>5. CASE CodeVerified(b, c)
  BY <1>5 DEF CodeVerified, Mirrored
<1>6. CASE CodeMissed(b, c)
  BY <1>6 DEF CodeMissed, Mirrored
<1> QED
  BY <1>1, <1>2, <1>3, <1>4, <1>5, <1>6 DEF CodeMoved, CodeTried

\* A code stays verified, unless the acceptance creates it, and becomes
\* verified in the status that lets it be entered.
LEMMA CodeVerifiedStep ==
  ASSUME TypeOK, [Next]_vars, NEW b \in BookingId, NEW c \in CodeType,
         secrets'[b][c].verified # secrets[b][c].verified
  PROVE  \/ Accepted(b) /\ ~secrets'[b][c].verified
         \/ /\ booking'[b] = booking[b] /\ booking[b].status \in VerifiableIn(c)
            /\ secrets'[b][c].verified
<1>1. CodeMoved(b, c)
  BY CodeStep
<1>2. CASE CodeCreated(b, c)
  BY <1>2 DEF CodeCreated, NewSecret
<1>3. CASE CodeTried(b, c)
  BY <1>3 DEF CodeTried, CodeIssued, CodeVerified, CodeMissed, bookingVars
<1> QED
  BY <1>1, <1>2, <1>3 DEF CodeMoved, CodeKept

\* Every step leaves the codes as far as the custody.
LEMMA UnlockStep ==
  ASSUME TypeOK, [Next]_vars, NEW b \in BookingId, Unlocked(b),
         \A c \in CodeType : Mirrored(b, c)
  PROVE  Unlocked(b)'
<1> DEFINE Same(c) == secrets'[b][c].verified = secrets[b][c].verified
<1>1. Moved(b)
  BY StepOf
<1>2. "pickup" \in CodeType /\ "delivery" \in CodeType
  BY DEF CodeType
<1>3. CASE ~Same("pickup") \/ ~Same("delivery")
  <2>1. PICK c \in CodeType : ~Same(c)
    BY <1>2, <1>3
  <2>2. CASE Accepted(b)
    <3>1. ~secrets[b]["delivery"].verified
      BY <2>2 DEF Accepted, Unlocked, PickedUpStatus
    <3>2. ~secrets'[b]["delivery"].verified
      BY <1>2, <2>2, <3>1, CodeVerifiedStep DEF Accepted
    <3> QED
      BY <2>2, <3>2 DEF Accepted, Unlocked, PickedUpStatus, DeliveredStatus
  <2>3. CASE ~Accepted(b)
    <3>1. booking'[b] = booking[b]
      BY <2>1, <2>3, CodeVerifiedStep
    <3>2. ASSUME NEW d \in CodeType PROVE secrets[b][d].verified => secrets'[b][d].verified
      BY <2>3, CodeVerifiedStep
    <3>3. /\ secrets[b]["pickup"].verified => secrets'[b]["pickup"].verified
          /\ secrets[b]["delivery"].verified => secrets'[b]["delivery"].verified
      BY <1>2, <3>2
    <3>4. secrets'[b]["delivery"].verified => booking[b].status \in PickedUpStatus
      <4>1. CASE Same("delivery")
        BY <4>1 DEF Unlocked
      <4>2. CASE ~Same("delivery")
        <5>1. booking[b].status \in VerifiableIn("delivery")
          BY <1>2, <2>3, <4>2, CodeVerifiedStep
        <5> QED
          BY <5>1 DEF VerifiableIn, PickedUpStatus
      <4> QED
        BY <4>1, <4>2
    <3> QED
      BY <3>1, <3>3, <3>4 DEF Unlocked
  <2> QED
    BY <2>2, <2>3
<1>4. CASE Same("pickup") /\ Same("delivery")
  <2> USE DEF Unlocked, PickedUpStatus, DeliveredStatus
  <2>1. CASE PickedUp(b)
    BY <1>2, <1>4, <2>1 DEF PickedUp, Mirrored
  <2>2. CASE Delivered(b)
    BY <1>2, <1>4, <2>2 DEF Delivered, Mirrored
  <2>3. CASE Unmoved(b) \/ Travelled(b)
    BY <1>4, <2>3 DEF Unmoved, Travelled
  <2>4. CASE Created(b) \/ Accepted(b) \/ Withdrawn(b)
    BY <1>4, <2>4 DEF Created, Accepted, Withdrawn
  <2>5. CASE Completed(b)
    BY <1>4, <2>5 DEF Completed
  <2> QED
    BY <1>1, <2>1, <2>2, <2>3, <2>4, <2>5 DEF Moved
<1> QED
  BY <1>3, <1>4

\* Before the acceptance no code becomes verified.
LEMMA UnverifiedStep ==
  ASSUME TypeOK, [Next]_vars, UnverifiedBefore
  PROVE  UnverifiedBefore'
<1> SUFFICES ASSUME NEW b \in BookingId, booking'[b].status \in NotYetAccepted,
                    NEW c \in CodeType
             PROVE  ~secrets'[b][c].verified
  BY DEF UnverifiedBefore
<1>1. booking[b].status \in NotYetAccepted
  BY StepOf DEF Moved, Unmoved, Created, Accepted, Withdrawn, PickedUp, Delivered,
                Completed, Travelled, NotYetAccepted
<1>2. ~secrets[b][c].verified
  BY <1>1 DEF UnverifiedBefore
<1>3. booking[b].status \notin VerifiableIn(c)
  BY <1>1 DEF VerifiableIn, NotYetAccepted
<1> QED
  BY <1>2, <1>3, CodeVerifiedStep

HandoffInv == TypeOK /\ CustodyFollowsStatus /\ VerifiedHandoffs /\ UnverifiedBefore

\* At the start there are no codes.
LEMMA HandoffInit == Init => HandoffInv
<1> SUFFICES ASSUME Init PROVE HandoffInv
  OBVIOUS
<1>1. \A b \in BookingId, c \in CodeType :
        secrets[b][c] = NewSecret /\ agreement[b][c] = NewVerification
  BY DEF Init, InitHandoff
<1>2. \A b \in BookingId, e \in EventType :
        booking[b].status = "absent" /\ custody[b][e] = "absent"
  BY DEF Init, InitBookings
<1>3. VerifiedHandoffs
  <2>1. \A b \in BookingId, c \in CodeType :
          /\ ~secrets[b][c].verified /\ ~agreement[b][c].verified
          /\ secrets[b][c].attempts = 0 /\ agreement[b][c].failed = 0
    BY <1>1 DEF NewSecret, NewVerification
  <2>2. \A b \in BookingId, c \in CodeType : agreement[b][c].verified = secrets[b][c].verified
    <3>1. NewSecret.verified = FALSE /\ NewVerification.verified = FALSE
      BY DEF NewSecret, NewVerification
    <3> QED
      BY <1>1, <3>1, Zenon
  <2>3. \A b \in BookingId :
          /\ ~Recorded(b, "pickup_confirmed") /\ ~Recorded(b, "delivery_confirmed")
          /\ ~secrets[b]["delivery"].verified
    BY <1>2, <2>1 DEF Recorded, EventType, CodeType
  <2> QED
    BY <2>1, <2>2, <2>3 DEF VerifiedHandoffs
<1>4. UnverifiedBefore
  BY <1>1 DEF UnverifiedBefore, NewSecret
<1>5. CustodyFollowsStatus
  BY <1>2 DEF CustodyFollowsStatus, Recorded, EventType
<1> QED
  BY TypeInit, <1>3, <1>4, <1>5 DEF HandoffInv

\* The invariant of codes and custody holds in every reachable state.
LEMMA HandoffInvariant == Spec => []HandoffInv
<1>1. ASSUME HandoffInv, [Next]_vars
      PROVE  HandoffInv'
  <2>1. TypeOK' /\ CustodyFollowsStatus'
    BY <1>1, TypeStep, CustodyStepKept DEF HandoffInv
  <2>2. \A b \in BookingId : Unlocked(b) /\ \A c \in CodeType : Mirrored(b, c)
    BY <1>1, VerifiedHandoffsDef DEF HandoffInv
  <2>3. \A b \in BookingId : Unlocked(b)' /\ \A c \in CodeType : Mirrored(b, c)'
    BY <1>1, <2>2, UnlockStep, MirrorStep DEF HandoffInv
  <2>4. VerifiedHandoffs'
    BY <2>1, <2>3 DEF VerifiedHandoffs, CustodyFollowsStatus, Unlocked, Mirrored,
                      PickedUpStatus, DeliveredStatus
  <2> QED
    BY <1>1, <2>1, <2>4, UnverifiedStep DEF HandoffInv
<1> QED
  BY HandoffInit, <1>1, PTL DEF Spec

\* Custody moves only on a code the server verified, the delivery code only
\* after the pickup, and the participants' copies of the outcome and of the
\* count of failures are the server's, whatever the allowance of attempts.
THEOREM HandoffsVerified == Spec => []VerifiedHandoffs
<1>1. HandoffInv => VerifiedHandoffs
  BY DEF HandoffInv
<1> QED
  BY HandoffInvariant, <1>1, PTL

(***************************************************************************)
(* The refinement.                                                         *)
(***************************************************************************)
PromiseInv == CommitmentInv /\ HandoffInv

\* The step leaves what the sender of the parcel sees
Same(s) ==
  /\ Offered(s)' = Offered(s) /\ StageOf(s)' = StageOf(s)
  /\ shipment'[s].activeCarrier = shipment[s].activeCarrier
  /\ AgreedTerms(s)' = AgreedTerms(s) /\ Shown(s)' = Shown(s)

SameExcept(p) == \A s \in Shipment \ {p} : Same(s)

\* The booking that claims a shipment is committed to it, on what it offers.
LEMMA ClaimFacts ==
  ASSUME PromiseInv, NEW s \in Shipment, Claiming(s) # None
  PROVE  /\ Claiming(s) \in BookingId /\ Claiming(s)[1] = s
         /\ booking[Claiming(s)].status \in Committed
         /\ snapshot[Claiming(s)] = Offered(s)
<1>1. Claimed(s)
  BY ClaimedDef DEF PromiseInv, CommitmentInv
<1>2. Claiming(s) \in {b \in BookingsIn(Committed) : b[1] = s}
  BY <1>1 DEF Claimed, Claiming
<1>3. snapshot[Claiming(s)] = Offered(s)
  BY <1>2 DEF PromiseInv, CommitmentInv, AgreementLocked, Offered
<1> QED
  BY <1>2, <1>3 DEF BookingsIn

\* A committed booking is the claim of its shipment.
LEMMA ClaimOfCommitted ==
  ASSUME PromiseInv, NEW b \in BookingId, booking[b].status \in Committed
  PROVE  Claiming(b[1]) = b /\ b # None
BY CommittedIsClaim, BookingAssumption DEF PromiseInv, CommitmentInv, Claiming

\* What the mapping reads of a shipment and of its claim
LEMMA SameParcel ==
  ASSUME NEW s \in Shipment,
         shipment'[s].activeBooking = shipment[s].activeBooking,
         shipment'[s].activeCarrier = shipment[s].activeCarrier,
         Offered(s)' = Offered(s),
         Claiming(s) # None =>
           /\ booking'[Claiming(s)].status = booking[Claiming(s)].status
           /\ snapshot'[Claiming(s)] = snapshot[Claiming(s)]
           /\ \A c \in CodeType :
                secrets'[Claiming(s)][c].verified = secrets[Claiming(s)][c].verified
  PROVE  Same(s)
<1>1. Claiming(s)' = Claiming(s)
  BY DEF Claiming
<1>2. CASE Claiming(s) = None
  BY <1>1, <1>2 DEF Same, StageOf, AgreedTerms, Shown
<1>3. CASE Claiming(s) # None
  <2>1. StageOf(s)' = StageOf(s) /\ AgreedTerms(s)' = AgreedTerms(s)
    BY <1>1, <1>3 DEF StageOf, AgreedTerms
  <2>2. Shown(s)' = Shown(s)
    BY <1>1, <1>3 DEF Shown
  <2> QED
    BY <2>1, <2>2 DEF Same
<1> QED
  BY <1>2, <1>3

\* A step that keeps the shipments keeps what a sender sees, unless it touches
\* the claim.
LEMMA SameWhenKept ==
  ASSUME PromiseInv, NEW s \in Shipment, shipment'[s] = shipment[s],
         Claiming(s) # None =>
           /\ booking'[Claiming(s)].status = booking[Claiming(s)].status
           /\ snapshot'[Claiming(s)] = snapshot[Claiming(s)]
           /\ \A c \in CodeType :
                secrets'[Claiming(s)][c].verified = secrets[Claiming(s)][c].verified
  PROVE  Same(s)
<1>1. Offered(s)' = Offered(s)
  BY DEF Offered
<1> QED
  BY <1>1, SameParcel

\* Who is barred is a matter of holds and reviews.
LEMMA BarredKept ==
  ASSUME UNCHANGED safetyVars
  PROVE  Barred' = Barred
BY DEF safetyVars, Barred, HeldShipment, Reviewed

\* Where every sender sees what was seen before, the step is a stutter.
LEMMA Stutter ==
  ASSUME \A s \in Shipment : Same(s), Barred' = Barred
  PROVE  UNCHANGED Promise!vars
BY DEF Promise!vars, Same

-----------------------------------------------------------------------------
\* What concerns one booking concerns the sender of its shipment alone.
LEMMA OthersSame ==
  ASSUME PromiseInv, NEW b \in BookingId,
         \A x \in BookingId \ {b} :
           /\ booking'[x] = booking[x] /\ snapshot'[x] = snapshot[x]
           /\ \A c \in CodeType : secrets'[x][c].verified = secrets[x][c].verified,
         \A s \in Shipment \ {b[1]} : shipment'[s] = shipment[s]
  PROVE  SameExcept(b[1])
<1> SUFFICES ASSUME NEW s \in Shipment \ {b[1]} PROVE Same(s)
  BY DEF SameExcept
<1>1. Claiming(s) # None => Claiming(s) \in BookingId \ {b}
  BY ClaimFacts
<1> QED
  BY <1>1, SameWhenKept

\* And what concerns a booking that is not committed concerns no sender.
LEMMA UncommittedSame ==
  ASSUME PromiseInv, NEW b \in BookingId, booking[b].status \notin Committed,
         \A x \in BookingId \ {b} : booking'[x] = booking[x],
         UNCHANGED <<shipment, snapshot, handoffVars>>
  PROVE  \A s \in Shipment : Same(s)
<1> SUFFICES ASSUME NEW s \in Shipment PROVE Same(s)
  OBVIOUS
<1>1. Claiming(s) # None => Claiming(s) \in BookingId \ {b}
  BY ClaimFacts
<1> QED
  BY <1>1, SameWhenKept DEF handoffVars

\* The status of a committed booking is the stage of its parcel.
LEMMA StageMoved ==
  ASSUME PromiseInv, NEW b \in BookingId, booking[b].status \in Committed, NEW status,
         booking' = [booking EXCEPT ![b].status = status],
         UNCHANGED <<listingVars, snapshot, handoffVars>>
  PROVE  /\ b[1] \in Shipment /\ SameExcept(b[1])
         /\ StageOf(b[1]) = booking[b].status /\ StageOf(b[1])' = status
         /\ Offered(b[1])' = Offered(b[1])
         /\ shipment'[b[1]].activeCarrier = shipment[b[1]].activeCarrier
         /\ AgreedTerms(b[1])' = AgreedTerms(b[1])
         /\ Shown(b[1])' = Shown(b[1])
         /\ Shown(b[1]) = {c \in CodeType : secrets[b][c].verified}
<1>1. Claiming(b[1]) = b /\ b # None
  BY ClaimOfCommitted
<1>2. Claiming(b[1])' = b
  BY <1>1 DEF Claiming, listingVars
<1>3. /\ booking'[b].status = status
      /\ \A x \in BookingId \ {b} : booking'[x] = booking[x]
  BY StatusSeen DEF PromiseInv, CommitmentInv
<1>4. SameExcept(b[1])
  BY <1>3, OthersSame DEF listingVars, handoffVars
<1>5. StageOf(b[1]) = booking[b].status /\ StageOf(b[1])' = status
  BY <1>1, <1>2, <1>3 DEF StageOf
<1>6. /\ Offered(b[1])' = Offered(b[1])
      /\ shipment'[b[1]].activeCarrier = shipment[b[1]].activeCarrier
  BY DEF Offered, listingVars
<1>7. AgreedTerms(b[1])' = AgreedTerms(b[1])
  BY <1>1, <1>2 DEF AgreedTerms
<1>8. /\ Shown(b[1])' = Shown(b[1])
      /\ Shown(b[1]) = {c \in CodeType : secrets[b][c].verified}
  BY <1>1, <1>2 DEF Shown, handoffVars
<1> QED
  BY <1>4, <1>5, <1>6, <1>7, <1>8, BookingParts

\* The custody transitions collect, deliver and complete.
LEMMA CustodyKeepsPromise ==
  ASSUME PromiseInv, NEW b \in BookingId, CustodyStep(b)
  PROVE  Promise!Next \/ UNCHANGED Promise!vars
<1>1. CASE ConfirmPickupCustody(b)
  <2>1. /\ booking[b].status = "accepted"
        /\ booking' = [booking EXCEPT ![b].status = "in_transit"]
        /\ agreement[b]["pickup"].verified
        /\ AssertShipmentSafetyClear(b[1])
        /\ UNCHANGED <<listingVars, snapshot, handoffVars, safetyVars>>
    BY <1>1 DEF ConfirmPickupCustody, Advance
  <2>2. "pickup" \in {c \in CodeType : secrets[b][c].verified}
    BY <2>1 DEF PromiseInv, HandoffInv, VerifiedHandoffs, CodeType
  <2>3. b[1] \notin Barred
    BY <2>1 DEF Barred, AssertShipmentSafetyClear
  <2>4. Promise!Collect(b[1])
    BY <2>1, <2>2, <2>3, StageMoved, BarredKept
       DEF Promise!Collect, Committed, SameExcept, Same
  <2> QED
    BY <2>4, BookingParts DEF Promise!Next
<1>2. CASE ConfirmDeliveryCustody(b)
  <2>1. /\ booking[b].status = "in_transit"
        /\ booking' = [booking EXCEPT ![b].status = "delivered"]
        /\ agreement[b]["delivery"].verified
        /\ UNCHANGED <<listingVars, snapshot, handoffVars, safetyVars>>
    BY <1>2 DEF ConfirmDeliveryCustody, Advance
  <2>2. "delivery" \in {c \in CodeType : secrets[b][c].verified}
    BY <2>1 DEF PromiseInv, HandoffInv, VerifiedHandoffs, CodeType
  <2>3. Promise!Deliver(b[1])
    BY <2>1, <2>2, StageMoved, BarredKept
       DEF Promise!Deliver, Committed, SameExcept, Same
  <2> QED
    BY <2>3, BookingParts DEF Promise!Next
<1>3. CASE CompleteBookingCustody(b)
  <2>1. /\ booking[b].status = "delivered"
        /\ booking' = [booking EXCEPT ![b].status = "completed"]
        /\ UNCHANGED <<listingVars, snapshot, handoffVars, safetyVars>>
    BY <1>3 DEF CompleteBookingCustody, Advance
  <2>2. Promise!Complete(b[1])
    BY <2>1, StageMoved, BarredKept DEF Promise!Complete, Committed, SameExcept, Same
  <2> QED
    BY <2>2, BookingParts DEF Promise!Next
<1>4. ASSUME NEW e \in {"airport_departure", "airport_arrival"}, RecordTravelEvent(b, e)
      PROVE  UNCHANGED Promise!vars
  <2>1. UNCHANGED <<booking, snapshot, listingVars, safetyVars, handoffVars>>
    BY <1>4 DEF RecordTravelEvent
  <2>2. \A s \in Shipment : Same(s)
    BY <2>1, SameWhenKept DEF listingVars, handoffVars
  <2> QED
    BY <2>1, <2>2, BarredKept, Stutter
<1> QED
  BY <1>1, <1>2, <1>3, <1>4 DEF CustodyStep

\* The acceptance takes the parcel, on the terms offered.
LEMMA AcceptanceTakes ==
  ASSUME PromiseInv, [Next]_vars, NEW b \in BookingId, AcceptBooking(b)
  PROVE  Promise!Next
<1>1. b[1] \in Shipment /\ Traveler(b) \in User
  BY BookingParts, ListingAssumption DEF Traveler
<1>2. /\ booking[b].status = "pending" /\ b[1] \notin Barred
      /\ UNCHANGED safetyVars
  BY DEF AcceptBooking, Barred, AssertShipmentSafetyClear
<1>3. Claiming(b[1]) = None
  <2>1. Claiming(b[1]) \in {None, b}
    BY DEF AcceptBooking, ClaimFree, Claiming
  <2> QED
    BY <1>1, <1>2, <2>1, ClaimFacts DEF Committed
<1>4. Claiming(b[1])' = b /\ b # None
  BY AcceptEffect, BookingAssumption DEF PromiseInv, CommitmentInv, Claiming
<1>5. /\ StageOf(b[1]) = "open" /\ StageOf(b[1])' = "accepted"
  <2>1. booking'[b] = [status |-> "accepted", reserved |-> shipment[b[1]].weight]
    BY AcceptEffect DEF PromiseInv, CommitmentInv
  <2> QED
    BY <1>3, <1>4, <2>1 DEF StageOf
<1>6. Offered(b[1])' = Offered(b[1])
  BY AcceptEffect DEF PromiseInv, CommitmentInv, Offered
<1>7. shipment'[b[1]].activeCarrier = Traveler(b)
  BY AcceptEffect DEF PromiseInv, CommitmentInv
<1>8. AgreedTerms(b[1])' = Offered(b[1])
  <2>1. snapshot[b] = None
    BY <1>2 DEF PromiseInv, CommitmentInv, NotYetAgreed, NotYetAccepted
  <2>2. snapshot'[b] = Offered(b[1])
    BY <2>1, AcceptEffect DEF PromiseInv, CommitmentInv, Offered
  <2> QED
    BY <1>4, <2>2 DEF AgreedTerms
<1>9. Shown(b[1])' = Shown(b[1])
  <2>1. Shown(b[1]) = {}
    BY <1>3 DEF Shown
  <2>2. ASSUME NEW c \in CodeType PROVE ~secrets'[b][c].verified
    <3>1. ~secrets[b][c].verified
      BY <1>2 DEF PromiseInv, HandoffInv, UnverifiedBefore, NotYetAccepted
    <3>2. booking[b].status \notin VerifiableIn(c)
      BY <1>2 DEF VerifiableIn
    <3> QED
      BY <3>1, <3>2, CodeVerifiedStep DEF PromiseInv, HandoffInv
  <2>3. Shown(b[1])' = {}
    BY <1>4, <2>2 DEF Shown
  <2> QED
    BY <2>1, <2>3
<1>10. SameExcept(b[1])
  <2>1. \A x \in BookingId \ {b} : booking'[x] = booking[x] /\ snapshot'[x] = snapshot[x]
    BY AcceptEffect, ZenonT(30) DEF PromiseInv, CommitmentInv
  <2>2. \A s \in Shipment \ {b[1]} : shipment'[s] = shipment[s]
    BY AcceptEffect DEF PromiseInv, CommitmentInv
  <2>3. CreateInitialHandoffRecords(b)
    BY DEF AcceptBooking
  <2>4. \A x \in BookingId \ {b} : secrets'[x] = secrets[x]
    BY <2>3, HandoffShape
       DEF CreateInitialHandoffRecords, handoffVars, PromiseInv, CommitmentInv
  <2> QED
    BY <2>1, <2>2, <2>4, OthersSame
<1>11. Promise!Take(b[1], Traveler(b))
  BY <1>1, <1>2, <1>5, <1>6, <1>7, <1>8, <1>9, <1>10, BarredKept
     DEF Promise!Take, SameExcept, Same
<1> QED
  BY <1>1, <1>11 DEF Promise!Next

\* The cancellation of an accepted booking calls the carriage off.
LEMMA CancellationCallsOff ==
  ASSUME PromiseInv, NEW b \in BookingId, CancelAcceptedBooking(b)
  PROVE  Promise!Next
<1>1. b[1] \in Shipment
  BY BookingParts
<1>2. /\ booking[b].status = "accepted"
      /\ UNCHANGED <<snapshot, safetyVars, handoffVars>>
  BY DEF CancelAcceptedBooking, Withdraw
<1>3. Claiming(b[1]) = b /\ b # None
  BY <1>2, ClaimOfCommitted DEF Committed
<1>4. /\ shipment'[b[1]].activeBooking = None
      /\ shipment'[b[1]].activeCarrier = None
  BY <1>3, CancelEffect DEF PromiseInv, CommitmentInv, Claiming
<1>5. /\ StageOf(b[1]) = "accepted" /\ StageOf(b[1])' = "open"
      /\ AgreedTerms(b[1])' = None /\ Shown(b[1])' = {}
  BY <1>2, <1>3, <1>4 DEF StageOf, AgreedTerms, Shown, Claiming
<1>6. Offered(b[1])' = Offered(b[1])
  <2> DEFINE released == [shipment[b[1]] EXCEPT !.activeBooking = None,
                            !.activeCarrier = None, !.activeTrip = None]
  <2>1. /\ shipment[b[1]] \in ShipmentDoc(BookingId)
        /\ shipment \in [Shipment -> ShipmentDoc(BookingId)]
    BY <1>1 DEF PromiseInv, CommitmentInv, TypeOK, ListingTypeOK
  <2>2. shipment' = [shipment EXCEPT ![b[1]] = released]
    BY <1>3 DEF CancelAcceptedBooking, ReleaseClaim, Claim, Claiming
  <2>3. shipment'[b[1]] = released
    BY <1>1, <2>1, <2>2
  <2>4. /\ released.weight = shipment[b[1]].weight
        /\ released.content = shipment[b[1]].content
        /\ released.corridor = shipment[b[1]].corridor
    BY <2>1 DEF ShipmentDoc
  <2> QED
    BY <2>3, <2>4 DEF Offered
<1>7. SameExcept(b[1])
  <2>1. /\ \A x \in BookingId \ {b} : booking'[x] = booking[x]
        /\ \A s \in Shipment \ {b[1]} : shipment'[s] = shipment[s]
    BY CancelEffect DEF PromiseInv, CommitmentInv
  <2> QED
    BY <1>2, <2>1, OthersSame DEF handoffVars
<1>8. Promise!CallOff(b[1])
  BY <1>1, <1>2, <1>4, <1>5, <1>6, <1>7, BarredKept
     DEF Promise!CallOff, SameExcept, Same
<1> QED
  BY <1>1, <1>8 DEF Promise!Next

\* A withdrawal before the acceptance, and a request, are not seen.
LEMMA RequestsUnseen ==
  ASSUME PromiseInv, [Next]_vars, NEW b \in BookingId,
         \/ CancelPendingBooking(b) \/ DeclineBooking(b)
         \/ /\ booking[b].status = "absent" /\ CreatePending(b)
            /\ UNCHANGED <<snapshot, listingVars, safetyVars, handoffVars>>
  PROVE  UNCHANGED Promise!vars
<1>1. /\ booking[b].status \notin Committed
      /\ UNCHANGED <<shipment, snapshot, safetyVars, handoffVars>>
  BY DEF CancelPendingBooking, DeclineBooking, Withdraw, Committed, listingVars
<1>2. \A x \in BookingId \ {b} : booking'[x] = booking[x]
  BY BookingShape DEF CancelPendingBooking, DeclineBooking, Withdraw, CreatePending,
                      PromiseInv, CommitmentInv
<1>3. \A s \in Shipment : Same(s)
  BY <1>1, <1>2, UncommittedSame
<1> QED
  BY <1>1, <1>3, BarredKept, Stutter

\* A code entered right shows the proof of its handover; a code issued or
\* entered wrong is not seen.
LEMMA CodesShow ==
  ASSUME PromiseInv, NEW b \in BookingId, HandoffStep(b)
  PROVE  Promise!Next \/ UNCHANGED Promise!vars
<1>1. UNCHANGED <<bookingVars, listingVars, safetyVars>>
  BY DEF HandoffStep
<1>2. PICK c \in CodeType :
        /\ CodeIssued(b, c) \/ CodeVerified(b, c) \/ CodeMissed(b, c)
        /\ \A x \in BookingId, d \in CodeType : x # b \/ d # c => CodeKept(x, d)
  <2>1. PICK c \in CodeType :
           \/ IssueHandoffCode(b, c, booking[b].status)
           \/ \E match \in BOOLEAN : VerifyHandoff(b, c, booking[b].status, match)
    BY DEF HandoffStep
  <2>2. CASE IssueHandoffCode(b, c, booking[b].status)
    BY <2>2, IssuedSeen DEF PromiseInv, CommitmentInv
  <2>3. ASSUME NEW match \in BOOLEAN, VerifyHandoff(b, c, booking[b].status, match)
        PROVE  /\ CodeVerified(b, c) \/ CodeMissed(b, c)
               /\ \A x \in BookingId, d \in CodeType : x # b \/ d # c => CodeKept(x, d)
    BY <2>3, VerifiedSeen, Zenon DEF PromiseInv, CommitmentInv
  <2> QED
    BY <2>1, <2>2, <2>3, Zenon
<1>3. ASSUME NEW s \in Shipment,
             Claiming(s) = b => secrets'[b][c].verified = secrets[b][c].verified
      PROVE  Same(s)
  <2>1. ASSUME Claiming(s) # None, NEW d \in CodeType
        PROVE  secrets'[Claiming(s)][d].verified = secrets[Claiming(s)][d].verified
    BY <1>2, <1>3, <2>1, ClaimFacts DEF CodeKept
  <2> QED
    BY <1>1, <2>1, SameWhenKept DEF bookingVars, listingVars
<1>4. CASE secrets'[b][c].verified = secrets[b][c].verified
  BY <1>1, <1>3, <1>4, BarredKept, Stutter
<1>5. CASE secrets'[b][c].verified # secrets[b][c].verified
  <2>1. CodeVerified(b, c)
    BY <1>2, <1>5 DEF CodeIssued, CodeMissed
  <2>2. /\ booking[b].status = IF c = "pickup" THEN "accepted" ELSE "in_transit"
        /\ booking[b].status \in Committed
    BY <2>1 DEF CodeVerified, VerifiableIn, Committed
  <2>3. b[1] \in Shipment /\ Claiming(b[1]) = b /\ b # None
    BY <2>2, ClaimOfCommitted, BookingParts
  <2>4. StageOf(b[1]) = IF c = "pickup" THEN "accepted" ELSE "in_transit"
    BY <2>2, <2>3 DEF StageOf
  <2>5. Shown(b[1])' = Shown(b[1]) \cup {c}
    <3>1. Claiming(b[1])' = b
      BY <1>1, <2>3 DEF Claiming, listingVars
    <3>2. secrets'[b][c].verified
      BY <2>1 DEF CodeVerified
    <3>3. \A d \in CodeType \ {c} : secrets'[b][d].verified = secrets[b][d].verified
      BY <1>2 DEF CodeKept
    <3>4. Shown(b[1])' = {d \in CodeType : secrets'[b][d].verified}
      BY <2>3, <3>1 DEF Shown
    <3>5. Shown(b[1]) = {d \in CodeType : secrets[b][d].verified}
      BY <2>3 DEF Shown
    <3>6. ASSUME NEW d PROVE d \in Shown(b[1])' <=> d \in Shown(b[1]) \cup {c}
      BY <3>2, <3>3, <3>4, <3>5, Zenon
    <3> QED
      BY <3>4, <3>5, <3>6
  <2>6. SameExcept(b[1])
    BY <1>3, <2>3, ClaimFacts DEF SameExcept
  <2>7. /\ Offered(b[1])' = Offered(b[1]) /\ StageOf(b[1])' = StageOf(b[1])
        /\ shipment'[b[1]].activeCarrier = shipment[b[1]].activeCarrier
        /\ AgreedTerms(b[1])' = AgreedTerms(b[1])
    BY <1>1 DEF Offered, StageOf, AgreedTerms, Claiming, bookingVars, listingVars
  <2>8. Promise!Show(b[1], c)
    BY <1>1, <2>3, <2>4, <2>5, <2>6, <2>7, BarredKept DEF Promise!Show, SameExcept, Same
  <2> QED
    BY <2>3, <2>8 DEF Promise!Next, Promise!Handover, CodeType
<1> QED
  BY <1>4, <1>5

\* Only a shipment without a claim is offered on other terms.
LEMMA OwnersRevise ==
  ASSUME PromiseInv, PromiseInv', OwnerStep
  PROVE  Promise!Next \/ UNCHANGED Promise!vars
<1>1. UNCHANGED <<bookingVars, safetyVars, handoffVars>>
  BY DEF OwnerStep
<1>2. ASSUME NEW s \in Shipment, Offered(s)' = Offered(s)
      PROVE  Same(s)
  BY <1>1, <1>2, OwnerEffect, SameParcel
     DEF PromiseInv, CommitmentInv, bookingVars, handoffVars
<1>3. ASSUME NEW x \in Shipment, NEW w \in Weights, NEW c \in Corridor,
             NEW changed \in BOOLEAN, EditShipment(x, w, c, changed)
      PROVE  Promise!Next
  <2>1. shipment[x].activeBooking = None
    BY <1>3 DEF EditShipment, Frozen
  <2>2. /\ shipment'[x].activeBooking = None
        /\ shipment'[x].activeCarrier = shipment[x].activeCarrier
    BY <2>1, OwnerEffect DEF PromiseInv, CommitmentInv
  <2>3. /\ StageOf(x) = "open" /\ StageOf(x)' = StageOf(x)
        /\ AgreedTerms(x)' = AgreedTerms(x) /\ Shown(x)' = Shown(x)
    BY <2>1, <2>2 DEF StageOf, AgreedTerms, Shown, Claiming
  <2>4. Offered(x)' \in Snapshot
    <3>1. shipment'[x] \in ShipmentDoc(BookingId)
      BY DEF PromiseInv, CommitmentInv, TypeOK, ListingTypeOK
    <3> QED
      BY <3>1 DEF Offered, Snapshot, ShipmentDoc
  <2>5. \A s \in Shipment \ {x} : shipment'[s] = shipment[s]
    BY <1>3 DEF EditShipment, PromiseInv, CommitmentInv, TypeOK, ListingTypeOK
  <2>6. SameExcept(x)
    BY <1>2, <2>5 DEF SameExcept, Offered
  <2>7. Promise!Revise(x, Offered(x)')
    BY <1>1, <2>2, <2>3, <2>6, BarredKept DEF Promise!Revise, SameExcept, Same
  <2> QED
    BY <2>4, <2>7 DEF Promise!Next
<1>4. ASSUME NEW x \in Shipment, NEW status \in ListingStatus,
             SetShipmentStatus(x, status)
      PROVE  UNCHANGED Promise!vars
  <2>1. ASSUME NEW s \in Shipment PROVE Offered(s)' = Offered(s)
    <3>1. shipment'[s] = IF s = x THEN [shipment[x] EXCEPT !.status = status]
                                  ELSE shipment[s]
      BY <1>4 DEF SetShipmentStatus, PromiseInv, CommitmentInv, TypeOK, ListingTypeOK
    <3>2. shipment[s] \in ShipmentDoc(BookingId)
      BY DEF PromiseInv, CommitmentInv, TypeOK, ListingTypeOK
    <3> QED
      BY <3>1, <3>2 DEF ShipmentDoc, Offered
  <2> QED
    BY <1>1, <1>2, <2>1, BarredKept, Stutter
<1>5. ASSUME UNCHANGED shipment
      PROVE  UNCHANGED Promise!vars
  BY <1>1, <1>2, <1>5, BarredKept, Stutter DEF Offered
<1> QED
  BY <1>3, <1>4, <1>5 DEF OwnerStep, EditTrip

-----------------------------------------------------------------------------
\* At the start every parcel is open, on the terms of its shipment.
LEMMA PromiseInit == Init => Promise!Init
<1> SUFFICES ASSUME Init PROVE Promise!Init
  OBVIOUS
<1>1. \A s \in Shipment : Claiming(s) = None /\ shipment[s].activeCarrier = None
  BY DEF Init, InitListings, Claiming
<1>2. \A s \in Shipment : StageOf(s) = "open" /\ AgreedTerms(s) = None /\ Shown(s) = {}
  BY <1>1 DEF StageOf, AgreedTerms, Shown
<1>3. \A s \in Shipment : Offered(s) \in Snapshot
  <2>1. \A s \in Shipment : shipment[s] \in ShipmentDoc(BookingId)
    BY TypeInit DEF TypeOK, ListingTypeOK
  <2> QED
    BY <2>1 DEF Offered, Snapshot, ShipmentDoc
<1>4. Barred = {}
  BY DEF Init, InitSafety, Barred, HeldShipment, Reviewed, NoReview
<1> QED
  BY <1>1, <1>2, <1>3, <1>4 DEF Promise!Init

\* Every step of the system is a step of the promise, or is not seen by it.
LEMMA PromiseStep ==
  ASSUME PromiseInv, PromiseInv', [Next]_vars
  PROVE  [Promise!Next]_(Promise!vars)
<1>1. ASSUME NEW s \in Shipment, NEW t \in Trip, NEW op \in Operation \cup {None},
             RequestBooking(s, t, op)
      PROVE  UNCHANGED Promise!vars
  BY <1>1, RequestsUnseen DEF RequestBooking
<1>2. ASSUME NEW s \in Shipment, NEW t \in Trip, CreateRequestDirectly(s, t)
      PROVE  UNCHANGED Promise!vars
  <2>1. <<s, t, 1>> \in BookingId
    BY BookingAssumption
  <2> QED
    BY <1>2, <2>1, RequestsUnseen DEF CreateRequestDirectly
<1>3. ASSUME NEW b \in BookingId, BookingStep(b)
      PROVE  Promise!Next \/ UNCHANGED Promise!vars
  BY <1>3, AcceptanceTakes, CancellationCallsOff, RequestsUnseen DEF BookingStep
<1>4. ASSUME NEW b \in BookingId, CustodyStep(b)
      PROVE  Promise!Next \/ UNCHANGED Promise!vars
  BY <1>4, CustodyKeepsPromise
<1>5. ASSUME NEW b \in BookingId, HandoffStep(b)
      PROVE  Promise!Next \/ UNCHANGED Promise!vars
  BY <1>5, CodesShow
<1>6. ASSUME UNCHANGED <<bookingVars, listingVars, handoffVars>>
      PROVE  Promise!Next \/ UNCHANGED Promise!vars
  <2>1. \A s \in Shipment : Same(s)
    BY <1>6, SameWhenKept DEF bookingVars, listingVars, handoffVars
  <2>2. Barred' \in SUBSET Shipment
    BY DEF Barred
  <2>3. Promise!Bar
    BY <2>1, <2>2 DEF Promise!Bar, Same
  <2> QED
    BY <2>3 DEF Promise!Next
<1>7. CASE OwnerStep
  BY <1>7, OwnersRevise
<1> QED
  BY <1>1, <1>2, <1>3, <1>4, <1>5, <1>6, <1>7 DEF Next, OperatorStep, vars

\* The booking system keeps the promise of ParcelPromise: for any number of
\* shipments, trips and bookings, however their requests, acceptances, edits,
\* codes, transitions and operator decisions interleave, its every behaviour
\* is one the promise allows.
THEOREM PromiseKept == Spec => KeepsPromise
<1>1. PromiseInv /\ PromiseInv' /\ [Next]_vars => [Promise!Next]_(Promise!vars)
  BY PromiseStep
<1>2. CommitmentInv /\ HandoffInv <=> PromiseInv
  BY DEF PromiseInv
<1> QED
  BY PromiseInit, <1>1, <1>2, CommitmentInvariant, HandoffInvariant, PTL
     DEF Spec, KeepsPromise, Promise!Spec
=============================================================================
