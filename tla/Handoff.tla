------------------------------- MODULE Handoff ------------------------------
(***************************************************************************)
(* The handoff codes of a booking.  Each booking has two codes, one shown  *)
(* by the sender at pickup and one given by the receiver at delivery.  The *)
(* server keeps the hash of a code, the attempts made and the outcome in   *)
(* `bookingHandoffSecrets`, and mirrors the outcome in the participants'   *)
(* `bookingHandoffAgreements`.  The actions take the booking's status,     *)
(* which the handlers read in the same transaction.                        *)
(***************************************************************************)
EXTENDS Integers

CONSTANTS
  BookingId,
  MaxAttempts        \* MAX_VERIFICATION_ATTEMPTS

ASSUME HandoffAssumption == MaxAttempts \in Nat \ {0}

VARIABLES
  handoffs,          \* bookings whose two handoff documents exist
  secrets,           \* [BookingId -> [CodeType -> Secret]]
  agreement          \* [BookingId -> [CodeType -> Verification]]

handoffVars == <<handoffs, secrets, agreement>>

-----------------------------------------------------------------------------
CodeType == {"pickup", "delivery"}

\* `usable`: the hash and the salt are present
Secret == [issued: BOOLEAN, usable: BOOLEAN, verified: BOOLEAN,
           attempts: 0..MaxAttempts]
Verification == [verified: BOOLEAN, failed: 0..MaxAttempts]

NewSecret == [issued |-> FALSE, usable |-> FALSE, verified |-> FALSE,
              attempts |-> 0]
NewVerification == [verified |-> FALSE, failed |-> 0]

HandoffTypeOK ==
  /\ handoffs \subseteq BookingId
  /\ secrets \in [BookingId -> [CodeType -> Secret]]
  /\ agreement \in [BookingId -> [CodeType -> Verification]]

InitHandoff ==
  /\ handoffs = {}
  /\ secrets = [b \in BookingId |-> [c \in CodeType |-> NewSecret]]
  /\ agreement = [b \in BookingId |-> [c \in CodeType |-> NewVerification]]

-----------------------------------------------------------------------------
\* Acceptance creates both documents unless the secrets already exist
CreateInitialHandoffRecords(b) ==
  IF b \in handoffs THEN UNCHANGED handoffVars ELSE
  /\ handoffs' = handoffs \cup {b}
  /\ secrets' = [secrets EXCEPT ![b] = [c \in CodeType |-> NewSecret]]
  /\ agreement' = [agreement EXCEPT ![b] = [c \in CodeType |-> NewVerification]]

IssuableIn(c) == IF c = "pickup" THEN {"accepted"} ELSE {"accepted", "in_transit"}
VerifiableInMutant(c) == IssuableIn(c)
VerifiableIn(c) == IF c = "pickup" THEN {"accepted"} ELSE {"in_transit"}

\* The sender issues a code, or issues it again: the attempts start over
IssueHandoffCode(b, c, status) ==
  /\ status \in IssuableIn(c)
  /\ b \in handoffs
  /\ ~secrets[b][c].verified
  /\ secrets' = [secrets EXCEPT ![b][c].issued = TRUE, ![b][c].usable = TRUE,
                                ![b][c].attempts = 0]
  /\ agreement' = [agreement EXCEPT ![b][c].failed = 0]
  /\ UNCHANGED handoffs

AttemptsLeftMutant(b, c) == secrets[b][c].attempts <= MaxAttempts
AttemptsLeft(b, c) == secrets[b][c].attempts < MaxAttempts

\* The traveler enters a code; a wrong one is counted, and the count is
\* committed before the call fails
VerifyHandoff(b, c, status, match) ==
  LET attempts == secrets[b][c].attempts + 1 IN
  /\ status \in VerifiableIn(c)
  /\ b \in handoffs
  /\ ~secrets[b][c].verified
  /\ secrets[b][c].issued /\ secrets[b][c].usable
  /\ AttemptsLeft(b, c)
  /\ IF match
       THEN /\ secrets' = [secrets EXCEPT ![b][c].verified = TRUE,
                                          ![b][c].usable = FALSE]
            /\ agreement' = [agreement EXCEPT ![b][c] =
                               [verified |-> TRUE, failed |-> 0]]
       ELSE /\ secrets' = [secrets EXCEPT ![b][c].attempts = attempts]
            /\ agreement' = [agreement EXCEPT ![b][c] =
                               [verified |-> FALSE, failed |-> attempts]]
  /\ UNCHANGED handoffs
=============================================================================
