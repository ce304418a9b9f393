------------------------- MODULE HandoffAgreement -------------------------
(***************************************************************************)
(* The handoff agreement of one booking as its two participants edit it.   *)
(* A client reads the whole document, changes its part and writes the      *)
(* whole document back; firestore.rules compares what it wrote with what   *)
(* is stored.  The server issues and verifies the codes meanwhile (module  *)
(* Handoff) and keeps the outcome in the same document.                    *)
(*                                                                         *)
(* What a participant enters is one value for each part of the document.   *)
(***************************************************************************)
EXTENDS Handoff, Sequences

CONSTANTS Booking,     \* the booking
          Entries,     \* what may be entered for a contact or the receiver
          Meetings,    \* what may be agreed for the two appointments
          Blank,       \* nothing entered yet
          MaxSaves     \* bound on the saves a participant starts

AgreementAssumption ==
  /\ Booking \in BookingId /\ MaxSaves \in Nat
  /\ MaxAttempts \in Nat \ {0}

VARIABLES status,      \* of the booking
          doc,         \* the part of the document the clients write
          screen,      \* what each participant's card shows
          save,        \* the form a participant is saving
          saves,       \* how many saves each participant has started
          confirm      \* the confirmation a participant is making

vars == <<status, doc, screen, save, saves, confirm, handoffVars>>
clientVars == <<screen, save, saves, confirm>>

Participant == {"sender", "traveler"}

\* The parts of the document that belong to one participant.
Part == {"sender", "traveler", "receiver"}
PartsOf(p) == IF p = "sender" THEN {"sender", "receiver"} ELSE {"traveler"}

Confirmation == [status : {"needs_confirmation", "proposed", "confirmed"},
                 proposedBy : Participant \cup {Blank},
                 confirmedBy : Participant \cup {Blank}]

Document == [own : [Part -> Entries \cup {Blank}], meeting : Meetings \cup {Blank},
             confirmation : Confirmation]

View == [doc : Document, codes : [CodeType -> Verification]]

\* A proposal of the other participant awaits an answer.
ConfirmOffered(p) ==
    /\ doc.confirmation.status = "proposed"
    /\ doc.confirmation.proposedBy # p

Current == [doc |-> doc, codes |-> agreement[Booking]]

\* What a card shows: the appointments, whether it asks participant `p` to
\* confirm them, which codes are verified, and the status of the booking.
Shown(p) ==
    [meeting   |-> doc.meeting,
     offered   |-> ConfirmOffered(p),
     verified  |-> {c \in CodeType : agreement[Booking][c].verified},
     status    |-> status]

Idle == [step |-> "idle"]

Saving == [step : {"read"}, left : Seq({"contact", "receiver", "meeting"}),
           own : Entries, meeting : Meetings]

\* The state is of the expected shape; in particular the wrong codes that the
\* participants see never exceed the attempts a code allows.
TypeOK ==
    /\ HandoffTypeOK
    /\ status \in {"accepted", "in_transit", "delivered", "completed", "cancelled"}
    /\ doc \in Document
    /\ saves \in [Participant -> 0..MaxSaves]
    /\ \A p \in Participant :
           /\ screen[p].meeting \in Meetings \cup {Blank}
           /\ screen[p].verified \subseteq CodeType
           /\ \/ save[p] \in {Idle} \cup Saving
              \/ save[p].step = "write" /\ save[p].view \in View
           /\ \/ confirm[p] = Idle
              \/ confirm[p].step = "read" /\ confirm[p].seen \in Meetings \cup {Blank}
              \/ confirm[p].step = "write" /\ confirm[p].view \in View

Init ==
    /\ handoffs = {Booking}
    /\ secrets = [b \in BookingId |-> [c \in CodeType |-> NewSecret]]
    /\ agreement = [b \in BookingId |-> [c \in CodeType |-> NewVerification]]
    /\ status = "accepted"
    /\ doc = [own |-> [part \in Part |-> Blank], meeting |-> Blank,
              confirmation |-> [status |-> "needs_confirmation",
                                proposedBy |-> Blank, confirmedBy |-> Blank]]
    /\ screen = [p \in Participant |-> Shown(p)]
    /\ save = [p \in Participant |-> Idle]
    /\ saves = [p \in Participant |-> 0]
    /\ confirm = [p \in Participant |-> Idle]

-----------------------------------------------------------------------------
(* The server.                                                              *)

\* The status follows the custody of the parcel (module Custody).
MoveOn ==
    /\ \/ status = "accepted" /\ status' = "cancelled"
       \/ /\ status = "accepted" /\ secrets[Booking]["pickup"].verified
          /\ status' = "in_transit"
       \/ /\ status = "in_transit" /\ secrets[Booking]["delivery"].verified
          /\ status' = "delivered"
       \/ status = "delivered" /\ status' = "completed"
    /\ UNCHANGED <<doc, clientVars, handoffVars>>

\* The card offers the sender a code, and the traveler a field to enter one,
\* as long as the screen shows that the code is not verified.
Issue(c) ==
    /\ c \notin screen["sender"].verified
    /\ IssueHandoffCode(Booking, c, status)
    /\ UNCHANGED <<status, doc, clientVars>>

Enter(c) ==
    /\ c \notin screen["traveler"].verified
    /\ screen["traveler"].status = IF c = "pickup" THEN "accepted" ELSE "in_transit"
    /\ \E match \in BOOLEAN : VerifyHandoff(Booking, c, status, match)
    /\ UNCHANGED <<status, doc, clientVars>>

-----------------------------------------------------------------------------
(* Reading and writing the whole document.                                  *)

\* A listener delivers what is stored, whatever the participant is doing.
Watch(p) ==
    /\ screen' = [screen EXCEPT ![p] = Shown(p)]
    /\ screen' # screen
    /\ UNCHANGED <<status, doc, save, saves, confirm, handoffVars>>

VisibleStatus == {"accepted", "in_transit", "delivered", "completed"}

\* validHandoffAgreementOnUpdate: what the server verified, and the parts of
\* the other participant, must be what is stored.
WriteAllowedForeign(p, view) ==
    /\ status \in VisibleStatus
    /\ view.codes = agreement[Booking]
WriteAllowed(p, view) ==
    /\ status \in VisibleStatus
    /\ view.codes = agreement[Booking]
    /\ \A part \in Part \ PartsOf(p) : view.doc.own[part] = doc.own[part]

SaveAgreement(p, view) ==
    IF WriteAllowed(p, view)
      THEN /\ doc' = view.doc
           /\ agreement' = [agreement EXCEPT ![Booking] = view.codes]
      ELSE UNCHANGED <<doc, agreement>>

-----------------------------------------------------------------------------
(* Saving the form: the contact, then the receiver when the sender saves,   *)
(* then the appointments, each in a reading and a writing of its own.       *)

SavedParts(p) ==
    IF p = "sender" THEN <<"contact", "receiver", "meeting">>
                    ELSE <<"contact", "meeting">>

StartSave(p) ==
    /\ save[p] = Idle
    /\ saves[p] < MaxSaves
    /\ screen[p].status \in VisibleStatus
    /\ saves' = [saves EXCEPT ![p] = @ + 1]
    /\ \E own \in Entries, meeting \in Meetings :
           save' = [save EXCEPT ![p] = [step |-> "read", left |-> SavedParts(p),
                                        own |-> own, meeting |-> meeting]]
    /\ UNCHANGED <<status, doc, screen, confirm, handoffVars>>

ReadForSave(p) ==
    /\ save[p].step = "read"
    /\ save' = [save EXCEPT ![p] = [step |-> "write", left |-> save[p].left,
                                    own |-> save[p].own, meeting |-> save[p].meeting,
                                    view |-> Current]]
    /\ UNCHANGED <<status, doc, screen, saves, confirm, handoffVars>>

\* updateSenderContact or updateTravelerContact, updateReceiver,
\* proposeAppointments
Updated(p, s) ==
    CASE Head(s.left) = "contact"  -> [s.view EXCEPT !.doc.own[p] = s.own]
      [] Head(s.left) = "receiver" -> [s.view EXCEPT !.doc.own["receiver"] = s.own]
      [] Head(s.left) = "meeting"  ->
             [s.view EXCEPT !.doc.meeting = s.meeting,
                            !.doc.confirmation = [status |-> "proposed", proposedBy |-> p,
                                                  confirmedBy |-> Blank]]

\* A writing that is refused ends the save with what was already written.
WriteSave(p) ==
    LET view == Updated(p, save[p])
        left == Tail(save[p].left)
    IN  /\ save[p].step = "write"
        /\ SaveAgreement(p, view)
        /\ save' = [save EXCEPT ![p] =
                       IF WriteAllowed(p, view) /\ left # <<>>
                         THEN [step |-> "read", left |-> left,
                               own |-> save[p].own, meeting |-> save[p].meeting]
                         ELSE Idle]
        /\ UNCHANGED <<status, screen, saves, confirm, handoffs, secrets>>

-----------------------------------------------------------------------------
(* Confirming what the other participant proposed.                          *)

\* `seen` is what the participant has before the eyes when confirming.
StartConfirm(p) ==
    /\ confirm[p] = Idle
    /\ screen[p].offered
    /\ confirm' = [confirm EXCEPT ![p] =
                      [step |-> "read", seen |-> screen[p].meeting]]
    /\ UNCHANGED <<status, doc, screen, save, saves, handoffVars>>

ReadForConfirm(p) ==
    /\ confirm[p].step = "read"
    /\ confirm' = [confirm EXCEPT ![p] =
                      IF doc.confirmation.status = "confirmed" THEN Idle
                        ELSE [step |-> "write", seen |-> confirm[p].seen, view |-> Current]]
    /\ UNCHANGED <<status, doc, screen, save, saves, handoffVars>>

WriteConfirm(p) ==
    /\ confirm[p].step = "write"
    /\ SaveAgreement(p, [confirm[p].view EXCEPT !.doc.confirmation.status = "confirmed",
                                                !.doc.confirmation.confirmedBy = p])
    /\ confirm' = [confirm EXCEPT ![p] = Idle]
    /\ UNCHANGED <<status, screen, save, saves, handoffs, secrets>>

-----------------------------------------------------------------------------

Edit(p) ==
    \/ StartSave(p)
    \/ ReadForSave(p)
    \/ WriteSave(p)
    \/ StartConfirm(p)
    \/ ReadForConfirm(p)
    \/ WriteConfirm(p)

Next ==
    \/ MoveOn
    \/ \E c \in CodeType : Issue(c) \/ Enter(c)
    \/ \E p \in Participant : Watch(p) \/ Edit(p)

Spec == Init /\ [][Next]_vars

-----------------------------------------------------------------------------

\* The outcome the participants see is the one the server keeps, although
\* every save writes the whole document back from an earlier reading.
OutcomeMirrored ==
    \A c \in CodeType :
        LET secret == secrets[Booking][c]
            shown  == agreement[Booking][c]
        IN  /\ shown.verified = secret.verified
            /\ ~ secret.verified => shown.failed = secret.attempts

\* What a participant does never changes the contact of the other, nor the
\* receiver the sender named, however old its reading of the document is.
OtherPartsStay ==
    \A p \in Participant, part \in Part :
        doc'.own[part] # doc.own[part] /\ part \notin PartsOf(p)
            => UNCHANGED <<save[p], confirm[p]>>

\* HandoffService, whose saves write the whole document back: what it
\* shows of the codes is the server's, and no participant takes back a part of
\* the other.
AgreementKept == []OutcomeMirrored /\ [][OtherPartsStay]_vars

\* An agreement is confirmed by the participant who did not propose it
\* (HandoffCoordinationCard: "The other participant proposed handoff details.
\* Please review and confirm.").
ConfirmedByOther ==
    doc.confirmation.status = "confirmed" =>
        doc.confirmation.confirmedBy # doc.confirmation.proposedBy

\* The appointments a participant confirms are those on the screen when the
\* participant confirmed them (the same text: "Please review and confirm.").
ConfirmedWasSeen ==
    [][\A p \in Participant :
           doc'.confirmation # doc.confirmation /\ confirm[p].step = "write"
               /\ confirm'[p] = Idle => doc'.meeting = confirm[p].seen]_vars
=============================================================================
