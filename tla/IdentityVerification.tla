------------------------ MODULE IdentityVerification ------------------------
(***************************************************************************)
(* One user's identity verification: IdentityVerificationService on the    *)
(* user's devices, the writes their Firestore clients keep until they      *)
(* reach the server, the rules that admit or refuse them there, and the    *)
(* transitions the service leaves to a trusted server.                     *)
(***************************************************************************)
EXTENDS Naturals, Sequences, FiniteSets

CONSTANTS Device, DocumentId,
          MaxDocuments,   \* maximumDocuments
          MaxEvents,      \* maximumEvents
          MaxQueue        \* bound on the writes a device keeps

IdentityVerificationAssumption ==
    /\ {MaxDocuments, MaxEvents, MaxQueue} \subseteq Nat
    /\ MaxEvents > 0 /\ IsFiniteSet(DocumentId)

VARIABLES record,   \* identityVerifications/{userId}
          queue,    \* the writes each device has not had acknowledged
          ahead     \* the devices whose clock is ahead of the server's

vars == <<record, queue, ahead>>

Status == {"unverified", "draft", "submitted", "under_review", "verified",
           "rejected", "expired", "revoked"}

allowedTransitions ==
    [s \in Status |->
        CASE s = "unverified"   -> {"draft"}
          [] s = "draft"        -> {"submitted"}
          [] s = "submitted"    -> {"under_review"}
          [] s = "under_review" -> {"verified", "rejected"}
          [] s = "verified"     -> {"expired", "revoked"}
          [] s = "revoked"      -> {}
          [] OTHER              -> {"draft"}]

getVerificationLevel(s) ==
    CASE s = "verified" -> "identity_verified"
      [] s \in {"draft", "submitted", "under_review"} -> "basic"
      [] OTHER -> "none"

Event == [from : Status, to : Status, by : {"user", "reviewer", "system"}]
Verification ==
    [status : Status, level : {"none", "basic", "identity_verified"},
     documents : SUBSET DocumentId, events : Seq(Event),
     submitted : BOOLEAN, reviewed : BOOLEAN,
     reason : {"none", "rejected", "revoked"}]
NoRecord == [status |-> "unverified", level |-> "none", documents |-> {},
             events |-> <<>>, submitted |-> FALSE, reviewed |-> FALSE, reason |-> "none"]

\* A queued write and whether it carries the creation time of the record.
Write == [data : Verification, kept : BOOLEAN]

TypeOK ==
    /\ record \in Verification /\ Len(record.events) <= MaxEvents
    /\ Cardinality(record.documents) <= MaxDocuments
    /\ queue \in [Device -> Seq(Write)]
    /\ \A d \in Device : Len(queue[d]) <= MaxQueue
    /\ ahead \in SUBSET Device

Init ==
    /\ record = NoRecord
    /\ queue = [d \in Device |-> <<>>]
    /\ ahead \in SUBSET Device

(***************************************************************************)
(* The service.                                                            *)
(***************************************************************************)
\* What a device reads: its own waiting writes lie over the stored record.
View(d) == IF queue[d] = <<>> THEN record ELSE queue[d][Len(queue[d])].data

MayTransition(current, next) ==
    /\ next \in allowedTransitions[current.status]
    /\ Len(current.events) < MaxEvents

Transition(current, next, by) ==
    [current EXCEPT !.status = next, !.level = getVerificationLevel(next),
        !.events = Append(@, [from |-> current.status, to |-> next, by |-> by])]

FirstDraft == Transition(NoRecord, "draft", "user")
Redraft(current) ==
    [Transition(current, "draft", "user")
        EXCEPT !.submitted = FALSE, !.reviewed = FALSE, !.reason = "none"]

Save(d, data, kept) ==
    /\ Len(queue[d]) < MaxQueue
    /\ queue' = [queue EXCEPT ![d] = Append(@, [data |-> data, kept |-> kept])]
    /\ UNCHANGED <<record, ahead>>

\* A draft that exists is returned as it is.
StartDraft(d) ==
    \/ View(d) = NoRecord /\ Save(d, FirstDraft, FALSE)
    \/ /\ View(d) # NoRecord /\ MayTransition(View(d), "draft")
       /\ Save(d, Redraft(View(d)), TRUE)

UpdateDocumentMetadata(d, x) ==
    LET current == View(d) IN
    /\ current.status = "draft"
    /\ Cardinality(current.documents \cup {x}) <= MaxDocuments
    /\ Save(d, [current EXCEPT !.documents = @ \cup {x}], TRUE)

SubmitVerification(d) ==
    LET current == View(d) IN
    /\ current.documents # {}
    /\ MayTransition(current, "submitted")
    /\ Save(d, [Transition(current, "submitted", "user") EXCEPT !.submitted = TRUE], TRUE)

(***************************************************************************)
(* The rules.  A time that a device stamped is to lie in the past.         *)
(***************************************************************************)
MayCreate(data) ==
    /\ data.status = "draft" /\ data.level = "basic" /\ data.documents = {}
    /\ data.events = <<[from |-> "unverified", to |-> "draft", by |-> "user"]>>
    /\ ~data.submitted /\ ~data.reviewed /\ data.reason = "none"

ReviewUnchanged(data) ==
    data.reviewed = record.reviewed /\ data.reason = record.reason

MayEdit(data) ==
    /\ record.status = "draft" /\ data.status = "draft" /\ data.level = "basic"
    /\ data.events = record.events /\ ~data.submitted
    /\ Cardinality(data.documents) <= MaxDocuments

MaySubmitMutant(data) ==
    /\ record.status = "draft" /\ data.status = "submitted" /\ data.level = "basic"
    /\ data.submitted
    /\ data.events = Append(record.events,
                         [from |-> "draft", to |-> "submitted", by |-> "user"])

MaySubmit(data) ==
    /\ record.status = "draft" /\ data.status = "submitted" /\ data.level = "basic"
    /\ data.documents = record.documents /\ data.submitted
    /\ data.events = Append(record.events,
                         [from |-> "draft", to |-> "submitted", by |-> "user"])

Permitted(w, future) ==
    \/ record = NoRecord /\ ~w.kept /\ MayCreate(w.data) /\ ~future
    \/ /\ record # NoRecord /\ w.kept /\ ReviewUnchanged(w.data)
       /\ \/ MayEdit(w.data)
          \/ MaySubmit(w.data) /\ ~future

\* The oldest write of a device reaches the server.
Serve(d) ==
    /\ queue[d] # <<>>
    /\ \E future \in {(d \in ahead), FALSE} :
          record' = IF Permitted(Head(queue[d]), future)
                    THEN Head(queue[d]).data ELSE record
    /\ queue' = [queue EXCEPT ![d] = Tail(@)]
    /\ UNCHANGED ahead

\* A native cache is in memory: what waits there is lost with the process.
Close(d) ==
    /\ queue[d] # <<>>
    /\ queue' = [queue EXCEPT ![d] = <<>>]
    /\ UNCHANGED <<record, ahead>>

(***************************************************************************)
(* The use cases of a trusted server, which the rules do not bind.  The    *)
(* service reads the record, awaits, and saves what it made of it, with no *)
(* transaction.  Here that is one step: nothing in the repository calls    *)
(* these use cases, so it is open which store they will have and what may  *)
(* come between.  What is checked of them assumes that nothing does.       *)
(***************************************************************************)
Trusted(data) ==
    /\ record' = data
    /\ UNCHANGED <<queue, ahead>>

ReviewTransition(next, by, reviewed, reason) ==
    /\ record # NoRecord /\ MayTransition(record, next)
    /\ Trusted([Transition(record, next, by) EXCEPT !.reviewed = reviewed, !.reason = reason])

MoveToUnderReview == ReviewTransition("under_review", "reviewer", TRUE, record.reason)

Verify ==
    ReviewTransition("verified", "reviewer", TRUE,
                     IF record.reason = "rejected" THEN "none" ELSE record.reason)
Reject == ReviewTransition("rejected", "reviewer", TRUE, "rejected")
Expire == ReviewTransition("expired", "system", record.reviewed, record.reason)
Revoke == ReviewTransition("revoked", "reviewer", TRUE, "revoked")

\* The user's own use case, for a record the rules no longer let a device draft.
RedraftByServer ==
    /\ record # NoRecord /\ MayTransition(record, "draft")
    /\ Trusted(Redraft(record))

Next ==
    \/ \E d \in Device :
          \/ StartDraft(d) \/ SubmitVerification(d) \/ Serve(d) \/ Close(d)
          \/ \E x \in DocumentId : UpdateDocumentMetadata(d, x)
    \/ MoveToUnderReview \/ Verify \/ Reject \/ Expire \/ Revoke \/ RedraftByServer

Spec == Init /\ [][Next]_vars

(***************************************************************************)
(* Properties.                                                             *)
(***************************************************************************)
\* The history accounts for the status: it starts from nothing, every entry
\* continues the one before along a transition of the state machine, and the
\* last one is where the record is, whichever device wrote it.
HistoryTellsStatus ==
    LET e == record.events IN
    /\ record.level = getVerificationLevel(record.status)
    /\ record # NoRecord => e # <<>> /\ e[1].from = "unverified" /\ e[Len(e)].to = record.status
    /\ \A i \in DOMAIN e : /\ e[i].to \in allowedTransitions[e[i].from]
                           /\ i > 1 => e[i].from = e[i - 1].to

\* A write that waited on a device never takes back what has happened since.
Extended ==
    /\ Len(record'.events) >= Len(record.events)
    /\ SubSeq(record'.events, 1, Len(record.events)) = record.events

\* What goes to review is what was stored when it was submitted, it is not
\* empty, and it stays so while it is reviewed.
AsSubmitted ==
    record'.status \notin {"unverified", "draft"}
        => record'.documents = record.documents /\ record'.documents # {}
ReviewedAsSubmitted == [][AsSubmitted]_vars

\* A verified identity can be revoked or expire (the state machine of
\* identity-verification.md).
VerifiedCanEnd ==
    record.status = "verified" =>
        \E next \in {"expired", "revoked"} : MayTransition(record, next)
=============================================================================
