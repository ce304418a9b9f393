------------------------ MODULE ListingSubmission ------------------------
(***************************************************************************)
(* One account posting shipments (send.tsx, ShipmentService) or trips      *)
(* (travel.tsx, TripService): the form, the operation id that makes a      *)
(* retry find the first attempt, the copy of it kept on the device, the    *)
(* lookups before and the write, and the check of an attempt whose outcome *)
(* is unknown.  The two screens differ in one thing: Send keeps the        *)
(* operation id itself and hands it to the service, Travel leaves it to    *)
(* the service.                                                            *)
(*                                                                         *)
(* What is entered in the form is one text, and whether it has spaces      *)
(* around it: the service stores it without and compares it with.          *)
(***************************************************************************)
EXTENDS Naturals, FiniteSets

CONSTANTS Texts,           \* what may be entered
          TooLong,         \* those of them the service refuses
          Blank,           \* an empty form, a missing listing
          MissingReadable, \* the owner may read a listing that is not there
          Persistent,      \* the write queue outlives the app: on the web
          StorageFails,    \* the device's storage may refuse a change
          SlowStorage,     \* a read of it may take longer than filling a form
          MaxOps,          \* bound on the operation ids generated
          MaxStarts,       \* bound on how often the owner starts afresh
          MaxRestarts      \* bound on the restarts of the app

Op == 1..MaxOps
NoOp == 0
Form == [text : Texts, padded : BOOLEAN]
Listing == [text : Texts, intent : Nat]
Write == [op : Op, text : Texts, intent : Nat]

SubmissionAssumption ==
    /\ TooLong \subseteq Texts /\ Blank \notin Texts \cup Form \cup Listing
    /\ {MissingReadable, Persistent, StorageFails, SlowStorage} \subseteq BOOLEAN
    /\ MaxOps \in Nat \ {0} /\ {MaxStarts, MaxRestarts} \subseteq Nat

Idle == [at |-> "idle", op |-> NoOp, form |-> Blank, intent |-> 0]

VARIABLES form,        \* what is entered
          op,          \* the operation id the screen keeps
          banner,      \* what the screen says
          errorType,   \* how it took the last error
          post,        \* the attempt under way
          check,       \* the operation a status check under way is about
          quiet,       \* no attempt was ever begun while a check ran
          stored,      \* the operation id kept on the device
          restoring,   \* the one read back when the screen was opened
          fresh,       \* operation ids generated so far
          queue,       \* the listing Firestore has yet to write
          listings,    \* the listings on the server
          restarts,
          intent,      \* how often the owner was told how an attempt ended
          last,        \* the operation whose outcome is unknown
          toldAbsent   \* operations the owner was told left no listing

vars == <<form, op, banner, errorType, post, check, quiet, stored, restoring,
          fresh, queue, listings, restarts, intent, last, toldAbsent>>
screenVars == <<form, op, banner, errorType, fresh, intent>>

TypeOK ==
    /\ form \in Form \cup {Blank}
    /\ op \in Op \cup {NoOp}
    /\ banner \in {"none", "error", "saved", "recovered", "absent"}
    /\ errorType \in {"none", "definitive", "ambiguous"}
    /\ post \in {Idle} \cup [at : {"saved", "looked", "sent", "acked"},
                            op : Op, form : Form, intent : Nat]
    /\ check \in Op \cup {NoOp} /\ quiet \in BOOLEAN
    /\ stored \in Op \cup {NoOp} /\ restoring \in Op \cup {NoOp}
    /\ fresh \in Op
    /\ queue \subseteq Write /\ Cardinality(queue) <= 1
    /\ listings \in [Op -> Listing \cup {Blank}]
    /\ restarts \in 0..MaxRestarts /\ intent \in Nat
    /\ last \in Op \cup {NoOp}
    /\ toldAbsent \subseteq [op : Op, quiet : BOOLEAN]

Init ==
    /\ form = Blank /\ banner = "none" /\ errorType = "none"
    /\ op \in {1, NoOp} /\ fresh = 1
    /\ post = Idle /\ check = NoOp /\ quiet = TRUE
    /\ stored = NoOp /\ restoring = NoOp
    /\ queue = {} /\ listings = [o \in Op |-> Blank]
    /\ restarts = 0 /\ intent = 0 /\ last = NoOp /\ toldAbsent = {}

Saving == post.at # "idle"
Checking == check # NoOp

\* A start takes no more operation ids than are left: an attempt and a check
\* that overlap use two.
Room == fresh + 2 <= MaxOps /\ intent < MaxStarts

\* Send has an operation id from the start; Travel never has one.
KeepsOperation == op # NoOp

\* The screen takes a new operation id, if it keeps one.
Generate ==
    IF KeepsOperation THEN op' = fresh + 1 /\ fresh' = fresh + 1
                      ELSE UNCHANGED <<op, fresh>>

\* The form is emptied and the owner starts afresh, told `b`.
StartAfresh(b) ==
    /\ form' = Blank /\ banner' = b /\ errorType' = "none"
    /\ intent' = intent + 1
    /\ Generate

\* PendingOperationStorage keeps `o`, or drops what it kept (`o` = NoOp): as
\* best it can, the caller does not hear of a failure.
Store(o) == stored' \in {o} \cup (IF StorageFails THEN {stored} ELSE {})

\* The owner changes a field; every message about the last attempt goes.
Type(f) ==
    /\ form # f
    /\ form' = f /\ banner' = "none"
    /\ UNCHANGED <<op, errorType, post, check, quiet, stored, restoring, fresh,
                   queue, listings, restarts, intent, last, toldAbsent>>

(***************************************************************************)
(* An attempt.                                                             *)
(***************************************************************************)
\* The operation id of an attempt: the screen's, else the one on the device,
\* else a new one.
Operations ==
    IF op # NoOp THEN {op} ELSE IF stored # NoOp THEN {stored} ELSE {fresh + 1}

FailForgettingMutant(kind) ==
    /\ post' = Idle /\ banner' = "error" /\ errorType' = kind
    /\ last' = IF kind = "ambiguous" THEN post.op ELSE last
    /\ Store(NoOp) /\ UNCHANGED <<form, op, fresh, intent>>

\* The attempt ends with error `kind`.
Fail(kind) ==
    /\ post' = Idle /\ banner' = "error" /\ errorType' = kind
    /\ last' = IF kind = "ambiguous" THEN post.op ELSE last
    /\ IF kind = "definitive" THEN Store(NoOp) /\ intent' = intent + 1
                              ELSE UNCHANGED <<stored, intent>>
    /\ UNCHANGED <<form, op, fresh>>

\* The attempt ends well: the device forgets the operation.
Succeed ==
    /\ post' = Idle /\ last' = NoOp
    /\ Store(NoOp)
    /\ StartAfresh("saved")

\* The form is filled in: the screen refuses to post one that is not.
Entered == form # Blank

\* The owner presses the button.  What the service refuses never leaves the
\* device; for the rest it keeps the operation id before anything is sent.
Post ==
    /\ Entered /\ ~Saving /\ Room
    /\ SlowStorage \/ restoring = NoOp
    /\ quiet' = (quiet /\ ~Checking)
    /\ \E o \in Operations :
          /\ fresh' = IF o > fresh THEN o ELSE fresh
          /\ IF form.text \in TooLong
             THEN /\ banner' = "error" /\ errorType' = "definitive"
                  /\ Store(NoOp) /\ intent' = intent + 1
                  /\ UNCHANGED post
             ELSE /\ post' = [at |-> "saved", op |-> o, form |-> form,
                              intent |-> intent]
                  /\ banner' = "none"
                  /\ Store(o)
                  /\ UNCHANGED <<errorType, intent>>
    /\ UNCHANGED <<form, op, check, restoring, queue, listings, restarts, last,
                   toldAbsent>>

\* A listing found under the operation: the service compares it with what was
\* entered, the repository with what it would store.
Matches(listing, exact) ==
    listing.text = post.form.text /\ (exact => ~post.form.padded)

TakeExisting(listing, exact) ==
    IF Matches(listing, exact) THEN Succeed ELSE Fail("definitive")

\* The service asks the server whether the operation left a listing.  An
\* owner without a role is refused a listing that is not there: the rule
\* looks into it.
LookUp ==
    /\ post.at = "saved"
    /\ CASE listings[post.op] # Blank -> TakeExisting(listings[post.op], TRUE)
         [] listings[post.op] = Blank /\ ~MissingReadable -> Fail("definitive")
         [] OTHER -> /\ post' = [post EXCEPT !.at = "looked"]
                     /\ UNCHANGED <<screenVars, stored, last>>
    /\ UNCHANGED <<check, quiet, restoring, queue, listings, restarts, toldAbsent>>

\* The repository looks again, where a queued write of its own counts too,
\* and hands the listing to Firestore.
HandOver ==
    /\ post.at = "looked"
    /\ LET local == {w \in queue : w.op = post.op}
           found == IF local # {} THEN CHOOSE w \in local : TRUE
                                  ELSE listings[post.op]
       IN IF found # Blank
          THEN TakeExisting(found, FALSE) /\ UNCHANGED queue
          ELSE /\ queue = {}
               /\ queue' = {[op |-> post.op, text |-> post.form.text,
                             intent |-> post.intent]}
               /\ post' = [post EXCEPT !.at = "sent"]
               /\ UNCHANGED <<screenVars, stored, last>>
    /\ UNCHANGED <<check, quiet, restoring, listings, restarts, toldAbsent>>

\* The server takes the write: a listing that is already there cannot be
\* created again.
Deliver ==
    \E w \in queue :
       /\ queue' = {}
       /\ IF listings[w.op] = Blank
          THEN /\ listings' = [listings EXCEPT ![w.op] = [text |-> w.text, intent |-> w.intent]]
               /\ IF post.at = "sent" /\ post.op = w.op
                  THEN post' = [post EXCEPT !.at = "acked"] ELSE UNCHANGED post
               /\ UNCHANGED <<screenVars, stored, last>>
          ELSE /\ UNCHANGED listings
               /\ IF post.at = "sent" /\ post.op = w.op
                  THEN Fail("definitive")
                  ELSE UNCHANGED <<post, screenVars, stored, last>>
       /\ UNCHANGED <<check, quiet, restoring, restarts, toldAbsent>>

\* The server refuses the write: the account may not post.
Refuse ==
    /\ post.at = "sent" /\ queue # {} /\ listings[post.op] = Blank
    /\ queue' = {}
    /\ Fail("definitive")
    /\ UNCHANGED <<check, quiet, restoring, listings, restarts, toldAbsent>>

\* The repository reads back what was written.
ReadBack ==
    /\ post.at = "acked"
    /\ Succeed
    /\ UNCHANGED <<check, quiet, restoring, queue, listings, restarts, toldAbsent>>

\* A lookup or the reading back does not get through.
Unreachable ==
    /\ post.at \in {"saved", "looked", "acked"}
    /\ Fail("ambiguous")
    /\ UNCHANGED <<check, quiet, restoring, queue, listings, restarts, toldAbsent>>

(***************************************************************************)
(* The status check, and a fresh start.                                    *)
(***************************************************************************)
Told(o) ==
    toldAbsent' = toldAbsent \cup
        (IF o = NoOp THEN {} ELSE {[op |-> o, quiet |-> quiet]})

\* The owner asks what became of the attempt: no other may be under way.
CheckStatus ==
    /\ banner = "error" /\ errorType # "definitive" /\ ~Saving /\ ~Checking
    /\ Room
    /\ IF stored = NoOp
       THEN /\ StartAfresh("absent")
            /\ Told(last) /\ last' = NoOp
            /\ UNCHANGED check
       ELSE /\ check' = stored
            /\ UNCHANGED <<screenVars, toldAbsent, last>>
    /\ UNCHANGED <<post, quiet, stored, restoring, queue, listings, restarts>>

\* The server answers the check; the device forgets the operation either way.
Answer ==
    /\ Checking
    /\ MissingReadable \/ listings[check] # Blank
    /\ check' = NoOp
    /\ Store(NoOp)
    /\ IF listings[check] # Blank
       THEN /\ StartAfresh("recovered")
            /\ UNCHANGED toldAbsent
       ELSE /\ StartAfresh("absent")
            /\ Told(check)
    /\ last' = NoOp
    /\ UNCHANGED <<post, quiet, restoring, queue, listings, restarts>>

\* The check gets no answer, or is refused: nothing is settled.
NoAnswer ==
    /\ Checking
    /\ check' = NoOp
    /\ banner' = "error"
    /\ UNCHANGED <<form, op, errorType, post, quiet, stored, restoring, fresh,
                   queue, listings, restarts, intent, last, toldAbsent>>

\* The owner discards an attempt the screen calls invalid.
Discard ==
    /\ banner = "error" /\ errorType = "definitive" /\ ~Saving /\ Room
    /\ StartAfresh("none")
    /\ UNCHANGED <<post, check, quiet, stored, restoring, queue, listings,
                   restarts, last, toldAbsent>>

(***************************************************************************)
(* The app is closed and opened again.  A write the server has received    *)
(* counts; one it has not is lost with the app unless the queue persists.  *)
(* Send starts with a new operation id and reads the kept one meanwhile.   *)
(***************************************************************************)
Restart ==
    /\ restarts < MaxRestarts /\ Room
    /\ restarts' = restarts + 1
    /\ post' = Idle /\ check' = NoOp
    /\ form' = Blank /\ banner' = "none" /\ errorType' = "none"
    /\ Generate
    /\ restoring' = IF KeepsOperation THEN stored ELSE NoOp
    /\ queue' = IF Persistent THEN queue ELSE {}
    /\ last' = IF Saving THEN post.op ELSE last
    /\ UNCHANGED <<quiet, stored, listings, intent, toldAbsent>>

Restore ==
    /\ restoring # NoOp
    /\ op' = restoring /\ restoring' = NoOp
    /\ UNCHANGED <<form, banner, errorType, post, check, quiet, stored, fresh,
                   queue, listings, restarts, intent, last, toldAbsent>>

Next ==
    \/ \E f \in Form : Type(f)
    \/ Post \/ LookUp \/ HandOver \/ Deliver \/ Refuse \/ ReadBack \/ Unreachable
    \/ CheckStatus \/ Answer \/ NoAnswer \/ Discard
    \/ Restart \/ Restore

Spec == Init /\ [][Next]_vars

(***************************************************************************)
(* Properties.                                                             *)
(***************************************************************************)
\* Until the owner is told how an attempt ended (saved, recovered, nothing
\* recorded, or invalid), however often it is retried, through lost answers,
\* edits and restarts, at most one listing comes of it.
OneListingPerStart ==
    \A a, b \in Op :
        listings[a] # Blank /\ listings[b] # Blank /\ listings[a].intent = listings[b].intent
            => a = b

\* As long as no attempt is ever begun while a check runs, an operation the
\* owner is told left no listing never gets one.
QuietCheckIsRight ==
    \A t \in toldAbsent : t.quiet => listings[t.op] = Blank

\* A check never ends in a report that nothing was recorded for an operation
\* that has, or will get, a listing ("Checks if shipment was committed before
\* allowing a new shipment").
AbsentMeansAbsent == \A t \in toldAbsent : listings[t.op] = Blank

\* What the screen reports as saved is on the server as it was entered when
\* the button was pressed.
AsEntered ==
    post.at # "idle" /\ banner' = "saved" /\ post' = Idle
        => listings[post.op] # Blank /\ listings[post.op].text = post.form.text

\* ShipmentService.create and TripService.create: one listing of a start, told
\* apart from none, and what is reported as saved is there as entered.
ListedOnce == [](OneListingPerStart /\ QuietCheckIsRight) /\ [][AsEntered]_vars

\* An attempt the screen calls invalid, and offers to discard, has left no
\* listing ("Discards the invalid shipment attempt and starts a fresh form").
InvalidMeansUnlisted ==
    [][Saving /\ post' = Idle /\ errorType' = "definitive" /\ banner' = "error"
         => listings[post.op] = Blank]_vars

\* A first attempt is only called invalid when the server refuses the listing
\* itself: with a form the service accepts, a lookup that finds nothing goes
\* on to the write.
NothingFoundGoesOn ==
    [][post.at = "saved" /\ listings[post.op] = Blank /\ post' = Idle
         => errorType' # "definitive"]_vars
=============================================================================
