---------------------------- MODULE Reputation ----------------------------
(***************************************************************************)
(* Reviews of completed bookings and the reputation record that the server *)
(* recalculates from them.  A recalculation makes three queries and then   *)
(* overwrites the record, outside any transaction; it is started by the    *)
(* triggers on reviews and bookings, which Firestore delivers at least     *)
(* once, and by a reader who finds no record.                              *)
(*                                                                         *)
(* A record is kept as what it counted: the reviews, and the completed and *)
(* the cancelled bookings.  The counts, the stars and the averages that    *)
(* the code stores are functions of these sets.                            *)
(***************************************************************************)
EXTENDS Naturals, FiniteSets

CONSTANTS Users,        \* people
          Devices,      \* their telephones
          Owner,        \* the user signed in on a device
          Bookings,     \* bookings under way
          SenderOf,     \* the sender of a booking
          TravelerOf,   \* the traveler of a booking
          Ratings,      \* the stars a reviewer may give
          Sought,       \* users whose record a reader may ask for
          MaxCrashes    \* bound on the runs of the server that die

ReputationAssumption ==
    /\ Owner \in [Devices -> Users]
    /\ SenderOf \in [Bookings -> Users]
    /\ TravelerOf \in [Bookings -> Users]
    /\ \A b \in Bookings : SenderOf[b] # TravelerOf[b]
    /\ Sought \subseteq Users
    /\ MaxCrashes \in Nat

VARIABLES status,       \* of each booking: under way, completed or cancelled
          reviews,      \* the review documents
          forms,        \* what a device is doing about a booking
          announced,    \* how often a device published the review of a booking
          reputations,  \* the record of each user, or NoRecord
          owed,         \* events whose handler has not succeeded yet
          tasks,        \* recalculations being made
          crashes

vars == <<status, reviews, forms, announced, reputations, owed, tasks, crashes>>

Participants(b) == {SenderOf[b], TravelerOf[b]}

Other(u, b) == IF u = SenderOf[b] THEN TravelerOf[b] ELSE SenderOf[b]

Review == [booking : Bookings, reviewer : Users, subject : Users, rating : Ratings]

Idle == [step |-> "idle"]

Form == {Idle} \cup [step : {"booking", "list", "write"}, rating : Ratings]

Counted == [reviews : SUBSET Review, completed : SUBSET Bookings,
            cancelled : SUBSET Bookings]

NoRecord == [none |-> TRUE]

\* The events that start a recalculation.
ReviewEvent(r) == [kind |-> "review", of |-> r.booking, by |-> r.reviewer]
BookingEvent(b) == [kind |-> "booking", of |-> b, by |-> SenderOf[b]]

Events == [kind : {"review", "booking"}, of : Bookings, by : Users]

\* A reader's request is not an event: nobody repeats it.
Call == [kind |-> "call"]

Task == [for : Events \cup {Call}, user : Users,
         step : {"reviews", "carried", "sent", "write"}, seen : Counted]

Nothing == [reviews |-> {}, completed |-> {}, cancelled |-> {}]

\* The state is of the expected shape: in particular a recalculation is made
\* for an event still owed or for a reader, so that none goes on for a trigger
\* that was reported handled.
TypeOK ==
    /\ status \in [Bookings -> {"open", "completed", "cancelled"}]
    /\ reviews \subseteq Review
    /\ forms \in [Devices -> [Bookings -> Form]]
    /\ announced \in [Bookings -> [Users -> Nat]]
    /\ reputations \in [Users -> Counted \cup {NoRecord}]
    /\ owed \subseteq Events
    /\ tasks \subseteq Task
    /\ \A t \in tasks : t.for \in owed \cup {Call}
    /\ crashes \in 0..MaxCrashes

Init ==
    /\ status = [b \in Bookings |-> "open"]
    /\ reviews = {}
    /\ forms = [d \in Devices |-> [b \in Bookings |-> Idle]]
    /\ announced = [b \in Bookings |-> [u \in Users |-> 0]]
    /\ reputations = [u \in Users |-> NoRecord]
    /\ owed = {}
    /\ tasks = {}
    /\ crashes = 0

-----------------------------------------------------------------------------
(* The end of a booking, which the server's operations bring about.         *)

FinishBooking(b) ==
    /\ status[b] = "open"
    /\ \E s \in {"completed", "cancelled"} : status' = [status EXCEPT ![b] = s]
    /\ owed' = owed \cup {BookingEvent(b)}
    /\ UNCHANGED <<reviews, forms, announced, reputations, tasks, crashes>>

-----------------------------------------------------------------------------
(* Submitting a review from a device.  A second request of the same device  *)
(* for the same booking joins the one in flight.                            *)

SetForm(d, b, f) == forms' = [forms EXCEPT ![d][b] = f]

Submit(d, b) ==
    /\ forms[d][b] = Idle
    /\ \E rating \in Ratings :
           SetForm(d, b, [step |-> "booking", rating |-> rating])
    /\ UNCHANGED <<status, reviews, announced, reputations, owed, tasks, crashes>>

\* Only a completed booking can be reviewed, by one participant of the other.
CheckBooking(d, b) ==
    /\ forms[d][b].step = "booking"
    /\ IF status[b] = "completed" /\ Owner[d] \in Participants(b)
         THEN SetForm(d, b, [forms[d][b] EXCEPT !.step = "list"])
         ELSE SetForm(d, b, Idle)
    /\ UNCHANGED <<status, reviews, announced, reputations, owed, tasks, crashes>>

\* A review that exists already is returned, and published no more.
CheckExisting(d, b) ==
    /\ forms[d][b].step = "list"
    /\ IF \E r \in reviews : r.booking = b /\ r.reviewer = Owner[d]
         THEN SetForm(d, b, Idle)
         ELSE SetForm(d, b, [forms[d][b] EXCEPT !.step = "write"])
    /\ UNCHANGED <<status, reviews, announced, reputations, owed, tasks, crashes>>

\* firestore.rules: the id of a review is made of the booking and the two
\* participants, and a document that exists cannot be written again.
CreateAllowedMutant(r) == status[r.booking] = "completed"
CreateAllowed(r) ==
    /\ status[r.booking] = "completed"
    /\ ~ \E s \in reviews : /\ s.booking = r.booking
                            /\ s.reviewer = r.reviewer
                            /\ s.subject = r.subject

WriteReview(d, b) ==
    LET r == [booking |-> b, reviewer |-> Owner[d], subject |-> Other(Owner[d], b),
              rating |-> forms[d][b].rating]
    IN  /\ forms[d][b].step = "write"
        /\ IF CreateAllowed(r)
             THEN /\ reviews' = reviews \cup {r}
                  /\ owed' = owed \cup {ReviewEvent(r)}
                  /\ \E told \in {0, 1} :   \* the application may die before it publishes
                         announced' = [announced EXCEPT ![b][Owner[d]] = @ + told]
             ELSE UNCHANGED <<reviews, owed, announced>>
        /\ SetForm(d, b, Idle)
        /\ UNCHANGED <<status, reputations, tasks, crashes>>

-----------------------------------------------------------------------------
(* Recalculations.                                                          *)

UsersOf(e) ==
    IF e.kind = "review" THEN {Other(e.by, e.of)} ELSE Participants(e.of)

\* A trigger recalculates everybody concerned at once.
HandleEvent(e) ==
    /\ e \in owed
    /\ \A t \in tasks : t.for # e
    /\ tasks' = tasks \cup
           {[for |-> e, user |-> u, step |-> "reviews", seen |-> Nothing] : u \in UsersOf(e)}
    /\ UNCHANGED <<status, reviews, forms, announced, reputations, owed, crashes>>

GetUserReputation(u) ==
    /\ reputations[u] = NoRecord
    /\ \A t \in tasks : t.for # Call
    /\ tasks' = tasks \cup
           {[for |-> Call, user |-> u, step |-> "reviews", seen |-> Nothing]}
    /\ UNCHANGED <<status, reviews, forms, announced, reputations, owed, crashes>>

Advance(t, step, seen) ==
    /\ tasks' = (tasks \ {t}) \cup {[t EXCEPT !.step = step, !.seen = seen]}
    /\ UNCHANGED <<status, reviews, forms, announced, reputations, owed, crashes>>

\* The three queries, in the order the code makes them.
ReadReviews(t) ==
    /\ t.step = "reviews"
    /\ Advance(t, "carried",
               [t.seen EXCEPT !.reviews = {r \in reviews : r.subject = t.user}])

Ended(u, who, s) == {b \in Bookings : who[b] = u /\ status[b] = s}

ReadCarried(t) ==
    /\ t.step = "carried"
    /\ Advance(t, "sent",
               [t.seen EXCEPT !.completed = @ \cup Ended(t.user, TravelerOf, "completed"),
                              !.cancelled = @ \cup Ended(t.user, TravelerOf, "cancelled")])

ReadSent(t) ==
    /\ t.step = "sent"
    /\ Advance(t, "write",
               [t.seen EXCEPT !.completed = @ \cup Ended(t.user, SenderOf, "completed"),
                              !.cancelled = @ \cup Ended(t.user, SenderOf, "cancelled")])

\* The handler succeeds when the last of its recalculations has written.
WriteReputation(t) ==
    /\ t.step = "write"
    /\ reputations' = [reputations EXCEPT ![t.user] = t.seen]
    /\ tasks' = tasks \ {t}
    /\ owed' = IF \E s \in tasks \ {t} : s.for = t.for THEN owed ELSE owed \ {t.for}
    /\ UNCHANGED <<status, reviews, forms, announced, crashes>>

\* A run that dies takes its recalculations with it; a trigger is delivered
\* again, a reader's request is not.
CrashMutant(t) ==
    /\ crashes < MaxCrashes
    /\ tasks' = {s \in tasks : s.for # t.for}
    /\ owed' = owed \ {t.for}
    /\ crashes' = crashes + 1
    /\ UNCHANGED <<status, reviews, forms, announced, reputations>>
Crash(t) ==
    /\ crashes < MaxCrashes
    /\ tasks' = {s \in tasks : s.for # t.for}
    /\ crashes' = crashes + 1
    /\ UNCHANGED <<status, reviews, forms, announced, reputations, owed>>

Recalculate(t) ==
    ReadReviews(t) \/ ReadCarried(t) \/ ReadSent(t) \/ WriteReputation(t)

Next ==
    \/ \E b \in Bookings : FinishBooking(b)
    \/ \E d \in Devices, b \in Bookings :
           \/ Submit(d, b)
           \/ CheckBooking(d, b)
           \/ CheckExisting(d, b)
           \/ WriteReview(d, b)
    \/ \E e \in owed : HandleEvent(e)
    \/ \E u \in Sought : GetUserReputation(u)
    \/ \E t \in tasks : Recalculate(t) \/ Crash(t)

Spec == Init /\ [][Next]_vars

-----------------------------------------------------------------------------

\* A participant has one review of a booking, whatever number of devices
\* submitted one at the same time.
OneReviewPerSide ==
    \A r, s \in reviews : r.booking = s.booking /\ r.reviewer = s.reviewer => r = s

\* The other side is told at most once of a review, by the device that wrote
\* it: the retries that find it and the writes that lost say nothing.
ToldOnce ==
    \A b \in Bookings, u \in Users :
        announced[b][u] <= Cardinality({r \in reviews : r.booking = b /\ r.reviewer = u})

\* A stored reputation never counts a review without the completed booking it
\* is about: the reviews are read before the bookings, and only a completed
\* booking, which stays completed, is reviewed.
ReviewsHaveCompletions ==
    \A u \in Users :
        reputations[u] # NoRecord =>
            {r.booking : r \in reputations[u].reviews} \subseteq reputations[u].completed

\* ReviewService.submitReview from any number of devices at once, and the
\* recalculations: one review of each side, announced once, and counted only
\* with the completed booking.
ReviewedOnce == OneReviewPerSide /\ ToldOnce /\ ReviewsHaveCompletions

\* A review whose trigger is still owed will be counted in the record of its
\* subject, also when runs of the server die.  (It may be lost again: see
\* ReputationAccurate.)
ReviewsGetCounted ==
    \A b \in Bookings, u \in Users :
        (\E r \in reviews : r.booking = b /\ r.reviewer = u /\ ReviewEvent(r) \in owed)
            ~> (\E r \in reviews : /\ r.booking = b /\ r.reviewer = u
                                   /\ reputations[r.subject] # NoRecord
                                   /\ r \in reputations[r.subject].reviews)

\* What the record of a user should be.
Actual(u) ==
    [reviews   |-> {r \in reviews : r.subject = u},
     completed |-> {b \in Bookings : u \in Participants(b) /\ status[b] = "completed"},
     cancelled |-> {b \in Bookings : u \in Participants(b) /\ status[b] = "cancelled"}]

\* Once every trigger has been handled, the record of a user is what the
\* reviews and bookings say (reputation.test.ts: "calculates accurate rating
\* average and star distribution across multiple reviews").
ReputationAccurate ==
    owed = {} /\ tasks = {} =>
        \A u \in Users : reputations[u] \in {NoRecord, Actual(u)}
=============================================================================
