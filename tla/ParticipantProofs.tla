-------------------------- MODULE ParticipantProofs --------------------------
(***************************************************************************)
(* What senders and travelers do with their devices, for any number of     *)
(* users, devices, bookings and listings and any bounds.                   *)
(*                                                                         *)
(* Each component is an instance in Participants, under its names there,   *)
(* and is reasoned about by itself.  The last section concludes for        *)
(* Participants: a behaviour of it is one of each of its components.       *)
(***************************************************************************)
EXTENDS Participants, TLAPS, FiniteSetTheorems, WellFoundedInduction

(***************************************************************************)
(* Reviews and the records that are calculated from them.                  *)
(***************************************************************************)
\* A device tells of a review when it writes it, and only then.
Announcements ==
  \A b \in Bookings, u \in Users :
    \/ announced[b][u] = 0
    \/ announced[b][u] = 1 /\ \E r \in reviews : r.booking = b /\ r.reviewer = u

\* What is reviewed is completed, and the review is of the other side.
ReviewsOfCompleted ==
  \A r \in reviews :
    outcome[r.booking] = "completed" /\ r.subject = Reviews!Other(r.reviewer, r.booking)

\* What a recalculation has read: reviews of its user; the completed bookings
\* that they are about when the user traveled; then all of them.
Reads(t) ==
  /\ t.step # "reviews" =>
       \A r \in t.seen.reviews : r \in reviews /\ r.subject = t.user
  /\ t.step = "sent" =>
       \A r \in t.seen.reviews :
         TravelerOf[r.booking] = t.user => r.booking \in t.seen.completed
  /\ t.step = "write" =>
       \A r \in t.seen.reviews : r.booking \in t.seen.completed

ReviewInv ==
  /\ Reviews!TypeOK /\ Reviews!OneReviewPerSide /\ Reviews!ReviewsHaveCompletions
  /\ Announcements /\ ReviewsOfCompleted
  /\ \A t \in tasks : Reads(t)

LEMMA ReviewInit == Reviews!ReputationAssumption /\ Reviews!Init => ReviewInv
<1> SUFFICES ASSUME Reviews!ReputationAssumption, Reviews!Init PROVE ReviewInv
  OBVIOUS
<1>1. Reviews!Idle \in Reviews!Form /\ 0 \in 0..MaxCrashes
  BY DEF Reviews!Form, Reviews!ReputationAssumption
<1>2. Reviews!TypeOK
  BY <1>1 DEF Reviews!Init, Reviews!TypeOK
<1> QED
  BY <1>2 DEF Reviews!Init, ReviewInv, Reviews!OneReviewPerSide,
              Reviews!ReviewsHaveCompletions, Announcements, ReviewsOfCompleted

\* What ends stays ended.
LEMMA ReviewFinish ==
  ASSUME Reviews!ReputationAssumption, ReviewInv, NEW b \in Bookings, Reviews!FinishBooking(b)
  PROVE  ReviewInv'
<1>1. /\ outcome' \in [Bookings -> {"open", "completed", "cancelled"}]
      /\ \A c \in Bookings : outcome[c] = "completed" => outcome'[c] = "completed"
  BY DEF ReviewInv, Reviews!TypeOK, Reviews!FinishBooking
<1>2. /\ owed' = owed \cup {Reviews!BookingEvent(b)}
      /\ UNCHANGED <<reviews, forms, announced, reputations, tasks, crashes>>
  BY DEF Reviews!FinishBooking
<1>3. Reviews!BookingEvent(b) \in Reviews!Events
  BY DEF Reviews!BookingEvent, Reviews!Events, Reviews!ReputationAssumption
<1>4. Reviews!TypeOK'
  BY <1>1, <1>2, <1>3 DEF ReviewInv, Reviews!TypeOK
<1>5. Reviews!OneReviewPerSide' /\ Reviews!ReviewsHaveCompletions' /\ Announcements'
  BY <1>2 DEF ReviewInv, Reviews!OneReviewPerSide, Reviews!ReviewsHaveCompletions, Announcements
<1>6. ReviewsOfCompleted'
  BY <1>1, <1>2 DEF ReviewInv, Reviews!TypeOK, ReviewsOfCompleted, Reviews!Review, Reviews!Other
<1>7. \A t \in tasks' : Reads(t)'
  BY <1>2 DEF ReviewInv, Reads
<1> QED
  BY <1>4, <1>5, <1>6, <1>7 DEF ReviewInv

\* A form that changes changes nothing else.
LEMMA ReviewForms ==
  ASSUME ReviewInv, NEW d \in Devices, NEW b \in Bookings,
         Reviews!Submit(d, b) \/ Reviews!CheckBooking(d, b) \/ Reviews!CheckExisting(d, b)
  PROVE  ReviewInv'
<1>1. UNCHANGED <<outcome, reviews, announced, reputations, owed, tasks, crashes>>
  BY DEF Reviews!Submit, Reviews!CheckBooking, Reviews!CheckExisting
<1>2. PICK f \in Reviews!Form : Reviews!SetForm(d, b, f)
  <2>1. forms[d][b] \in Reviews!Form /\ Reviews!Idle \in Reviews!Form
    BY DEF ReviewInv, Reviews!TypeOK, Reviews!Form
  <2>2. CASE Reviews!Submit(d, b)
    <3>1. \A g \in Ratings : [step |-> "booking", rating |-> g] \in Reviews!Form
      BY DEF Reviews!Form
    <3> QED
      BY <2>2, <3>1 DEF Reviews!Submit
  <2>3. CASE Reviews!CheckBooking(d, b) \/ Reviews!CheckExisting(d, b)
    <3>1. forms[d][b].step \in {"booking", "list"}
      BY <2>3 DEF Reviews!CheckBooking, Reviews!CheckExisting
    <3>2. [forms[d][b] EXCEPT !.step = "list"] \in Reviews!Form
          /\ [forms[d][b] EXCEPT !.step = "write"] \in Reviews!Form
      BY <2>1, <3>1 DEF Reviews!Form, Reviews!Idle
    <3> QED
      BY <2>1, <2>3, <3>2 DEF Reviews!CheckBooking, Reviews!CheckExisting
  <2> QED
    BY <2>2, <2>3
<1>3. forms' \in [Devices -> [Bookings -> Reviews!Form]]
  BY <1>2 DEF Reviews!SetForm, ReviewInv, Reviews!TypeOK
<1>4. Reviews!TypeOK'
  BY <1>1, <1>3 DEF ReviewInv, Reviews!TypeOK
<1> QED
  BY <1>1, <1>4 DEF ReviewInv, Reviews!OneReviewPerSide, Reviews!ReviewsHaveCompletions,
                    Announcements, ReviewsOfCompleted, Reads

\* The review of a side is written when there is none, and announced then.
LEMMA ReviewWrite ==
  ASSUME Reviews!ReputationAssumption, ReviewInv, NEW d \in Devices, NEW b \in Bookings,
         Reviews!WriteReview(d, b)
  PROVE  ReviewInv'
<1> DEFINE u == Owner[d]
           r == [booking |-> b, reviewer |-> u, subject |-> Reviews!Other(u, b),
                 rating |-> forms[d][b].rating]
<1>1. /\ Reviews!SetForm(d, b, Reviews!Idle)
      /\ UNCHANGED <<outcome, reputations, tasks, crashes>>
  BY DEF Reviews!WriteReview
<1>2. forms' \in [Devices -> [Bookings -> Reviews!Form]]
  BY <1>1 DEF Reviews!SetForm, ReviewInv, Reviews!TypeOK, Reviews!Form
<1>3. CASE ~Reviews!CreateAllowed(r)
  <2>1. UNCHANGED <<reviews, owed, announced>>
    BY <1>3 DEF Reviews!WriteReview
  <2>2. Reviews!TypeOK'
    BY <1>1, <1>2, <2>1 DEF ReviewInv, Reviews!TypeOK
  <2> QED
    BY <1>1, <2>1, <2>2 DEF ReviewInv, Reviews!OneReviewPerSide, Reviews!ReviewsHaveCompletions,
                            Announcements, ReviewsOfCompleted, Reads
<1>4. CASE Reviews!CreateAllowed(r)
  <2>1. PICK told \in {0, 1} : /\ reviews' = reviews \cup {r}
                               /\ owed' = owed \cup {Reviews!ReviewEvent(r)}
                               /\ announced' = [announced EXCEPT ![b][u] = @ + told]
    BY <1>4 DEF Reviews!WriteReview
  <2>2. u \in Users /\ Reviews!Other(u, b) \in Users
    BY DEF Reviews!ReputationAssumption, Reviews!Other
  <2>3. r \in Reviews!Review
    <3>1. forms[d][b] \in Reviews!Form /\ forms[d][b].step = "write"
      BY DEF ReviewInv, Reviews!TypeOK, Reviews!WriteReview
    <3>2. forms[d][b].rating \in Ratings
      BY <3>1 DEF Reviews!Form, Reviews!Idle
    <3> QED
      BY <2>2, <3>2 DEF Reviews!Review
  <2>4. Reviews!ReviewEvent(r) \in Reviews!Events
    BY <2>2 DEF Reviews!ReviewEvent, Reviews!Events
  <2>5. outcome[b] = "completed" /\ \A s \in reviews : ~(s.booking = b /\ s.reviewer = u)
    BY <1>4 DEF Reviews!CreateAllowed, ReviewInv, ReviewsOfCompleted
  <2>6. announced[b][u] = 0
    BY <2>2, <2>5 DEF ReviewInv, Announcements
  <2>7. /\ announced' \in [Bookings -> [Users -> Nat]]
        /\ announced'[b][u] \in {0, 1}
        /\ \A c \in Bookings, v \in Users :
             ~(c = b /\ v = u) => announced'[c][v] = announced[c][v]
    BY <2>1, <2>2, <2>6 DEF ReviewInv, Reviews!TypeOK
  <2>8. Reviews!TypeOK'
    BY <1>1, <1>2, <2>1, <2>3, <2>4, <2>7 DEF ReviewInv, Reviews!TypeOK
  <2>9. Reviews!OneReviewPerSide' /\ Reviews!ReviewsHaveCompletions'
    BY <1>1, <2>1, <2>5 DEF ReviewInv, Reviews!OneReviewPerSide, Reviews!ReviewsHaveCompletions
  <2>10. Announcements'
    <3> SUFFICES ASSUME NEW c \in Bookings, NEW v \in Users
                 PROVE  \/ announced'[c][v] = 0
                        \/ announced'[c][v] = 1
                           /\ \E s \in reviews' : s.booking = c /\ s.reviewer = v
      BY DEF Announcements
    <3>1. CASE c = b /\ v = u
      BY <2>1, <2>7, <3>1
    <3>2. CASE ~(c = b /\ v = u)
      BY <2>1, <2>7, <3>2 DEF ReviewInv, Announcements
    <3> QED
      BY <3>1, <3>2
  <2>11. ReviewsOfCompleted'
    BY <1>1, <2>1, <2>5 DEF ReviewInv, ReviewsOfCompleted, Reviews!Other
  <2>12. \A t \in tasks' : Reads(t)'
    BY <1>1, <2>1 DEF ReviewInv, Reads
  <2> QED
    BY <2>8, <2>9, <2>10, <2>11, <2>12 DEF ReviewInv
<1> QED
  BY <1>3, <1>4

LEMMA ReviewHandle ==
  ASSUME Reviews!ReputationAssumption, ReviewInv,
         \/ \E e \in owed : Reviews!HandleEvent(e)
         \/ \E u \in Sought : Reviews!GetUserReputation(u)
  PROVE  ReviewInv'
<1> DEFINE Begun(f, u) == [for |-> f, user |-> u, step |-> "reviews", seen |-> Reviews!Nothing]
<1>1. UNCHANGED <<outcome, reviews, forms, announced, reputations, owed, crashes>>
  BY DEF Reviews!HandleEvent, Reviews!GetUserReputation
<1>2. \A f \in owed \cup {Reviews!Call}, u \in Users : Begun(f, u) \in Reviews!Task
  BY DEF ReviewInv, Reviews!TypeOK, Reviews!Task, Reviews!Counted, Reviews!Nothing
<1>3. \A t \in tasks' \ tasks : \E f \in owed \cup {Reviews!Call}, u \in Users : t = Begun(f, u)
  <2>1. ASSUME NEW e \in owed, Reviews!HandleEvent(e), NEW t \in tasks' \ tasks
        PROVE  \E f \in owed \cup {Reviews!Call}, u \in Users : t = Begun(f, u)
    <3>1. Reviews!UsersOf(e) \subseteq Users
      BY DEF ReviewInv, Reviews!TypeOK, Reviews!Events, Reviews!UsersOf, Reviews!Other,
             Reviews!Participants, Reviews!ReputationAssumption
    <3>2. tasks' = tasks \cup {Begun(e, u) : u \in Reviews!UsersOf(e)}
      BY <2>1 DEF Reviews!HandleEvent
    <3> HIDE DEF Begun
    <3>3. PICK u \in Reviews!UsersOf(e) : t = Begun(e, u)
      BY <2>1, <3>2
    <3> QED
      BY <3>1, <3>3
  <2>2. ASSUME NEW v \in Sought, Reviews!GetUserReputation(v), NEW t \in tasks' \ tasks
        PROVE  \E f \in owed \cup {Reviews!Call}, u \in Users : t = Begun(f, u)
    BY <2>2 DEF Reviews!GetUserReputation, Reviews!ReputationAssumption
  <2> QED
    BY <2>1, <2>2
<1>4. \A t \in tasks' : t \in tasks \/ t.step = "reviews"
  BY <1>3
<1>5. /\ tasks' \subseteq Reviews!Task
      /\ \A t \in tasks' : t.for \in owed \cup {Reviews!Call}
  <2> SUFFICES ASSUME NEW t \in tasks'
               PROVE  t \in Reviews!Task /\ t.for \in owed \cup {Reviews!Call}
    OBVIOUS
  <2>1. CASE t \in tasks
    BY <2>1 DEF ReviewInv, Reviews!TypeOK
  <2>2. CASE t \notin tasks
    BY <1>2, <1>3, <2>2
  <2> QED
    BY <2>1, <2>2
<1>6. Reviews!TypeOK'
  BY <1>1, <1>5 DEF ReviewInv, Reviews!TypeOK
<1>7. \A t \in tasks' : Reads(t)'
  BY <1>1, <1>4 DEF ReviewInv, Reads
<1> QED
  BY <1>1, <1>6, <1>7 DEF ReviewInv, Reviews!OneReviewPerSide, Reviews!ReviewsHaveCompletions,
                          Announcements, ReviewsOfCompleted

\* The three queries: the reviews are read before the bookings.
LEMMA ReviewReads ==
  ASSUME Reviews!ReputationAssumption, ReviewInv, NEW t \in tasks,
         Reviews!ReadReviews(t) \/ Reviews!ReadCarried(t) \/ Reviews!ReadSent(t)
  PROVE  ReviewInv'
<1>1. UNCHANGED <<outcome, reviews, forms, announced, reputations, owed, crashes>>
  <2>1. CASE Reviews!ReadReviews(t)
    BY <2>1 DEF Reviews!ReadReviews, Reviews!Advance
  <2>2. CASE Reviews!ReadCarried(t)
    BY <2>2 DEF Reviews!ReadCarried, Reviews!Advance
  <2>3. CASE Reviews!ReadSent(t)
    BY <2>3 DEF Reviews!ReadSent, Reviews!Advance
  <2> QED
    BY <2>1, <2>2, <2>3
<1>2. /\ t \in Reviews!Task /\ t.for \in owed \cup {Reviews!Call} /\ Reads(t)
      /\ t.seen \in Reviews!Counted
  BY DEF ReviewInv, Reviews!TypeOK, Reviews!Task
<1>3. \A r \in reviews : /\ r.booking \in Bookings /\ outcome[r.booking] = "completed"
                         /\ r.subject \in {SenderOf[r.booking], TravelerOf[r.booking]}
  BY DEF ReviewInv, Reviews!TypeOK, Reviews!Review, ReviewsOfCompleted, Reviews!Other
<1>4. PICK step \in {"carried", "sent", "write"}, seen \in Reviews!Counted :
        /\ tasks' = (tasks \ {t}) \cup {[t EXCEPT !.step = step, !.seen = seen]}
        /\ \A r \in seen.reviews : r \in reviews /\ r.subject = t.user
        /\ step = "sent" => \A r \in seen.reviews :
             TravelerOf[r.booking] = t.user => r.booking \in seen.completed
        /\ step = "write" => \A r \in seen.reviews : r.booking \in seen.completed
  <2>1. CASE Reviews!ReadReviews(t)
    <3> DEFINE seen == [t.seen EXCEPT !.reviews = {r \in reviews : r.subject = t.user}]
    <3>1. tasks' = (tasks \ {t}) \cup {[t EXCEPT !.step = "carried", !.seen = seen]}
      BY <2>1 DEF Reviews!ReadReviews, Reviews!Advance
    <3>2. seen \in Reviews!Counted /\ seen.reviews = {r \in reviews : r.subject = t.user}
      BY <1>2 DEF Reviews!Counted, ReviewInv, Reviews!TypeOK
    <3> HIDE DEF seen
    <3> QED
      BY <3>1, <3>2
  <2>2. CASE Reviews!ReadCarried(t)
    <3> DEFINE seen == [t.seen EXCEPT
                 !.completed = @ \cup Reviews!Ended(t.user, TravelerOf, "completed"),
                 !.cancelled = @ \cup Reviews!Ended(t.user, TravelerOf, "cancelled")]
    <3>1. tasks' = (tasks \ {t}) \cup {[t EXCEPT !.step = "sent", !.seen = seen]}
          /\ t.step = "carried"
      BY <2>2 DEF Reviews!ReadCarried, Reviews!Advance
    <3>2. /\ seen \in Reviews!Counted /\ seen.reviews = t.seen.reviews
          /\ seen.completed = t.seen.completed
                                \cup Reviews!Ended(t.user, TravelerOf, "completed")
      BY <1>2 DEF Reviews!Counted, Reviews!Ended
    <3> HIDE DEF seen
    <3>3. \A r \in seen.reviews : r \in reviews /\ r.subject = t.user
      BY <1>2, <3>1, <3>2 DEF Reads
    <3>4. \A r \in seen.reviews :
            TravelerOf[r.booking] = t.user => r.booking \in seen.completed
      BY <1>3, <3>2, <3>3 DEF Reviews!Ended
    <3> QED
      BY <3>1, <3>2, <3>3, <3>4
  <2>3. CASE Reviews!ReadSent(t)
    <3> DEFINE seen == [t.seen EXCEPT
                 !.completed = @ \cup Reviews!Ended(t.user, SenderOf, "completed"),
                 !.cancelled = @ \cup Reviews!Ended(t.user, SenderOf, "cancelled")]
    <3>1. tasks' = (tasks \ {t}) \cup {[t EXCEPT !.step = "write", !.seen = seen]}
          /\ t.step = "sent"
      BY <2>3 DEF Reviews!ReadSent, Reviews!Advance
    <3>2. /\ seen \in Reviews!Counted /\ seen.reviews = t.seen.reviews
          /\ seen.completed = t.seen.completed
                                \cup Reviews!Ended(t.user, SenderOf, "completed")
      BY <1>2 DEF Reviews!Counted, Reviews!Ended
    <3> HIDE DEF seen
    <3>3. \A r \in seen.reviews : r \in reviews /\ r.subject = t.user
      BY <1>2, <3>1, <3>2 DEF Reads
    <3>4. \A r \in seen.reviews : r.booking \in seen.completed
      BY <1>2, <1>3, <3>1, <3>2, <3>3 DEF Reviews!Ended, Reads
    <3> QED
      BY <3>1, <3>2, <3>3, <3>4
  <2> QED
    BY <2>1, <2>2, <2>3
<1> DEFINE s == [t EXCEPT !.step = step, !.seen = seen]
<1>5. s \in Reviews!Task /\ s.for = t.for /\ s.user = t.user /\ s.step = step /\ s.seen = seen
  BY <1>2 DEF Reviews!Task
<1>6. tasks' = (tasks \ {t}) \cup {s}
  BY <1>4
<1> HIDE DEF s
<1>7. Reviews!TypeOK'
  BY <1>1, <1>2, <1>5, <1>6 DEF ReviewInv, Reviews!TypeOK
<1>8. \A x \in tasks' : Reads(x)'
  <2>1. Reads(s)'
    BY <1>1, <1>4, <1>5 DEF Reads
  <2>2. \A x \in tasks : Reads(x)'
    BY <1>1 DEF ReviewInv, Reads
  <2> QED
    BY <1>6, <2>1, <2>2
<1> QED
  BY <1>1, <1>7, <1>8 DEF ReviewInv, Reviews!OneReviewPerSide, Reviews!ReviewsHaveCompletions,
                          Announcements, ReviewsOfCompleted

\* A record is what a recalculation has read; a run that dies writes none.
LEMMA ReviewEnds ==
  ASSUME Reviews!ReputationAssumption, ReviewInv, NEW t \in tasks,
         Reviews!WriteReputation(t) \/ Reviews!Crash(t)
  PROVE  ReviewInv'
<1>1. /\ UNCHANGED <<outcome, reviews, forms, announced>> /\ tasks' \subseteq tasks
  BY DEF Reviews!WriteReputation, Reviews!Crash
<1>2. t \in Reviews!Task /\ Reads(t)
  BY DEF ReviewInv, Reviews!TypeOK
<1>3. /\ tasks' \subseteq Reviews!Task /\ owed' \subseteq Reviews!Events
      /\ \A s \in tasks' : s.for \in owed' \cup {Reviews!Call}
  <2>1. CASE Reviews!WriteReputation(t)
    BY <2>1 DEF Reviews!WriteReputation, ReviewInv, Reviews!TypeOK
  <2>2. CASE Reviews!Crash(t)
    BY <2>2 DEF Reviews!Crash, ReviewInv, Reviews!TypeOK
  <2> QED
    BY <2>1, <2>2
<1>4. crashes' \in 0..MaxCrashes
  BY DEF Reviews!WriteReputation, Reviews!Crash, ReviewInv, Reviews!TypeOK,
         Reviews!ReputationAssumption
<1>5. /\ reputations' \in [Users -> Reviews!Counted \cup {Reviews!NoRecord}]
      /\ Reviews!ReviewsHaveCompletions'
  <2>1. CASE Reviews!WriteReputation(t)
    <3>1. reputations' = [reputations EXCEPT ![t.user] = t.seen] /\ t.step = "write"
      BY <2>1 DEF Reviews!WriteReputation
    <3>2. t.user \in Users /\ t.seen \in Reviews!Counted
          /\ \A r \in t.seen.reviews : r.booking \in t.seen.completed
      BY <1>2, <3>1 DEF Reviews!Task, Reads
    <3>3. /\ reputations' \in [Users -> Reviews!Counted \cup {Reviews!NoRecord}]
          /\ reputations'[t.user] = t.seen
          /\ \A u \in Users \ {t.user} : reputations'[u] = reputations[u]
      BY <3>1, <3>2 DEF ReviewInv, Reviews!TypeOK
    <3> QED
      BY <3>2, <3>3 DEF ReviewInv, Reviews!ReviewsHaveCompletions
  <2>2. CASE Reviews!Crash(t)
    BY <2>2 DEF Reviews!Crash, ReviewInv, Reviews!TypeOK, Reviews!ReviewsHaveCompletions
  <2> QED
    BY <2>1, <2>2
<1>6. Reviews!TypeOK'
  BY <1>1, <1>3, <1>4, <1>5 DEF ReviewInv, Reviews!TypeOK
<1>7. \A s \in tasks' : Reads(s)'
  BY <1>1 DEF ReviewInv, Reads
<1> QED
  BY <1>1, <1>5, <1>6, <1>7 DEF ReviewInv, Reviews!OneReviewPerSide, Announcements,
                                ReviewsOfCompleted

\* The review of a side is the only one there is to count.
LEMMA ReviewCount ==
  ASSUME ReviewInv
  PROVE  Reviews!ReviewedOnce
<1> SUFFICES ASSUME NEW b \in Bookings, NEW u \in Users
             PROVE  announced[b][u] <=
                      Reviews!Cardinality({r \in reviews : r.booking = b /\ r.reviewer = u})
  BY DEF ReviewInv, Reviews!ReviewedOnce, Reviews!ToldOnce
<1> DEFINE S == {r \in reviews : r.booking = b /\ r.reviewer = u}
<1>1. ASSUME NEW s \in S
      PROVE  S = {s}
  BY <1>1 DEF ReviewInv, Reviews!OneReviewPerSide
<1>2. IsFiniteSet(S) /\ Cardinality(S) \in {0, 1} /\ (S # {} => Cardinality(S) = 1)
  <2>1. CASE S = {}
    BY <2>1, FS_EmptySet
  <2>2. CASE S # {}
    <3>1. PICK s : S = {s}
      BY <1>1, <2>2
    <3> QED
      BY <3>1, FS_Singleton
  <2> QED
    BY <2>1, <2>2
<1>3. Reviews!Cardinality(S) = Cardinality(S)
  BY DEF Reviews!Cardinality, Cardinality
<1>4. announced[b][u] = 0 \/ (announced[b][u] = 1 /\ S # {})
  <2>1. \/ announced[b][u] = 0
        \/ announced[b][u] = 1 /\ \E r \in reviews : r.booking = b /\ r.reviewer = u
    BY DEF ReviewInv, Announcements
  <2>2. (\E r \in reviews : r.booking = b /\ r.reviewer = u) => S # {}
    OBVIOUS
  <2> QED
    BY <2>1, <2>2
<1> HIDE DEF S
<1>5. announced[b][u] <= Cardinality(S)
  BY <1>2, <1>4
<1> QED
  BY <1>3, <1>5 DEF S

LEMMA ReviewNext ==
  ASSUME Reviews!ReputationAssumption, ReviewInv, [Reviews!Next]_Reviews!vars
  PROVE  ReviewInv'
<1>1. CASE UNCHANGED Reviews!vars
  BY <1>1 DEF Reviews!vars, ReviewInv, Reviews!TypeOK, Reviews!OneReviewPerSide,
              Reviews!ReviewsHaveCompletions, Announcements, ReviewsOfCompleted, Reads
<1>2. CASE Reviews!Next
  <2>1. CASE \E d \in Devices, b \in Bookings :
               \/ Reviews!Submit(d, b) \/ Reviews!CheckBooking(d, b)
               \/ Reviews!CheckExisting(d, b) \/ Reviews!WriteReview(d, b)
    BY <2>1, ReviewForms, ReviewWrite
  <2>2. CASE \E t \in tasks : Reviews!Recalculate(t) \/ Reviews!Crash(t)
    BY <2>2, ReviewReads, ReviewEnds DEF Reviews!Recalculate
  <2> QED
    BY <1>2, <2>1, <2>2, ReviewFinish, ReviewHandle DEF Reviews!Next
<1> QED
  BY <1>1, <1>2

\* A participant has one review of a booking, however many devices submitted one
\* at the same time and whatever queries, writes and retries came between; the
\* other side is told of it at most once; and no record counts a review without
\* the completed booking it is about, although its three queries are no
\* transaction and runs of the server die (ReviewService, ReputationService).
THEOREM ReviewsCountOnce ==
  ASSUME Reviews!ReputationAssumption
  PROVE  Reviews!Spec => [](Reviews!TypeOK /\ Reviews!ReviewedOnce)
<1>1. Reviews!Init => ReviewInv
  BY ReviewInit
<1>2. ReviewInv /\ [Reviews!Next]_Reviews!vars => ReviewInv'
  BY ReviewNext
<1>3. ReviewInv => Reviews!TypeOK /\ Reviews!ReviewedOnce
  BY ReviewCount DEF ReviewInv
<1> QED
  BY <1>1, <1>2, <1>3, PTL DEF Reviews!Spec

-----------------------------------------------------------------------------
(***************************************************************************)
(* Whether the records are accurate.  Overlapping recalculations of one    *)
(* user can leave a stale record for good; nothing else can.               *)
(***************************************************************************)
\* One user's reputation is recalculated by one run at a time.
OneRecalculationAUser == \A s, t \in tasks : s.user = t.user => s = t

\* An event about the user for which no recalculation has begun
Unstarted(u) ==
  \E e \in owed : u \in Reviews!UsersOf(e) /\ \A t \in tasks : t.for # e

\* What a recalculation has read is what is so.
SeesActual(t) ==
  LET now == Reviews!Actual(t.user)
      carried(s) == Reviews!Ended(t.user, TravelerOf, s)
  IN /\ t.step # "reviews" => t.seen.reviews = now.reviews
     /\ t.step \in {"reviews", "carried"} => t.seen.completed = {} /\ t.seen.cancelled = {}
     /\ t.step = "sent" =>
          t.seen.completed = carried("completed") /\ t.seen.cancelled = carried("cancelled")
     /\ t.step = "write" => t.seen = now

\* Either a recalculation is still to begin, or one is about to write what is
\* so, or the record says what is so.
UpToDate(u) ==
  \/ Unstarted(u)
  \/ \E t \in tasks : t.user = u /\ SeesActual(t)
  \/ /\ \A t \in tasks : t.user # u
     /\ reputations[u] \in {Reviews!NoRecord, Reviews!Actual(u)}

\* An event that is owed is one that happened, and a recalculation is made for
\* somebody it concerns, or for a reader who found no record.
OwedHappened ==
  \A e \in owed :
    \/ e.kind = "booking" /\ outcome[e.of] # "open"
    \/ e.kind = "review" /\ \E r \in reviews : r.booking = e.of /\ r.reviewer = e.by

ForSomebody ==
  \A t \in tasks :
    \/ t.for \in owed /\ t.user \in Reviews!UsersOf(t.for)
    \/ t.for = Reviews!Call /\ reputations[t.user] = Reviews!NoRecord

AccuracyInv ==
  /\ ReviewInv /\ OwedHappened /\ ForSomebody
  /\ \A u \in Users : UpToDate(u)

\* What is so of a user, as far as the recalculations read it
SameFacts(u) ==
  /\ Reviews!Actual(u)' = Reviews!Actual(u)
  /\ \A s \in {"completed", "cancelled"} :
       Reviews!Ended(u, TravelerOf, s)' = Reviews!Ended(u, TravelerOf, s)

\* Nothing is so of a user anew but by an end of a booking of the user's or
\* by a review of the user.
LEMMA FactsStay ==
  ASSUME NEW u \in Users,
         \A b \in Bookings : u \in Reviews!Participants(b) => outcome'[b] = outcome[b],
         \A r : r.subject = u => (r \in reviews' <=> r \in reviews)
  PROVE  SameFacts(u)
<1>1. {r \in reviews' : r.subject = u} = {r \in reviews : r.subject = u}
  OBVIOUS
<1>2. ASSUME NEW s \in {"completed", "cancelled"}
      PROVE  /\ {b \in Bookings : u \in Reviews!Participants(b) /\ outcome'[b] = s}
                  = {b \in Bookings : u \in Reviews!Participants(b) /\ outcome[b] = s}
             /\ {b \in Bookings : TravelerOf[b] = u /\ outcome'[b] = s}
                  = {b \in Bookings : TravelerOf[b] = u /\ outcome[b] = s}
  BY DEF Reviews!Participants
<1> QED
  BY <1>1, <1>2 DEF SameFacts, Reviews!Actual, Reviews!Ended

\* While what is so of a user stays and the runs and the record do too, the
\* user's record is up to date as before; more may be owed.
LEMMA UpToDateStays ==
  ASSUME NEW u \in Users, UpToDate(u), SameFacts(u),
         tasks' = tasks, owed \subseteq owed', reputations' = reputations
  PROVE  UpToDate(u)'
<1>1. CASE Unstarted(u)
  <2>1. Unstarted(u)'
    BY <1>1 DEF Unstarted, Reviews!UsersOf, Reviews!Participants, Reviews!Other
  <2> QED
    BY <2>1 DEF UpToDate
<1>2. ASSUME NEW t \in tasks, t.user = u, SeesActual(t)
      PROVE  UpToDate(u)'
  <2>1. SeesActual(t)'
    BY <1>2 DEF SeesActual, SameFacts
  <2> QED
    BY <1>2, <2>1 DEF UpToDate
<1>3. CASE /\ \A t \in tasks : t.user # u
           /\ reputations[u] \in {Reviews!NoRecord, Reviews!Actual(u)}
  BY <1>3 DEF UpToDate, SameFacts, Reviews!NoRecord
<1> QED
  BY <1>1, <1>2, <1>3 DEF UpToDate

\* What is owed stays something that happened.
LEMMA OwedStaysHappened ==
  ASSUME ReviewInv, OwedHappened, [Reviews!Next]_Reviews!vars
  PROVE  OwedHappened'
<1>1. CASE reviews' = reviews /\ outcome' = outcome /\ owed' \subseteq owed
  BY <1>1 DEF OwedHappened
<1>2. ASSUME NEW b \in Bookings, Reviews!FinishBooking(b)
      PROVE  OwedHappened'
  <2> DEFINE e == Reviews!BookingEvent(b)
  <2>1. /\ reviews' = reviews /\ owed' = owed \cup {e} /\ outcome'[b] # "open"
        /\ \A c \in Bookings \ {b} : outcome'[c] = outcome[c]
    BY <1>2 DEF Reviews!FinishBooking, ReviewInv, Reviews!TypeOK
  <2>2. e.kind = "booking" /\ e.of = b
    BY DEF Reviews!BookingEvent
  <2>3. \A f \in owed : f.of \in Bookings
    BY DEF ReviewInv, Reviews!TypeOK, Reviews!Events
  <2> HIDE DEF e
  <2> QED
    BY <2>1, <2>2, <2>3 DEF OwedHappened
<1>3. ASSUME NEW d \in Devices, NEW b \in Bookings, Reviews!WriteReview(d, b)
      PROVE  OwedHappened'
  <2> DEFINE r == [booking |-> b, reviewer |-> Owner[d],
                   subject |-> Reviews!Other(Owner[d], b), rating |-> forms[d][b].rating]
             e == Reviews!ReviewEvent(r)
  <2>1. /\ outcome' = outcome
        /\ \/ reviews' = reviews \cup {r} /\ owed' = owed \cup {e}
           \/ reviews' = reviews /\ owed' = owed
    BY <1>3 DEF Reviews!WriteReview
  <2>2. e.kind = "review" /\ r.booking = e.of /\ r.reviewer = e.by
    BY DEF Reviews!ReviewEvent
  <2> HIDE DEF e, r
  <2>3. ASSUME NEW f \in owed
        PROVE  \/ f.kind = "booking" /\ outcome'[f.of] # "open"
               \/ f.kind = "review"
                  /\ \E s \in reviews' : s.booking = f.of /\ s.reviewer = f.by
    BY <2>1 DEF OwedHappened
  <2>4. \/ r \in reviews' /\ owed' = owed \cup {e}
        \/ owed' = owed
    BY <2>1
  <2> QED
    BY <2>2, <2>3, <2>4 DEF OwedHappened
<1>4. ASSUME NEW t \in tasks, Reviews!WriteReputation(t)
      PROVE  OwedHappened'
  BY <1>1, <1>4 DEF Reviews!WriteReputation
<1>5. ASSUME Reviews!Next,
             \A b \in Bookings : ~Reviews!FinishBooking(b),
             \A d \in Devices, b \in Bookings : ~Reviews!WriteReview(d, b),
             \A t \in tasks : ~Reviews!WriteReputation(t)
      PROVE  reviews' = reviews /\ outcome' = outcome /\ owed' = owed
  BY <1>5 DEF Reviews!Next, Reviews!Submit, Reviews!CheckBooking, Reviews!CheckExisting,
              Reviews!HandleEvent, Reviews!GetUserReputation, Reviews!Recalculate,
              Reviews!ReadReviews, Reviews!ReadCarried, Reviews!ReadSent, Reviews!Advance,
              Reviews!Crash
<1>6. CASE UNCHANGED Reviews!vars
  BY <1>1, <1>6 DEF Reviews!vars
<1> QED
  BY <1>1, <1>2, <1>3, <1>4, <1>5, <1>6

LEMMA AccuracyInit == Reviews!ReputationAssumption /\ Reviews!Init => AccuracyInv
<1> SUFFICES ASSUME Reviews!ReputationAssumption, Reviews!Init PROVE AccuracyInv
  OBVIOUS
<1>1. ReviewInv
  BY ReviewInit
<1>2. OwedHappened /\ ForSomebody /\ \A u \in Users : UpToDate(u)
  BY DEF Reviews!Init, OwedHappened, ForSomebody, UpToDate
<1> QED
  BY <1>1, <1>2 DEF AccuracyInv

\* The end of a booking is an event of its own, about its two participants.
LEMMA AccuracyFinish ==
  ASSUME Reviews!ReputationAssumption, AccuracyInv, NEW b \in Bookings,
         Reviews!FinishBooking(b)
  PROVE  ForSomebody' /\ \A u \in Users : UpToDate(u)'
<1> DEFINE e == Reviews!BookingEvent(b)
<1>1. /\ outcome[b] = "open" /\ owed' = owed \cup {e}
      /\ outcome'[b] # "open" /\ \A c \in Bookings \ {b} : outcome'[c] = outcome[c]
      /\ UNCHANGED <<reviews, reputations, tasks>>
  BY DEF Reviews!FinishBooking, AccuracyInv, ReviewInv, Reviews!TypeOK
<1>2. e.kind = "booking" /\ e.of = b
  BY DEF Reviews!BookingEvent
<1>3. owed \subseteq Reviews!Events /\ \A t \in tasks : t.for \in owed \cup {Reviews!Call}
  BY DEF AccuracyInv, ReviewInv, Reviews!TypeOK
<1>4. e \notin owed /\ e # Reviews!Call
  <2>1. e \notin owed
    BY <1>1, <1>2 DEF AccuracyInv, OwedHappened
  <2>2. Reviews!Call.kind = "call"
    BY DEF Reviews!Call
  <2> QED
    BY <1>2, <2>1, <2>2
<1>6. ForSomebody'
  BY <1>1 DEF AccuracyInv, ForSomebody, Reviews!UsersOf, Reviews!Participants, Reviews!Other
<1>7. ASSUME NEW u \in Users PROVE UpToDate(u)'
  <2>1. CASE u \in Reviews!Participants(b)
    <3>1. Unstarted(u)'
      BY <1>1, <1>2, <1>3, <1>4, <2>1 DEF Unstarted, Reviews!UsersOf, Reviews!Participants
    <3> QED
      BY <3>1 DEF UpToDate
  <2>2. CASE u \notin Reviews!Participants(b)
    <3>1. SameFacts(u)
      BY <1>1, <2>2, FactsStay
    <3> QED
      BY <1>1, <3>1, UpToDateStays DEF AccuracyInv
  <2> QED
    BY <2>1, <2>2
<1> QED
  BY <1>6, <1>7

\* A review is an event of its own, about its subject.
LEMMA AccuracyForms ==
  ASSUME Reviews!ReputationAssumption, AccuracyInv, NEW d \in Devices, NEW b \in Bookings,
         \/ Reviews!Submit(d, b) \/ Reviews!CheckBooking(d, b)
         \/ Reviews!CheckExisting(d, b) \/ Reviews!WriteReview(d, b)
  PROVE  ForSomebody' /\ \A u \in Users : UpToDate(u)'
<1> DEFINE r == [booking |-> b, reviewer |-> Owner[d],
                 subject |-> Reviews!Other(Owner[d], b), rating |-> forms[d][b].rating]
           e == Reviews!ReviewEvent(r)
<1>1. UNCHANGED <<outcome, reputations, tasks>>
  BY DEF Reviews!Submit, Reviews!CheckBooking, Reviews!CheckExisting, Reviews!WriteReview
<1>2. CASE UNCHANGED <<reviews, owed>>
  <2>1. ForSomebody'
    BY <1>1, <1>2 DEF AccuracyInv, ForSomebody, Reviews!UsersOf, Reviews!Participants,
                      Reviews!Other
  <2>2. ASSUME NEW u \in Users PROVE UpToDate(u)'
    BY <1>1, <1>2, FactsStay, UpToDateStays DEF AccuracyInv
  <2> QED
    BY <2>1, <2>2
<1>3. CASE /\ Reviews!CreateAllowed(r)
           /\ reviews' = reviews \cup {r} /\ owed' = owed \cup {e}
  <2>1. /\ r.booking = b /\ r.reviewer = Owner[d] /\ r.subject = Reviews!Other(Owner[d], b)
        /\ e = [kind |-> "review", of |-> b, by |-> Owner[d]]
    BY DEF Reviews!ReviewEvent
  <2> HIDE DEF r, e
  <2>2. \A s \in reviews : ~(s.booking = b /\ s.reviewer = Owner[d])
    BY <1>3, <2>1 DEF Reviews!CreateAllowed, AccuracyInv, ReviewInv, ReviewsOfCompleted
  <2>3. owed \subseteq Reviews!Events /\ \A t \in tasks : t.for \in owed \cup {Reviews!Call}
    BY DEF AccuracyInv, ReviewInv, Reviews!TypeOK
  <2>4. e \notin owed /\ e # Reviews!Call
    <3>1. e \notin owed
      BY <2>1, <2>2 DEF AccuracyInv, OwedHappened
    <3>2. Reviews!Call.kind = "call"
      BY DEF Reviews!Call
    <3> QED
      BY <2>1, <3>1, <3>2
  <2>6. ForSomebody'
    BY <1>1, <1>3 DEF AccuracyInv, ForSomebody, Reviews!UsersOf, Reviews!Participants,
                      Reviews!Other
  <2>7. ASSUME NEW u \in Users PROVE UpToDate(u)'
    <3>1. CASE u = r.subject
      <4>1. PICK f : f = e
        OBVIOUS
      <4>2. f \in owed' /\ \A t \in tasks' : t.for # f
        BY <1>1, <1>3, <2>3, <2>4, <4>1
      <4>3. u \in Reviews!UsersOf(f)
        BY <2>1, <3>1, <4>1 DEF Reviews!UsersOf, Reviews!Other
      <4>4. Unstarted(u)'
        BY <4>2, <4>3 DEF Unstarted, Reviews!UsersOf, Reviews!Other, Reviews!Participants
      <4> QED
        BY <4>4 DEF UpToDate
    <3>2. CASE u # r.subject
      <4>1. SameFacts(u)
        BY <1>1, <1>3, <3>2, FactsStay
      <4> QED
        BY <1>1, <1>3, <4>1, UpToDateStays DEF AccuracyInv
    <3> QED
      BY <3>1, <3>2
  <2> QED
    BY <2>6, <2>7
<1> QED
  BY <1>2, <1>3 DEF Reviews!Submit, Reviews!CheckBooking, Reviews!CheckExisting,
                    Reviews!WriteReview

\* A run starts with nothing read, for everybody its event concerns.
LEMMA AccuracyHandle ==
  ASSUME Reviews!ReputationAssumption, AccuracyInv, NEW e \in owed, Reviews!HandleEvent(e)
  PROVE  ForSomebody' /\ \A u \in Users : UpToDate(u)'
<1> DEFINE Begun(u) == [for |-> e, user |-> u, step |-> "reviews", seen |-> Reviews!Nothing]
           begun == {Begun(u) : u \in Reviews!UsersOf(e)}
<1>1. /\ tasks' = tasks \cup begun
      /\ UNCHANGED <<outcome, reviews, owed, reputations>>
  BY DEF Reviews!HandleEvent
<1>2. ASSUME NEW u \in Reviews!UsersOf(e)
      PROVE  \E t \in begun : t.user = u /\ SeesActual(t)'
  <2> DEFINE t == Begun(u)
  <2>1. t \in begun /\ t.user = u /\ t.step = "reviews" /\ t.seen = Reviews!Nothing
    OBVIOUS
  <2> HIDE DEF t
  <2>2. SeesActual(t)'
    BY <2>1 DEF SeesActual, Reviews!Nothing
  <2> QED
    BY <2>1, <2>2
<1>3. \A t \in begun : t.for = e /\ t.user \in Reviews!UsersOf(e)
  OBVIOUS
<1> HIDE DEF begun
<1>4. ForSomebody'
  BY <1>1, <1>3 DEF AccuracyInv, ForSomebody, Reviews!UsersOf, Reviews!Participants,
                    Reviews!Other
<1>5. ASSUME NEW u \in Users PROVE UpToDate(u)'
  <2>1. CASE u \in Reviews!UsersOf(e)
    BY <1>1, <1>2, <2>1 DEF UpToDate
  <2>2. CASE u \notin Reviews!UsersOf(e)
    <3>0. SameFacts(u)
      BY <1>1, FactsStay
    <3>1. CASE Unstarted(u)
      <4>1. PICK f \in owed : u \in Reviews!UsersOf(f) /\ \A t \in tasks : t.for # f
        BY <3>1 DEF Unstarted
      <4>2. f # e
        BY <2>2, <4>1
      <4>3. f \in owed' /\ \A t \in tasks' : t.for # f
        BY <1>1, <1>3, <4>1, <4>2
      <4>4. Unstarted(u)'
        BY <4>1, <4>3 DEF Unstarted, Reviews!UsersOf, Reviews!Other, Reviews!Participants
      <4> QED
        BY <4>4 DEF UpToDate
    <3>2. ASSUME NEW t \in tasks, t.user = u, SeesActual(t)
          PROVE  UpToDate(u)'
      <4>1. SeesActual(t)'
        BY <3>0, <3>2 DEF SeesActual, SameFacts
      <4> QED
        BY <1>1, <3>2, <4>1 DEF UpToDate
    <3>3. CASE /\ \A t \in tasks : t.user # u
               /\ reputations[u] \in {Reviews!NoRecord, Reviews!Actual(u)}
      <4>1. \A t \in tasks' : t.user # u
        BY <1>1, <1>3, <2>2, <3>3
      <4> QED
        BY <1>1, <3>0, <3>3, <4>1 DEF UpToDate, SameFacts, Reviews!NoRecord
    <3> QED
      BY <3>1, <3>2, <3>3 DEF AccuracyInv, UpToDate
  <2> QED
    BY <2>1, <2>2
<1> QED
  BY <1>4, <1>5

\* A reader who finds no record starts a run that has read nothing.
LEMMA AccuracyCall ==
  ASSUME Reviews!ReputationAssumption, AccuracyInv, NEW v \in Sought,
         Reviews!GetUserReputation(v)
  PROVE  ForSomebody' /\ \A u \in Users : UpToDate(u)'
<1> DEFINE t == [for |-> Reviews!Call, user |-> v, step |-> "reviews",
                 seen |-> Reviews!Nothing]
<1>1. /\ reputations[v] = Reviews!NoRecord
      /\ tasks' = tasks \cup {t}
      /\ UNCHANGED <<outcome, reviews, owed, reputations>>
  BY DEF Reviews!GetUserReputation
<1>2. /\ t.user = v /\ t.for = Reviews!Call /\ t.step = "reviews"
      /\ t.seen = Reviews!Nothing
  OBVIOUS
<1> HIDE DEF t
<1>3. SeesActual(t)'
  BY <1>2 DEF SeesActual, Reviews!Nothing
<1>4. ForSomebody'
  BY <1>1, <1>2 DEF AccuracyInv, ForSomebody, Reviews!UsersOf, Reviews!Participants,
                    Reviews!Other, Reviews!NoRecord, Reviews!Call
<1>5. ASSUME NEW u \in Users PROVE UpToDate(u)'
  <2>0. SameFacts(u)
    BY <1>1, FactsStay
  <2>1. CASE u = v
    BY <1>1, <1>2, <1>3, <2>1 DEF UpToDate
  <2>2. CASE u # v
    <3>1. CASE Unstarted(u)
      <4>1. PICK f \in owed : u \in Reviews!UsersOf(f) /\ \A x \in tasks : x.for # f
        BY <3>1 DEF Unstarted
      <4>2. f # Reviews!Call
        <5>1. f \in Reviews!Events
          BY DEF AccuracyInv, ReviewInv, Reviews!TypeOK
        <5>2. f.kind \in {"review", "booking"} /\ Reviews!Call.kind = "call"
          BY <5>1 DEF Reviews!Events, Reviews!Call
        <5> QED
          BY <5>2
      <4>3. f \in owed' /\ \A x \in tasks' : x.for # f
        BY <1>1, <1>2, <4>1, <4>2
      <4>4. Unstarted(u)'
        BY <4>1, <4>3 DEF Unstarted, Reviews!UsersOf, Reviews!Other, Reviews!Participants
      <4> QED
        BY <4>4 DEF UpToDate
    <3>2. ASSUME NEW x \in tasks, x.user = u, SeesActual(x)
          PROVE  UpToDate(u)'
      <4>1. SeesActual(x)'
        BY <2>0, <3>2 DEF SeesActual, SameFacts
      <4> QED
        BY <1>1, <3>2, <4>1 DEF UpToDate
    <3>3. CASE /\ \A x \in tasks : x.user # u
               /\ reputations[u] \in {Reviews!NoRecord, Reviews!Actual(u)}
      BY <1>1, <1>2, <2>0, <2>2, <3>3 DEF UpToDate, SameFacts, Reviews!NoRecord
    <3> QED
      BY <3>1, <3>2, <3>3 DEF AccuracyInv, UpToDate
  <2> QED
    BY <2>1, <2>2
<1> QED
  BY <1>4, <1>5

\* A query of a run that has seen what is so shows what is so.
LEMMA QuerySeesActual ==
  ASSUME AccuracyInv, NEW t \in tasks,
         Reviews!ReadReviews(t) \/ Reviews!ReadCarried(t) \/ Reviews!ReadSent(t)
  PROVE  \E s : /\ tasks' = (tasks \ {t}) \cup {s}
                /\ s.for = t.for /\ s.user = t.user
                /\ SeesActual(t) => SeesActual(s)'
<1> DEFINE carried(x) == Reviews!Ended(t.user, TravelerOf, x)
           sent(x) == Reviews!Ended(t.user, SenderOf, x)
           now == Reviews!Actual(t.user)
<1>1. UNCHANGED <<outcome, reviews>>
  BY DEF Reviews!ReadReviews, Reviews!ReadCarried, Reviews!ReadSent, Reviews!Advance
<1>2. t \in Reviews!Task /\ t.seen \in Reviews!Counted
  BY DEF AccuracyInv, ReviewInv, Reviews!TypeOK, Reviews!Task
<1>3. /\ now.reviews = {r \in reviews : r.subject = t.user}
      /\ now = [reviews |-> now.reviews,
                completed |-> carried("completed") \cup sent("completed"),
                cancelled |-> carried("cancelled") \cup sent("cancelled")]
  BY DEF Reviews!Actual, Reviews!Ended, Reviews!Participants
<1>4. now' = now /\ \A x \in {"completed", "cancelled"} : carried(x)' = carried(x)
  BY <1>1 DEF Reviews!Actual, Reviews!Ended, Reviews!Participants
<1>5. SeesActual(t) <=>
        /\ t.step # "reviews" => t.seen.reviews = now.reviews
        /\ t.step \in {"reviews", "carried"} => t.seen.completed = {} /\ t.seen.cancelled = {}
        /\ t.step = "sent" => /\ t.seen.completed = carried("completed")
                              /\ t.seen.cancelled = carried("cancelled")
        /\ t.step = "write" => t.seen = now
  BY DEF SeesActual
<1> HIDE DEF carried, sent, now
<1>6. ASSUME NEW step, NEW seen \in Reviews!Counted,
             tasks' = (tasks \ {t}) \cup {[t EXCEPT !.step = step, !.seen = seen]},
             SeesActual(t) =>
               /\ step # "reviews" => seen.reviews = now.reviews
               /\ step \in {"reviews", "carried"} => seen.completed = {} /\ seen.cancelled = {}
               /\ step = "sent" => /\ seen.completed = carried("completed")
                                   /\ seen.cancelled = carried("cancelled")
               /\ step = "write" => seen = now
      PROVE  \E s : /\ tasks' = (tasks \ {t}) \cup {s}
                    /\ s.for = t.for /\ s.user = t.user
                    /\ SeesActual(t) => SeesActual(s)'
  <2> DEFINE s == [t EXCEPT !.step = step, !.seen = seen]
  <2>1. s.for = t.for /\ s.user = t.user /\ s.step = step /\ s.seen = seen
    BY <1>2 DEF Reviews!Task
  <2>2. tasks' = (tasks \ {t}) \cup {s}
    BY <1>6
  <2> HIDE DEF s
  <2>3. PICK q : q = s
    OBVIOUS
  <2>4. SeesActual(t) => SeesActual(q)'
    <3> SUFFICES ASSUME SeesActual(t) PROVE SeesActual(q)'
      OBVIOUS
    <3>1. /\ Reviews!Actual(q.user)' = now
          /\ \A x \in {"completed", "cancelled"} :
               Reviews!Ended(q.user, TravelerOf, x)' = carried(x)
      BY <1>4, <2>1, <2>3 DEF now, carried
    <3> QED
      BY <1>6, <2>1, <2>3, <3>1 DEF SeesActual
  <2> QED
    BY <2>1, <2>2, <2>3, <2>4
<1>7. CASE Reviews!ReadReviews(t)
  <2> DEFINE seen == [t.seen EXCEPT !.reviews = {r \in reviews : r.subject = t.user}]
  <2>1. /\ tasks' = (tasks \ {t}) \cup {[t EXCEPT !.step = "carried", !.seen = seen]}
        /\ t.step = "reviews"
    BY <1>7 DEF Reviews!ReadReviews, Reviews!Advance
  <2>2. /\ seen \in Reviews!Counted /\ seen.reviews = now.reviews
        /\ seen.completed = t.seen.completed /\ seen.cancelled = t.seen.cancelled
    BY <1>2, <1>3 DEF Reviews!Counted, AccuracyInv, ReviewInv, Reviews!TypeOK
  <2> HIDE DEF seen
  <2> QED
    BY <1>5, <1>6, <2>1, <2>2
<1>8. CASE Reviews!ReadCarried(t)
  <2> DEFINE seen == [t.seen EXCEPT
               !.completed = @ \cup Reviews!Ended(t.user, TravelerOf, "completed"),
               !.cancelled = @ \cup Reviews!Ended(t.user, TravelerOf, "cancelled")]
  <2>1. /\ tasks' = (tasks \ {t}) \cup {[t EXCEPT !.step = "sent", !.seen = seen]}
        /\ t.step = "carried"
    BY <1>8 DEF Reviews!ReadCarried, Reviews!Advance
  <2>2. /\ seen \in Reviews!Counted /\ seen.reviews = t.seen.reviews
        /\ seen.completed = t.seen.completed \cup carried("completed")
        /\ seen.cancelled = t.seen.cancelled \cup carried("cancelled")
    BY <1>2 DEF Reviews!Counted, Reviews!Ended, carried
  <2> HIDE DEF seen
  <2> QED
    BY <1>5, <1>6, <2>1, <2>2
<1>9. CASE Reviews!ReadSent(t)
  <2> DEFINE seen == [t.seen EXCEPT
               !.completed = @ \cup Reviews!Ended(t.user, SenderOf, "completed"),
               !.cancelled = @ \cup Reviews!Ended(t.user, SenderOf, "cancelled")]
  <2>1. /\ tasks' = (tasks \ {t}) \cup {[t EXCEPT !.step = "write", !.seen = seen]}
        /\ t.step = "sent"
    BY <1>9 DEF Reviews!ReadSent, Reviews!Advance
  <2>2. /\ seen \in Reviews!Counted /\ seen.reviews = t.seen.reviews
        /\ seen.completed = t.seen.completed \cup sent("completed")
        /\ seen.cancelled = t.seen.cancelled \cup sent("cancelled")
    BY <1>2 DEF Reviews!Counted, Reviews!Ended, sent
  <2> HIDE DEF seen
  <2>3. seen = [reviews |-> seen.reviews, completed |-> seen.completed,
                cancelled |-> seen.cancelled]
    BY <2>2 DEF Reviews!Counted
  <2>4. SeesActual(t) => /\ seen.reviews = now.reviews
                         /\ seen.completed = carried("completed") \cup sent("completed")
                         /\ seen.cancelled = carried("cancelled") \cup sent("cancelled")
    BY <1>5, <2>1, <2>2
  <2>5. SeesActual(t) => seen = now /\ seen.reviews = now.reviews
    BY <1>3, <2>3, <2>4
  <2> QED
    BY <1>6, <2>1, <2>2, <2>5
<1> QED
  BY <1>7, <1>8, <1>9

\* Others' runs and records do not matter.
LEMMA AccuracyReads ==
  ASSUME AccuracyInv, NEW t \in tasks,
         Reviews!ReadReviews(t) \/ Reviews!ReadCarried(t) \/ Reviews!ReadSent(t)
  PROVE  ForSomebody' /\ \A u \in Users : UpToDate(u)'
<1>1. UNCHANGED <<outcome, reviews, owed, reputations>>
  BY DEF Reviews!ReadReviews, Reviews!ReadCarried, Reviews!ReadSent, Reviews!Advance
<1>2. PICK s : /\ tasks' = (tasks \ {t}) \cup {s}
               /\ s.for = t.for /\ s.user = t.user
               /\ SeesActual(t) => SeesActual(s)'
  BY QuerySeesActual
<1>3. ForSomebody'
  BY <1>1, <1>2 DEF AccuracyInv, ForSomebody, Reviews!UsersOf, Reviews!Participants,
                    Reviews!Other, Reviews!NoRecord, Reviews!Call
<1>4. ASSUME NEW u \in Users PROVE UpToDate(u)'
  <2>1. SameFacts(u)
    BY <1>1, FactsStay
  <2>2. CASE Unstarted(u)
    <3>1. Unstarted(u)'
      BY <1>1, <1>2, <2>2 DEF Unstarted, Reviews!UsersOf, Reviews!Other, Reviews!Participants
    <3> QED
      BY <3>1 DEF UpToDate
  <2>3. ASSUME NEW x \in tasks, x.user = u, SeesActual(x)
        PROVE  UpToDate(u)'
    <3>1. CASE x = t
      BY <1>2, <2>3, <3>1 DEF UpToDate
    <3>2. CASE x # t
      <4>1. SeesActual(x)'
        BY <2>1, <2>3 DEF SeesActual, SameFacts
      <4> QED
        BY <1>2, <2>3, <3>2, <4>1 DEF UpToDate
    <3> QED
      BY <3>1, <3>2
  <2>4. CASE /\ \A x \in tasks : x.user # u
             /\ reputations[u] \in {Reviews!NoRecord, Reviews!Actual(u)}
    BY <1>1, <1>2, <2>1, <2>4 DEF UpToDate, SameFacts, Reviews!NoRecord
  <2> QED
    BY <2>2, <2>3, <2>4 DEF AccuracyInv, UpToDate
<1> QED
  BY <1>3, <1>4

\* The only run of a user writes what it has seen.
LEMMA AccuracyWrite ==
  ASSUME AccuracyInv, OneRecalculationAUser, NEW t \in tasks, Reviews!WriteReputation(t)
  PROVE  ForSomebody' /\ \A u \in Users : UpToDate(u)'
<1>1. /\ t.step = "write" /\ tasks' = tasks \ {t}
      /\ reputations' = [reputations EXCEPT ![t.user] = t.seen]
      /\ owed' = IF \E s \in tasks \ {t} : s.for = t.for THEN owed ELSE owed \ {t.for}
      /\ UNCHANGED <<outcome, reviews>>
  BY DEF Reviews!WriteReputation
<1>2. /\ t.user \in Users /\ DOMAIN reputations = Users
      /\ \A x \in tasks : x.user \in Users
  BY DEF AccuracyInv, ReviewInv, Reviews!TypeOK, Reviews!Task
<1>3. /\ reputations'[t.user] = t.seen
      /\ \A u \in Users \ {t.user} : reputations'[u] = reputations[u]
      /\ \A x \in tasks' : x.user # t.user
  BY <1>1, <1>2 DEF OneRecalculationAUser, AccuracyInv, ReviewInv, Reviews!TypeOK
<1>4. /\ owed' \subseteq owed
      /\ \A e \in owed : e \notin owed' => e = t.for
      /\ \A x \in tasks' : x.for \in owed => x.for \in owed'
  BY <1>1
<1>6. ForSomebody'
  BY <1>1, <1>2, <1>3, <1>4 DEF AccuracyInv, ForSomebody, Reviews!UsersOf,
       Reviews!Participants, Reviews!Other, Reviews!NoRecord, Reviews!Call
<1>7. ASSUME NEW u \in Users PROVE UpToDate(u)'
  <2>1. SameFacts(u)
    BY <1>1, FactsStay
  <2>2. CASE Unstarted(u)
    <3>1. PICK e \in owed : u \in Reviews!UsersOf(e) /\ \A x \in tasks : x.for # e
      BY <2>2 DEF Unstarted
    <3>2. e \in owed' /\ \A x \in tasks' : x.for # e
      BY <1>1, <1>4, <3>1
    <3>3. Unstarted(u)'
      BY <3>1, <3>2 DEF Unstarted, Reviews!UsersOf, Reviews!Other, Reviews!Participants
    <3> QED
      BY <3>3 DEF UpToDate
  <2>3. ASSUME NEW x \in tasks, x.user = u, SeesActual(x)
        PROVE  UpToDate(u)'
    <3>1. CASE x = t
      <4>1. reputations'[u] = Reviews!Actual(u)
        BY <1>1, <1>3, <2>3, <3>1 DEF SeesActual
      <4> QED
        BY <1>3, <2>1, <2>3, <3>1, <4>1 DEF UpToDate, SameFacts
    <3>2. CASE x # t
      <4>1. SeesActual(x)'
        BY <2>1, <2>3 DEF SeesActual, SameFacts
      <4> QED
        BY <1>1, <2>3, <3>2, <4>1 DEF UpToDate
    <3> QED
      BY <3>1, <3>2
  <2>4. CASE /\ \A x \in tasks : x.user # u
             /\ reputations[u] \in {Reviews!NoRecord, Reviews!Actual(u)}
    <3>1. u # t.user
      BY <2>4
    <3> QED
      BY <1>1, <1>3, <2>1, <2>4, <3>1 DEF UpToDate, SameFacts, Reviews!NoRecord
  <2> QED
    BY <2>2, <2>3, <2>4 DEF AccuracyInv, UpToDate
<1> QED
  BY <1>6, <1>7

\* The event of a run that died is owed and has no run any more; a reader's
\* run that died leaves the record missing.
LEMMA AccuracyCrash ==
  ASSUME AccuracyInv, OneRecalculationAUser, NEW t \in tasks, Reviews!Crash(t)
  PROVE  ForSomebody' /\ \A u \in Users : UpToDate(u)'
<1>1. /\ tasks' = {s \in tasks : s.for # t.for}
      /\ UNCHANGED <<outcome, reviews, owed, reputations>>
  BY DEF Reviews!Crash
<1>2. ForSomebody'
  BY <1>1 DEF AccuracyInv, ForSomebody, Reviews!UsersOf, Reviews!Participants,
              Reviews!Other, Reviews!NoRecord, Reviews!Call
<1>3. ASSUME NEW u \in Users PROVE UpToDate(u)'
  <2>1. SameFacts(u)
    BY <1>1, FactsStay
  <2>2. CASE Unstarted(u)
    <3>1. Unstarted(u)'
      BY <1>1, <2>2 DEF Unstarted, Reviews!UsersOf, Reviews!Other, Reviews!Participants
    <3> QED
      BY <3>1 DEF UpToDate
  <2>3. ASSUME NEW x \in tasks, x.user = u, x.for = t.for, x.for # Reviews!Call
        PROVE  UpToDate(u)'
    <3>1. x.for \in owed /\ u \in Reviews!UsersOf(x.for)
      BY <2>3 DEF AccuracyInv, ForSomebody
    <3>2. Unstarted(u)'
      BY <1>1, <2>3, <3>1 DEF Unstarted, Reviews!UsersOf, Reviews!Other, Reviews!Participants
    <3> QED
      BY <3>2 DEF UpToDate
  <2>4. ASSUME NEW x \in tasks, x.user = u, SeesActual(x)
        PROVE  UpToDate(u)'
    <3>1. SeesActual(x)'
      BY <2>1, <2>4 DEF SeesActual, SameFacts
    <3>2. CASE x.for # t.for
      BY <1>1, <2>4, <3>1, <3>2 DEF UpToDate
    <3>3. CASE x.for = t.for /\ x.for = Reviews!Call
      <4>1. reputations[u] = Reviews!NoRecord
        <5>1. x.for \notin owed
          BY <3>3 DEF AccuracyInv, ReviewInv, Reviews!TypeOK, Reviews!Events, Reviews!Call
        <5> QED
          BY <2>4, <5>1 DEF AccuracyInv, ForSomebody
      <4>2. \A y \in tasks' : y.user # u
        BY <1>1, <2>4, <3>3 DEF OneRecalculationAUser
      <4> QED
        BY <1>1, <4>1, <4>2 DEF UpToDate, Reviews!NoRecord
    <3> QED
      BY <2>3, <2>4, <3>2, <3>3
  <2>5. CASE /\ \A x \in tasks : x.user # u
             /\ reputations[u] \in {Reviews!NoRecord, Reviews!Actual(u)}
    BY <1>1, <2>1, <2>5 DEF UpToDate, SameFacts, Reviews!NoRecord
  <2> QED
    BY <2>2, <2>4, <2>5 DEF AccuracyInv, UpToDate
<1> QED
  BY <1>2, <1>3

LEMMA AccuracyStep ==
  ASSUME Reviews!ReputationAssumption, AccuracyInv, OneRecalculationAUser,
         [Reviews!Next]_Reviews!vars
  PROVE  AccuracyInv'
<1>1. ReviewInv' /\ OwedHappened'
  BY ReviewNext, OwedStaysHappened DEF AccuracyInv
<1>2. CASE UNCHANGED <<outcome, reviews, owed, reputations, tasks>>
  <2>1. ForSomebody'
    BY <1>2 DEF AccuracyInv, ForSomebody, Reviews!UsersOf, Reviews!Participants,
                Reviews!Other
  <2>2. ASSUME NEW u \in Users PROVE UpToDate(u)'
    BY <1>2, FactsStay, UpToDateStays DEF AccuracyInv
  <2> QED
    BY <1>1, <2>1, <2>2 DEF AccuracyInv
<1>3. ASSUME NEW b \in Bookings, Reviews!FinishBooking(b)
      PROVE  AccuracyInv'
  BY <1>1, <1>3, AccuracyFinish DEF AccuracyInv
<1>4. ASSUME NEW d \in Devices, NEW b \in Bookings,
             \/ Reviews!Submit(d, b) \/ Reviews!CheckBooking(d, b)
             \/ Reviews!CheckExisting(d, b) \/ Reviews!WriteReview(d, b)
      PROVE  AccuracyInv'
  BY <1>1, <1>4, AccuracyForms DEF AccuracyInv
<1>5. ASSUME NEW e \in owed, Reviews!HandleEvent(e)
      PROVE  AccuracyInv'
  BY <1>1, <1>5, AccuracyHandle DEF AccuracyInv
<1>6. ASSUME NEW u \in Sought, Reviews!GetUserReputation(u)
      PROVE  AccuracyInv'
  BY <1>1, <1>6, AccuracyCall DEF AccuracyInv
<1>7. ASSUME NEW t \in tasks,
             Reviews!ReadReviews(t) \/ Reviews!ReadCarried(t) \/ Reviews!ReadSent(t)
      PROVE  AccuracyInv'
  BY <1>1, <1>7, AccuracyReads DEF AccuracyInv
<1>8. ASSUME NEW t \in tasks, Reviews!WriteReputation(t) \/ Reviews!Crash(t)
      PROVE  AccuracyInv'
  BY <1>1, <1>8, AccuracyWrite, AccuracyCrash DEF AccuracyInv
<1> QED
  BY <1>2, <1>3, <1>4, <1>5, <1>6, <1>7, <1>8
     DEF Reviews!Next, Reviews!Recalculate, Reviews!vars

\* As long as no two recalculations of one user are under way together, the
\* record of a user is what the reviews and bookings say whenever every trigger
\* has been handled (ReputationService.recalculateReputation), however the
\* reads of a run interleave with new reviews and ends of bookings, whatever
\* the order of the triggers and whichever runs die: reads that fall between
\* two events are made good by the trigger of the later one.
THEOREM RecordsFollowTriggers ==
  ASSUME Reviews!ReputationAssumption
  PROVE  Reviews!Spec /\ []OneRecalculationAUser => []Reviews!ReputationAccurate
<1>1. Reviews!Init => AccuracyInv
  BY AccuracyInit
<1>2. AccuracyInv /\ OneRecalculationAUser /\ [Reviews!Next]_Reviews!vars => AccuracyInv'
  BY AccuracyStep
<1>3. AccuracyInv => Reviews!ReputationAccurate
  BY DEF AccuracyInv, UpToDate, Unstarted, Reviews!ReputationAccurate
<1> QED
  BY <1>1, <1>2, <1>3, PTL DEF Reviews!Spec

(***************************************************************************)
(* That reviews get counted.  The prover knows nothing of ENABLED, so that *)
(* what the platform owes is stated with the conditions of its actions.    *)
(***************************************************************************)
\* A review's event has one recalculation, of the subject, and that
\* recalculation counts the review as soon as it has read the reviews.
OneRunAReview == \A s, t \in tasks : s.for.kind = "review" /\ s.for = t.for => s = t

SubjectsRun ==
  \A t \in tasks : t.for.kind = "review" => t.user \in Reviews!UsersOf(t.for)

ReviewIsRead ==
  \A t \in tasks, r \in reviews :
    t.for = Reviews!ReviewEvent(r) /\ t.step # "reviews" => r \in t.seen.reviews

CountInv == ReviewInv /\ OwedHappened /\ OneRunAReview /\ SubjectsRun /\ ReviewIsRead

\* The run of an event goes on with one of its recalculations.
GoOn(e) == \E t \in tasks : t.for = e /\ Reviews!Recalculate(t)

\* The run of an event dies.
Dies(e) == \E t \in tasks : t.for = e /\ Reviews!Crash(t)

LEMMA CountInit == Reviews!ReputationAssumption /\ Reviews!Init => CountInv
BY ReviewInit DEF Reviews!Init, CountInv, OwedHappened, OneRunAReview, SubjectsRun,
                  ReviewIsRead

\* A new review concerns no recalculation there is: its event is owed only
\* from now on.
LEMMA NewReviewHasNoRun ==
  ASSUME CountInv, NEW r, Reviews!CreateAllowed(r),
         r.subject = Reviews!Other(r.reviewer, r.booking)
  PROVE  \A t \in tasks : t.for # Reviews!ReviewEvent(r)
<1> DEFINE e == Reviews!ReviewEvent(r)
<1>1. e.kind = "review" /\ e.of = r.booking /\ e.by = r.reviewer
  BY DEF Reviews!ReviewEvent
<1> HIDE DEF e
<1>2. e # Reviews!Call
  <2>1. Reviews!Call.kind = "call"
    BY DEF Reviews!Call
  <2> QED
    BY <1>1, <2>1
<1>3. \A s \in reviews : ~(s.booking = r.booking /\ s.reviewer = r.reviewer)
  BY DEF Reviews!CreateAllowed, CountInv, ReviewInv, ReviewsOfCompleted
<1>4. e \notin owed
  BY <1>1, <1>3 DEF CountInv, OwedHappened
<1> QED
  BY <1>2, <1>4 DEF CountInv, ReviewInv, Reviews!TypeOK, e

LEMMA CountStep ==
  ASSUME Reviews!ReputationAssumption, CountInv, [Reviews!Next]_Reviews!vars
  PROVE  CountInv'
<1>1. ReviewInv' /\ OwedHappened'
  BY ReviewNext, OwedStaysHappened DEF CountInv
<1>2. CASE tasks' \subseteq tasks /\ reviews' = reviews
  BY <1>1, <1>2 DEF CountInv, OneRunAReview, SubjectsRun, ReviewIsRead, Reviews!UsersOf,
                    Reviews!Other, Reviews!Participants, Reviews!ReviewEvent
<1>3. ASSUME NEW d \in Devices, NEW b \in Bookings, Reviews!WriteReview(d, b)
      PROVE  CountInv'
  <2> DEFINE r == [booking |-> b, reviewer |-> Owner[d],
                   subject |-> Reviews!Other(Owner[d], b), rating |-> forms[d][b].rating]
  <2>1. /\ tasks' = tasks
        /\ \/ reviews' = reviews \cup {r} /\ Reviews!CreateAllowed(r)
           \/ reviews' = reviews
    BY <1>3 DEF Reviews!WriteReview
  <2>2. r.subject = Reviews!Other(r.reviewer, r.booking)
    OBVIOUS
  <2> HIDE DEF r
  <2>3. CASE reviews' = reviews \cup {r} /\ Reviews!CreateAllowed(r)
    <3>1. \A t \in tasks : t.for # Reviews!ReviewEvent(r)
      BY <2>2, <2>3, NewReviewHasNoRun
    <3> QED
      BY <1>1, <2>1, <2>3, <3>1 DEF CountInv, OneRunAReview, SubjectsRun, ReviewIsRead,
           Reviews!UsersOf, Reviews!Other, Reviews!Participants, Reviews!ReviewEvent
  <2> QED
    BY <1>2, <2>1, <2>3
<1>4. ASSUME NEW e \in owed, Reviews!HandleEvent(e)
      PROVE  CountInv'
  <2> DEFINE begun == {[for |-> e, user |-> u, step |-> "reviews", seen |-> Reviews!Nothing]
                         : u \in Reviews!UsersOf(e)}
  <2>1. tasks' = tasks \cup begun /\ reviews' = reviews /\ \A t \in tasks : t.for # e
    BY <1>4 DEF Reviews!HandleEvent
  <2>2. \A t \in begun : t.for = e /\ t.user \in Reviews!UsersOf(e) /\ t.step = "reviews"
    OBVIOUS
  <2>3. e.kind = "review" => \A s, t \in begun : s = t
    BY DEF Reviews!UsersOf
  <2> HIDE DEF begun
  <2>4. OneRunAReview'
    BY <2>1, <2>2, <2>3 DEF CountInv, OneRunAReview
  <2>5. SubjectsRun' /\ ReviewIsRead'
    BY <2>1, <2>2 DEF CountInv, SubjectsRun, ReviewIsRead, Reviews!UsersOf, Reviews!Other,
                      Reviews!Participants, Reviews!ReviewEvent
  <2> QED
    BY <1>1, <2>4, <2>5 DEF CountInv
<1>5. ASSUME NEW u \in Sought, Reviews!GetUserReputation(u)
      PROVE  CountInv'
  <2> DEFINE t == [for |-> Reviews!Call, user |-> u, step |-> "reviews",
                   seen |-> Reviews!Nothing]
  <2>1. tasks' = tasks \cup {t} /\ reviews' = reviews
    BY <1>5 DEF Reviews!GetUserReputation
  <2>2. t.for.kind = "call" /\ t.step = "reviews"
    BY DEF Reviews!Call
  <2> HIDE DEF t
  <2> QED
    BY <1>1, <2>1, <2>2 DEF CountInv, OneRunAReview, SubjectsRun, ReviewIsRead,
         Reviews!UsersOf, Reviews!Other, Reviews!Participants, Reviews!ReviewEvent
<1>6. ASSUME NEW t \in tasks,
             Reviews!ReadReviews(t) \/ Reviews!ReadCarried(t) \/ Reviews!ReadSent(t)
      PROVE  CountInv'
  <2>1. t.user \in Users /\ t.seen \in Reviews!Counted /\ t \in Reviews!Task
    BY DEF CountInv, ReviewInv, Reviews!TypeOK, Reviews!Task
  <2>2. PICK s : /\ tasks' = (tasks \ {t}) \cup {s} /\ reviews' = reviews
                 /\ s.for = t.for /\ s.user = t.user
                 /\ \/ t.step = "reviews"
                       /\ s.seen.reviews = {r \in reviews : r.subject = t.user}
                    \/ t.step # "reviews" /\ s.seen.reviews = t.seen.reviews
    <3> DEFINE s(step, seen) == [t EXCEPT !.step = step, !.seen = seen]
    <3>1. \A step, seen : /\ s(step, seen).for = t.for /\ s(step, seen).user = t.user
                          /\ s(step, seen).seen = seen
      BY <2>1 DEF Reviews!Task
    <3>2. \A f : [t.seen EXCEPT !.reviews = f].reviews = f
      BY <2>1 DEF Reviews!Counted
    <3> HIDE DEF s
    <3>4. CASE Reviews!ReadReviews(t)
      <4> DEFINE seen == [t.seen EXCEPT !.reviews = {r \in reviews : r.subject = t.user}]
      <4>1. /\ tasks' = (tasks \ {t}) \cup {s("carried", seen)}
            /\ reviews' = reviews /\ t.step = "reviews"
        BY <3>4 DEF Reviews!ReadReviews, Reviews!Advance, s
      <4>2. seen.reviews = {r \in reviews : r.subject = t.user}
        BY <3>2
      <4> HIDE DEF seen
      <4>3. s("carried", seen).for = t.for /\ s("carried", seen).user = t.user
            /\ s("carried", seen).seen = seen
        BY <3>1
      <4> QED
        BY <4>1, <4>2, <4>3
    <3>5. ASSUME NEW step, NEW who, t.step # "reviews",
                 Reviews!Advance(t, step, [t.seen EXCEPT
                   !.completed = @ \cup Reviews!Ended(t.user, who, "completed"),
                   !.cancelled = @ \cup Reviews!Ended(t.user, who, "cancelled")])
          PROVE  \E z : /\ tasks' = (tasks \ {t}) \cup {z} /\ reviews' = reviews
                        /\ z.for = t.for /\ z.user = t.user
                        /\ z.seen.reviews = t.seen.reviews
      <4> DEFINE seen == [t.seen EXCEPT
                   !.completed = @ \cup Reviews!Ended(t.user, who, "completed"),
                   !.cancelled = @ \cup Reviews!Ended(t.user, who, "cancelled")]
      <4>1. tasks' = (tasks \ {t}) \cup {s(step, seen)} /\ reviews' = reviews
        BY <3>5 DEF Reviews!Advance, s
      <4>2. seen.reviews = t.seen.reviews
        BY <2>1 DEF Reviews!Counted
      <4> HIDE DEF seen
      <4>3. s(step, seen).for = t.for /\ s(step, seen).user = t.user
            /\ s(step, seen).seen = seen
        BY <3>1
      <4> QED
        BY <4>1, <4>2, <4>3
    <3>6. CASE Reviews!ReadCarried(t)
      BY <3>5, <3>6 DEF Reviews!ReadCarried
    <3>7. CASE Reviews!ReadSent(t)
      BY <3>5, <3>7 DEF Reviews!ReadSent
    <3> QED
      BY <1>6, <3>4, <3>6, <3>7
  <2>3. OneRunAReview'
    BY <2>2 DEF CountInv, OneRunAReview
  <2>6. SubjectsRun'
    BY <2>2 DEF CountInv, SubjectsRun, Reviews!UsersOf, Reviews!Other,
                Reviews!Participants
  <2>4. ASSUME NEW r \in reviews, t.for = Reviews!ReviewEvent(r)
        PROVE  r \in s.seen.reviews
    <3>1. r.subject = t.user
      <4>1. t.for.kind = "review" /\ t.for.of = r.booking /\ t.for.by = r.reviewer
        BY <2>4 DEF Reviews!ReviewEvent
      <4> QED
        BY <4>1 DEF CountInv, SubjectsRun, Reviews!UsersOf, ReviewInv, ReviewsOfCompleted
    <3>2. t.step # "reviews" => r \in t.seen.reviews
      BY <2>4 DEF CountInv, ReviewIsRead
    <3> QED
      BY <2>2, <3>1, <3>2
  <2>5. ReviewIsRead'
    BY <2>2, <2>4 DEF CountInv, ReviewIsRead, Reviews!ReviewEvent
  <2> QED
    BY <1>1, <2>3, <2>5, <2>6 DEF CountInv
<1>7. ASSUME NEW t \in tasks, Reviews!WriteReputation(t) \/ Reviews!Crash(t)
      PROVE  CountInv'
  BY <1>2, <1>7 DEF Reviews!WriteReputation, Reviews!Crash
<1>8. ASSUME \/ \E b \in Bookings : Reviews!FinishBooking(b)
             \/ \E d \in Devices, b \in Bookings :
                  \/ Reviews!Submit(d, b) \/ Reviews!CheckBooking(d, b)
                  \/ Reviews!CheckExisting(d, b)
             \/ UNCHANGED Reviews!vars
      PROVE  CountInv'
  BY <1>2, <1>8 DEF Reviews!FinishBooking, Reviews!Submit, Reviews!CheckBooking,
                    Reviews!CheckExisting, Reviews!vars
<1> QED
  BY <1>3, <1>4, <1>5, <1>6, <1>7, <1>8 DEF Reviews!Next, Reviews!Recalculate

\* The event of a review, and where its handling stands
EventOf(b, u) == [kind |-> "review", of |-> b, by |-> u]

Untouched(e) == e \in owed /\ \A t \in tasks : t.for # e
At(e, step) == e \in owed /\ \E t \in tasks : t.for = e /\ t.step = step

ReviewOwed(b, u) ==
  \E r \in reviews : r.booking = b /\ r.reviewer = u /\ Reviews!ReviewEvent(r) \in owed

ReviewCounted(b, u) ==
  \E r \in reviews : /\ r.booking = b /\ r.reviewer = u
                     /\ reputations[r.subject] # Reviews!NoRecord
                     /\ r \in reputations[r.subject].reviews

\* What a run of a review's event does: one reading, or the write, which counts
\* the review.
LEMMA RunGoesOn ==
  ASSUME CountInv, NEW b \in Bookings, NEW u \in Users, EventOf(b, u) \in owed,
         GoOn(EventOf(b, u))
  PROVE  \/ At(EventOf(b, u), "reviews") /\ At(EventOf(b, u), "carried")'
         \/ At(EventOf(b, u), "carried") /\ At(EventOf(b, u), "sent")'
         \/ At(EventOf(b, u), "sent") /\ At(EventOf(b, u), "write")'
         \/ At(EventOf(b, u), "write") /\ ReviewCounted(b, u)'
<1>1. PICK e : e = EventOf(b, u)
  OBVIOUS
<1>2. e.kind = "review" /\ e.of = b /\ e.by = u
  BY <1>1 DEF EventOf
<1>3. PICK t \in tasks : t.for = e /\ Reviews!Recalculate(t)
  BY <1>1 DEF GoOn
<1>4. t \in Reviews!Task /\ t.user \in Users
  BY DEF CountInv, ReviewInv, Reviews!TypeOK, Reviews!Task
<1>5. ASSUME NEW step, NEW seen, Reviews!Advance(t, step, seen)
      PROVE  At(e, step)'
  <2> DEFINE s == [t EXCEPT !.step = step, !.seen = seen]
  <2>1. s.for = e /\ s.step = step
    BY <1>3, <1>4 DEF Reviews!Task
  <2>2. s \in tasks' /\ owed' = owed
    BY <1>5 DEF Reviews!Advance
  <2> HIDE DEF s
  <2> QED
    BY <1>1, <2>1, <2>2 DEF At
<1>6. CASE Reviews!ReadReviews(t)
  BY <1>1, <1>3, <1>5, <1>6 DEF Reviews!ReadReviews, At
<1>7. CASE Reviews!ReadCarried(t)
  BY <1>1, <1>3, <1>5, <1>7 DEF Reviews!ReadCarried, At
<1>8. CASE Reviews!ReadSent(t)
  BY <1>1, <1>3, <1>5, <1>8 DEF Reviews!ReadSent, At
<1>9. CASE Reviews!WriteReputation(t)
  <2>1. /\ t.step = "write" /\ reputations' = [reputations EXCEPT ![t.user] = t.seen]
        /\ reviews' = reviews
    BY <1>9 DEF Reviews!WriteReputation
  <2>2. PICK r \in reviews : r.booking = b /\ r.reviewer = u
    BY <1>1, <1>2 DEF CountInv, OwedHappened
  <2>3. t.for = Reviews!ReviewEvent(r)
    BY <1>1, <1>3, <2>2 DEF EventOf, Reviews!ReviewEvent
  <2>4. r \in t.seen.reviews
    BY <2>1, <2>3 DEF CountInv, ReviewIsRead
  <2>5. r.subject = t.user
    BY <1>2, <1>3, <2>2 DEF CountInv, SubjectsRun, Reviews!UsersOf, ReviewInv,
                            ReviewsOfCompleted
  <2>6. reputations'[r.subject] = t.seen
    BY <1>4, <2>1, <2>5 DEF CountInv, ReviewInv, Reviews!TypeOK
  <2>7. t.seen # Reviews!NoRecord
    <3>1. t.seen \in Reviews!Counted
      BY <1>4 DEF Reviews!Task
    <3> QED
      BY <3>1 DEF Reviews!Counted, Reviews!NoRecord
  <2>8. ReviewCounted(b, u)'
    BY <2>1, <2>2, <2>4, <2>6, <2>7 DEF ReviewCounted, Reviews!NoRecord
  <2> QED
    BY <1>1, <1>3, <2>1, <2>8 DEF At
<1> QED
  BY <1>3, <1>6, <1>7, <1>8, <1>9 DEF Reviews!Recalculate

\* What a step does to an event that is owed: nothing, or it is handed to a run,
\* or its run goes on or dies.
LEMMA EventSteps ==
  ASSUME CountInv, NEW e \in owed, [Reviews!Next]_Reviews!vars
  PROVE  \/ Untouched(e) /\ Untouched(e)'
         \/ /\ \A s \in {"reviews", "carried", "sent", "write"} : At(e, s) => At(e, s)'
            /\ ~Untouched(e)
         \/ Reviews!HandleEvent(e)
         \/ GoOn(e)
         \/ Dies(e) /\ Untouched(e)'
<1>1. CASE /\ e \in owed'
           /\ \A t \in tasks : t.for = e => t \in tasks'
           /\ \A t \in tasks' : t.for = e => t \in tasks
  BY <1>1 DEF Untouched, At
<1>2. ASSUME NEW f \in owed, Reviews!HandleEvent(f), f # e
      PROVE  /\ e \in owed'
             /\ \A t \in tasks : t.for = e => t \in tasks'
             /\ \A t \in tasks' : t.for = e => t \in tasks
  BY <1>2 DEF Reviews!HandleEvent
<1>3. ASSUME NEW t \in tasks, Reviews!Recalculate(t), t.for # e
      PROVE  /\ e \in owed'
             /\ \A x \in tasks : x.for = e => x \in tasks'
             /\ \A x \in tasks' : x.for = e => x \in tasks
  <2>1. t \in Reviews!Task
    BY DEF CountInv, ReviewInv, Reviews!TypeOK
  <2>2. ASSUME NEW step, NEW seen, Reviews!Advance(t, step, seen)
        PROVE  /\ owed' = owed /\ \E s : s.for = t.for /\ tasks' = (tasks \ {t}) \cup {s}
    <3> DEFINE s == [t EXCEPT !.step = step, !.seen = seen]
    <3>1. s.for = t.for
      BY <2>1 DEF Reviews!Task
    <3>2. owed' = owed /\ tasks' = (tasks \ {t}) \cup {s}
      BY <2>2 DEF Reviews!Advance
    <3> HIDE DEF s
    <3> QED
      BY <3>1, <3>2
  <2>3. CASE Reviews!ReadReviews(t)
    BY <1>3, <2>2, <2>3 DEF Reviews!ReadReviews
  <2>4. CASE Reviews!ReadCarried(t)
    BY <1>3, <2>2, <2>4 DEF Reviews!ReadCarried
  <2>5. CASE Reviews!ReadSent(t)
    BY <1>3, <2>2, <2>5 DEF Reviews!ReadSent
  <2>6. CASE Reviews!WriteReputation(t)
    BY <1>3, <2>6 DEF Reviews!WriteReputation
  <2> QED
    BY <1>3, <2>3, <2>4, <2>5, <2>6 DEF Reviews!Recalculate
<1>4. ASSUME NEW t \in tasks, Reviews!Crash(t)
      PROVE  \/ Dies(e) /\ Untouched(e)'
             \/ /\ e \in owed'
                /\ \A x \in tasks : x.for = e => x \in tasks'
                /\ \A x \in tasks' : x.for = e => x \in tasks
  BY <1>4 DEF Reviews!Crash, Dies, Untouched
<1>5. ASSUME NEW u \in Sought, Reviews!GetUserReputation(u)
      PROVE  /\ e \in owed'
             /\ \A x \in tasks : x.for = e => x \in tasks'
             /\ \A x \in tasks' : x.for = e => x \in tasks
  <2>1. e # Reviews!Call
    BY DEF CountInv, ReviewInv, Reviews!TypeOK, Reviews!Events, Reviews!Call
  <2> QED
    BY <1>5, <2>1 DEF Reviews!GetUserReputation
<1>6. ASSUME \/ \E b \in Bookings : Reviews!FinishBooking(b)
             \/ \E d \in Devices, b \in Bookings :
                  \/ Reviews!Submit(d, b) \/ Reviews!CheckBooking(d, b)
                  \/ Reviews!CheckExisting(d, b) \/ Reviews!WriteReview(d, b)
             \/ UNCHANGED Reviews!vars
      PROVE  e \in owed' /\ tasks' = tasks
  BY <1>6 DEF Reviews!FinishBooking, Reviews!Submit, Reviews!CheckBooking,
              Reviews!CheckExisting, Reviews!WriteReview, Reviews!vars
<1>7. CASE Reviews!HandleEvent(e)
  BY <1>7
<1>8. CASE GoOn(e)
  BY <1>8
<1> QED
  BY <1>1, <1>2, <1>3, <1>4, <1>5, <1>6, <1>7, <1>8 DEF Reviews!Next, GoOn

\* From some time on no run of an event dies, as when there are finitely many
\* crashes.
CrashesEnd(e) == <>[][~Dies(e)]_Reviews!vars

\* The platform delivers an event that is owed, again and again until its
\* handler succeeds, and a run that was started goes on: what weak fairness
\* says of the two actions, with the conditions under which they can be taken
\* in the place of ENABLED.
Handled(e) ==
  /\ []<>~Untouched(e) \/ []<><<Reviews!HandleEvent(e)>>_Reviews!vars
  /\ []<>(\A t \in tasks : t.for # e) \/ []<><<GoOn(e)>>_Reviews!vars

\* One step of the system, seen from an event that is owed
LEMMA HandlingMoves ==
  ASSUME Reviews!ReputationAssumption, NEW e \in Reviews!Events, e.kind = "review",
         CountInv, e \in owed, [Reviews!Next]_Reviews!vars
  PROVE  /\ Untouched(e) => Untouched(e)' \/ At(e, "reviews")'
         /\ Reviews!HandleEvent(e) => At(e, "reviews")'
         /\ At(e, "reviews") =>
              \/ At(e, "reviews")' \/ At(e, "carried")'
              \/ Untouched(e)' /\ Dies(e)
         /\ At(e, "carried") =>
              \/ At(e, "carried")' \/ At(e, "sent")'
              \/ Untouched(e)' /\ Dies(e)
         /\ At(e, "sent") =>
              \/ At(e, "sent")' \/ At(e, "write")'
              \/ Untouched(e)' /\ Dies(e)
         /\ At(e, "write") =>
              \/ At(e, "write")' \/ ReviewCounted(e.of, e.by)'
              \/ Untouched(e)' /\ Dies(e)
         /\ GoOn(e) => /\ At(e, "reviews") => At(e, "carried")'
                       /\ At(e, "carried") => At(e, "sent")'
                       /\ At(e, "sent") => At(e, "write")'
                       /\ At(e, "write") => ReviewCounted(e.of, e.by)'
<1>1. e = EventOf(e.of, e.by) /\ e.of \in Bookings /\ e.by \in Users
  BY DEF EventOf, Reviews!Events
<1>2. /\ \A s, z : At(e, s) /\ At(e, z) => s = z
      /\ \A s : ~(Untouched(e) /\ At(e, s))
  BY DEF CountInv, OneRunAReview, At, Untouched
<1>3. Reviews!HandleEvent(e) => Untouched(e) /\ At(e, "reviews")'
  <2> SUFFICES ASSUME Reviews!HandleEvent(e) PROVE Untouched(e) /\ At(e, "reviews")'
    OBVIOUS
  <2>1. PICK v : v \in Reviews!UsersOf(e)
    BY DEF Reviews!UsersOf
  <2> DEFINE begun(x) == [for |-> e, user |-> x, step |-> "reviews", seen |-> Reviews!Nothing]
  <2>2. begun(v).for = e /\ begun(v).step = "reviews" /\ begun(v) \in tasks'
    BY <2>1 DEF Reviews!HandleEvent
  <2>3. /\ owed' = owed /\ \A t \in tasks : t.for # e
    BY DEF Reviews!HandleEvent
  <2> HIDE DEF begun
  <2> QED
    BY <2>2, <2>3 DEF Untouched, At
<1>4. GoOn(e) => \/ At(e, "reviews") /\ At(e, "carried")'
                 \/ At(e, "carried") /\ At(e, "sent")'
                 \/ At(e, "sent") /\ At(e, "write")'
                 \/ At(e, "write") /\ ReviewCounted(e.of, e.by)'
  BY <1>1, RunGoesOn
<1>5. \/ Untouched(e) /\ Untouched(e)'
      \/ /\ \A s \in {"reviews", "carried", "sent", "write"} : At(e, s) => At(e, s)'
         /\ ~Untouched(e)
      \/ Reviews!HandleEvent(e)
      \/ GoOn(e)
      \/ Dies(e) /\ Untouched(e)'
  BY EventSteps
<1> QED
  BY <1>2, <1>3, <1>4, <1>5

\* A review whose trigger is owed enters the record of its subject, although
\* runs of the server die and whatever else is recalculated meanwhile
\* (ReputationService.recalculateReputation): the start of a run and each of its
\* three readings lead to the next, and the run that writes has read the review.
THEOREM ReviewsEnterRecords ==
  ASSUME Reviews!ReputationAssumption, NEW e \in Reviews!Events, e.kind = "review"
  PROVE  Reviews!Spec /\ CrashesEnd(e) /\ Handled(e)
           => (ReviewOwed(e.of, e.by) ~> ReviewCounted(e.of, e.by))
<1> DEFINE N == CountInv /\ Untouched(e)
           R == CountInv /\ At(e, "reviews")
           C == CountInv /\ At(e, "carried")
           S == CountInv /\ At(e, "sent")
           W == CountInv /\ At(e, "write")
           Q == ReviewCounted(e.of, e.by)
           NoCrash == ~Dies(e)
           Handle == Reviews!HandleEvent(e)
           Go == GoOn(e)
           NoRun == \A t \in tasks : t.for # e
           U == Untouched(e)
<1>1. Reviews!Init => CountInv
  BY CountInit
<1>2. CountInv /\ [Reviews!Next]_Reviews!vars => CountInv'
  BY CountStep
<1>3. CountInv /\ ReviewOwed(e.of, e.by) => N \/ R \/ C \/ S \/ W
  <2> SUFFICES ASSUME CountInv, ReviewOwed(e.of, e.by) PROVE N \/ R \/ C \/ S \/ W
    OBVIOUS
  <2>1. e \in owed
    BY DEF ReviewOwed, Reviews!Events, Reviews!ReviewEvent
  <2>2. \A t \in tasks : t.step \in {"reviews", "carried", "sent", "write"}
    BY DEF CountInv, ReviewInv, Reviews!TypeOK, Reviews!Task
  <2> QED
    BY <2>1, <2>2 DEF Untouched, At
<1>4. /\ N => U
      /\ R \/ C \/ S \/ W => ~NoRun
  BY DEF At
<1>5. ASSUME N \/ R \/ C \/ S \/ W, [Reviews!Next]_Reviews!vars
      PROVE  /\ CountInv' /\ CountInv /\ e \in owed
             /\ Untouched(e) => Untouched(e)' \/ At(e, "reviews")'
             /\ Handle => At(e, "reviews")'
             /\ R => At(e, "reviews")' \/ At(e, "carried")' \/ (~NoCrash /\ Untouched(e)')
             /\ C => At(e, "carried")' \/ At(e, "sent")' \/ (~NoCrash /\ Untouched(e)')
             /\ S => At(e, "sent")' \/ At(e, "write")' \/ (~NoCrash /\ Untouched(e)')
             /\ W => At(e, "write")' \/ Q' \/ (~NoCrash /\ Untouched(e)')
             /\ Go => /\ R => At(e, "carried")'
                      /\ C => At(e, "sent")'
                      /\ S => At(e, "write")'
                      /\ W => Q'
  <2>1. CountInv /\ CountInv' /\ e \in owed
    BY <1>2, <1>5 DEF Untouched, At
  <2> QED
    BY <1>5, <2>1, HandlingMoves
<1>6. /\ N /\ [Reviews!Next]_Reviews!vars => N' \/ R'
      /\ N /\ [Reviews!Next]_Reviews!vars /\ <<Handle>>_Reviews!vars => R'
      /\ R /\ [Reviews!Next]_Reviews!vars => R' \/ C' \/ N'
      /\ C /\ [Reviews!Next]_Reviews!vars => C' \/ S' \/ N'
      /\ S /\ [Reviews!Next]_Reviews!vars => S' \/ W' \/ N'
      /\ W /\ [Reviews!Next]_Reviews!vars => W' \/ Q' \/ N'
  BY <1>5
<1>7. /\ R /\ [Reviews!Next]_Reviews!vars /\ [NoCrash]_Reviews!vars => R' \/ C'
      /\ C /\ [Reviews!Next]_Reviews!vars /\ [NoCrash]_Reviews!vars => C' \/ S'
      /\ S /\ [Reviews!Next]_Reviews!vars /\ [NoCrash]_Reviews!vars => S' \/ W'
      /\ W /\ [Reviews!Next]_Reviews!vars /\ [NoCrash]_Reviews!vars => W' \/ Q'
  <2>1. CASE NoCrash
    BY <1>5, <2>1
  <2>2. CASE UNCHANGED Reviews!vars
    <3>1. owed' = owed /\ tasks' = tasks
      BY <2>2 DEF Reviews!vars
    <3>2. \A s : At(e, s) => At(e, s)'
      BY <3>1 DEF At
    <3> QED
      BY <1>2, <2>2, <3>2
  <2> QED
    BY <2>1, <2>2
<1>8. /\ R /\ [Reviews!Next]_Reviews!vars /\ <<Go>>_Reviews!vars => C'
      /\ C /\ [Reviews!Next]_Reviews!vars /\ <<Go>>_Reviews!vars => S'
      /\ S /\ [Reviews!Next]_Reviews!vars /\ <<Go>>_Reviews!vars => W'
      /\ W /\ [Reviews!Next]_Reviews!vars /\ <<Go>>_Reviews!vars => Q'
  BY <1>5
<1>9. /\ CrashesEnd(e) => <>[][NoCrash]_Reviews!vars
      /\ Handled(e) => /\ []<>~U \/ []<><<Handle>>_Reviews!vars
                       /\ []<>NoRun \/ []<><<Go>>_Reviews!vars
  BY DEF CrashesEnd, Handled
<1> HIDE DEF N, R, C, S, W, Q, NoCrash, Handle, Go, NoRun, U
<1>10. Reviews!Spec /\ CrashesEnd(e) /\ Handled(e) => (ReviewOwed(e.of, e.by) ~> Q)
  BY <1>1, <1>2, <1>3, <1>4, <1>6, <1>7, <1>8, <1>9, PTL DEF Reviews!Spec
<1> QED
  BY <1>10 DEF Q

-----------------------------------------------------------------------------
(***************************************************************************)
(* Requests for bookings.                                                  *)
(***************************************************************************)
\* The match a press under way is about.
MatchOf(c) == IF call[c].at = "reading" THEN call[c].on ELSE call[c].on[1]

\* Two presses for one match do not overlap.  (The button is there until the
\* device's storage has been read: a second press in that gap is a press of
\* its own, see the README.)
OnePressAMatch ==
  \A c, d \in Tap :
    /\ call[c].at # "idle" /\ call[d].at # "idle" /\ MatchOf(c) = MatchOf(d)
    => c = d

\* Request number `k` of a match has a booking under operation `b`, or a call
\* that may still make one.
Asked(b, k) ==
  \/ requestOf[b] = k
  \/ \E x \in stray : x.does = "request" /\ x.on = b /\ x.req = k

\* A request is made under one operation; the present one under the operation
\* that the device keeps.
OneOperation ==
  /\ \A a, b \in Calls!Bkg, k \in Nat \ {0} :
       Asked(a, k) /\ Asked(b, k) /\ a[1] = b[1] => a = b
  /\ \A b \in Calls!Bkg, k \in Nat \ {0} :
       Asked(b, k) => k <= started[b[1]] /\ (k = started[b[1]] => opStored[b[1]] = b[2])

\* A call that was sent is about the operation that the device keeps, and so
\* is the one the screen keeps as soon as it is stored.
KeptOnDevice ==
  /\ \A c \in Tap :
       /\ call[c].at \in {"called", "served"} => opStored[call[c].on[1]] = call[c].on[2]
       /\ call[c].at = "storing" =>
            opStored[call[c].on[1]] \in {Calls!NoOp, call[c].on[2]} /\ call[c].on[2] <= opFresh
  /\ \A t \in Trip : opStored[t] <= opFresh
  /\ \A t \in Trip :
       opRef[t] # Calls!NoOp =>
         \/ opRef[t] = opStored[t]
         \/ \E c \in Tap : call[c].at = "storing" /\ call[c].on = <<t, opRef[t]>>

Reading == {c \in Tap : call[c].at = "reading"}

\* A press makes a request, a participant's card a step.
Shape(c, r) ==
  /\ r \in Calls!CallState
  /\ r.at = "served" => r.result \in Calls!Bkg
  /\ c \in Tap =>
       /\ r.does = "request" /\ r.at # "checking"
       /\ r.at = "reading" => r.on \in Trip
       /\ r.at \in {"storing", "called", "served"} => r.on \in Calls!Bkg
  /\ c \in Calls!Actor =>
       \/ r.at = "idle"
       \/ /\ r.at \in {"checking", "called", "served"}
          /\ r.does \in Calls!Step /\ r.on \in Calls!Bkg

ServerTypes ==
  /\ booking \in [Calls!Bkg -> Calls!Status] /\ requestOf \in [Calls!Bkg -> Nat]
  /\ started \in [Trip -> Nat \ {0}]
  /\ \A x \in stray : /\ x.on \in Calls!Bkg /\ x.req \in Nat
                      /\ x.does \in Calls!Does
                      /\ x.does = "request" => x.req # 0
  /\ presses \in 0..MaxPresses /\ homeRestarts \in 0..MaxRestarts

HomeTypes ==
  /\ optimistic \in [Trip -> {"none", "pending", "confirmed"}]
  /\ opRef \in [Trip -> Calls!Op \cup {Calls!NoOp}]
  /\ opStored \in [Trip -> Calls!Op \cup {Calls!NoOp}]
  /\ opFresh \in 0..MaxRequests /\ message \in {"none", "sent", "error"}

\* There are operation ids left for the presses that have yet to take one.
CallTypes ==
  /\ ServerTypes /\ HomeTypes
  /\ call \in [Calls!Caller -> Calls!CallState]
  /\ \A c \in Calls!Caller : Shape(c, call[c])
  /\ opFresh + Cardinality(Reading) <= MaxRequests

CallInv == CallTypes /\ OneOperation /\ KeptOnDevice

LEMMA CallTypesRight == CallTypes => Calls!TypeOK
BY DEF CallTypes, ServerTypes, HomeTypes, Calls!TypeOK

\* Whatever a step asks for is the present request, under the operation that
\* the device keeps.
AsksAsKept ==
  \A b \in Calls!Bkg, k \in Nat \ {0} :
    Asked(b, k)' =>
      \/ Asked(b, k)
      \/ k = started[b[1]] /\ opStored[b[1]] = b[2]

LEMMA TapFinite == Calls!CallsAssumption => IsFiniteSet(Tap)
BY DEF Calls!CallsAssumption, Calls!IsFiniteSet, IsFiniteSet

LEMMA ReadingFinite ==
  ASSUME IsFiniteSet(Tap)
  PROVE  /\ IsFiniteSet(Reading) /\ Cardinality(Reading) \in Nat
         /\ Cardinality(Tap) \in Nat /\ Cardinality(Reading) <= Cardinality(Tap)
BY FS_Subset, FS_CardinalityType DEF Reading

\* A request gets no second operation as long as a new call or booking is
\* under the operation on the device, and the device keeps what it has.
LEMMA OneOperationKept ==
  ASSUME CallInv, UNCHANGED started,
         \A t \in Trip : opStored[t] # Calls!NoOp => opStored'[t] = opStored[t],
         AsksAsKept
  PROVE  OneOperation'
<1>1. \A b \in Calls!Bkg : /\ b[1] \in Trip /\ b[2] \in Calls!Op /\ b[2] # Calls!NoOp
                           /\ b = <<b[1], b[2]>>
  BY DEF Calls!Bkg, Calls!Op, Calls!NoOp
<1>2. \A b \in Calls!Bkg, k \in Nat \ {0} :
        Asked(b, k)' => k <= started[b[1]] /\ (k = started[b[1]] => opStored[b[1]] = b[2])
  <2> SUFFICES ASSUME NEW b \in Calls!Bkg, NEW k \in Nat \ {0}, Asked(b, k)'
               PROVE  k <= started[b[1]] /\ (k = started[b[1]] => opStored[b[1]] = b[2])
    OBVIOUS
  <2>1. CASE Asked(b, k)
    BY <2>1 DEF CallInv, OneOperation
  <2>2. CASE k = started[b[1]] /\ opStored[b[1]] = b[2]
    BY <1>1, <2>2 DEF CallInv, CallTypes, ServerTypes
  <2> QED
    BY <2>1, <2>2 DEF AsksAsKept
<1>3. \A a, b \in Calls!Bkg, k \in Nat \ {0} :
        Asked(a, k)' /\ Asked(b, k)' /\ a[1] = b[1] => a = b
  <2> SUFFICES ASSUME NEW a \in Calls!Bkg, NEW b \in Calls!Bkg, NEW k \in Nat \ {0},
                      Asked(a, k)', Asked(b, k)', a[1] = b[1]
               PROVE  a = b
    OBVIOUS
  <2>1. CASE Asked(a, k) /\ Asked(b, k)
    BY <2>1 DEF CallInv, OneOperation
  <2>2. CASE ~(Asked(a, k) /\ Asked(b, k))
    <3>1. k = started[a[1]]
      BY <2>2 DEF AsksAsKept
    <3>2. opStored[a[1]] = a[2] /\ opStored[b[1]] = b[2]
      BY <1>2, <3>1
    <3> QED
      BY <1>1, <3>2
  <2> QED
    BY <2>1, <2>2
<1>4. \A b \in Calls!Bkg, k \in Nat \ {0} :
        Asked(b, k)' => k <= started'[b[1]] /\ (k = started'[b[1]] => opStored'[b[1]] = b[2])
  BY <1>1, <1>2
<1> QED
  BY <1>3, <1>4 DEF OneOperation

LEMMA NothingAsked ==
  ASSUME UNCHANGED requestOf, \A x \in stray' : x \in stray \/ x.does # "request"
  PROVE  AsksAsKept
<1>1. ASSUME NEW b, NEW k, Asked(b, k)' PROVE Asked(b, k)
  <2>1. CASE requestOf'[b] = k
    BY <2>1 DEF Asked
  <2>2. CASE \E x \in stray' : x.does = "request" /\ x.on = b /\ x.req = k
    BY <2>2 DEF Asked
  <2> QED
    BY <1>1, <2>1, <2>2 DEF Asked
<1> QED
  BY <1>1 DEF AsksAsKept

\* A press begins from nothing.
LEMMA IdleCall ==
  /\ Calls!Idle \in Calls!CallState
  /\ Calls!Idle.at = "idle" /\ Calls!Idle.does = "request"
BY DEF Calls!Idle, Calls!CallState, Calls!Does, Calls!Status, Calls!NoBooking

LEMMA RequestCall ==
  ASSUME NEW a \in {"reading", "called"}, NEW b \in Calls!Bkg \cup Trip
  PROVE  LET r == [Calls!Idle EXCEPT !.at = a, !.on = b]
         IN  r \in Calls!CallState /\ r.at = a /\ r.does = "request" /\ r.on = b
BY IdleCall DEF Calls!CallState

LEMMA CheckingCall ==
  ASSUME NEW s \in Calls!Does, NEW b \in Calls!Bkg
  PROVE  LET r == [Calls!Idle EXCEPT !.at = "checking", !.does = s, !.on = b]
         IN  r \in Calls!CallState /\ r.at = "checking" /\ r.does = s /\ r.on = b
BY IdleCall DEF Calls!CallState

\* One call changes.
LEMMA OneCall ==
  ASSUME CallTypes, NEW c \in Calls!Caller, NEW r, Shape(c, r),
         call' = [call EXCEPT ![c] = r]
  PROVE  /\ call' \in [Calls!Caller -> Calls!CallState] /\ call'[c] = r
         /\ \A d \in Calls!Caller \ {c} : call'[d] = call[d]
         /\ \A d \in Calls!Caller : Shape(d, call'[d])
<1>1. r \in Calls!CallState
  BY DEF Shape
<1>2. /\ call' \in [Calls!Caller -> Calls!CallState] /\ call'[c] = r
      /\ \A d \in Calls!Caller \ {c} : call'[d] = call[d]
  BY <1>1 DEF CallTypes
<1>3. \A d \in Calls!Caller : Shape(d, call'[d])
  BY <1>2 DEF CallTypes
<1> QED
  BY <1>2, <1>3

LEMMA ReadingShrinks ==
  ASSUME IsFiniteSet(Tap), Reading' \subseteq Reading
  PROVE  Cardinality(Reading') \in Nat /\ Cardinality(Reading') <= Cardinality(Reading)
BY ReadingFinite, FS_Subset, FS_CardinalityType

\* A step of one caller whose call goes on about what it was about, or ends.
LEMMA QuietStep ==
  ASSUME Calls!CallsAssumption, CallInv, NEW c \in Calls!Caller, NEW r, Shape(c, r),
         call' = [call EXCEPT ![c] = r], ServerTypes', HomeTypes',
         UNCHANGED <<opRef, opStored, opFresh, started>>, AsksAsKept,
         c \in Tap =>
           /\ call[c].at \in {"called", "served"}
           /\ r.at = "idle" \/ (r.at \in {"called", "served"} /\ r.on = call[c].on)
  PROVE  CallInv'
<1>1. /\ call' \in [Calls!Caller -> Calls!CallState] /\ call'[c] = r
      /\ \A d \in Calls!Caller \ {c} : call'[d] = call[d]
      /\ \A d \in Calls!Caller : Shape(d, call'[d])
  BY OneCall DEF CallInv
<1>2. Tap \subseteq Calls!Caller
  BY DEF Calls!Caller
<1>3. Reading' \subseteq Reading
  BY <1>1, <1>2 DEF Reading
<1>4. opFresh' + Cardinality(Reading') <= MaxRequests
  BY <1>3, ReadingShrinks, ReadingFinite, TapFinite
     DEF CallInv, CallTypes, HomeTypes, Calls!CallsAssumption
<1>5. CallTypes'
  BY <1>1, <1>4 DEF CallTypes
<1>6. OneOperation'
  BY OneOperationKept
<1>7. KeptOnDevice'
  <2>1. \A d \in Tap :
           /\ call'[d].at \in {"called", "served"} =>
                call[d].at \in {"called", "served"} /\ call'[d].on = call[d].on
           /\ call'[d].at = "storing" \/ call[d].at = "storing" => call'[d] = call[d]
    BY <1>1, <1>2
  <2>2. KeptOnDevice /\ opRef' = opRef /\ opStored' = opStored /\ opFresh' = opFresh
    BY DEF CallInv
  <2>3. \A d \in Tap :
           /\ call'[d].at \in {"called", "served"} => opStored'[call'[d].on[1]] = call'[d].on[2]
           /\ call'[d].at = "storing" =>
                /\ opStored'[call'[d].on[1]] \in {Calls!NoOp, call'[d].on[2]}
                /\ call'[d].on[2] <= opFresh'
    BY <2>1, <2>2 DEF KeptOnDevice
  <2>4. \A t \in Trip :
          /\ opStored'[t] <= opFresh'
          /\ opRef'[t] # Calls!NoOp =>
               \/ opRef'[t] = opStored'[t]
               \/ \E d \in Tap : call'[d].at = "storing" /\ call'[d].on = <<t, opRef'[t]>>
    <3> SUFFICES ASSUME NEW t \in Trip, opRef'[t] # Calls!NoOp, opRef'[t] # opStored'[t]
                 PROVE  \E d \in Tap : call'[d].at = "storing" /\ call'[d].on = <<t, opRef'[t]>>
      BY <2>2 DEF KeptOnDevice
    <3>1. PICK d \in Tap : call[d].at = "storing" /\ call[d].on = <<t, opRef[t]>>
      BY <2>2 DEF KeptOnDevice
    <3>2. call'[d] = call[d]
      BY <2>1, <3>1
    <3> QED
      BY <2>2, <3>1, <3>2
  <2> QED
    BY <2>3, <2>4 DEF KeptOnDevice
<1> QED
  BY <1>5, <1>6, <1>7 DEF CallInv

\* A call that fails is over.
LEMMA FailedCall ==
  ASSUME CallTypes, NEW c \in Calls!Caller, Calls!FailCall(c),
         call[c].at \in {"checking", "called", "served"}
  PROVE  /\ HomeTypes' /\ UNCHANGED <<opRef, opStored, opFresh>>
         /\ call' = [call EXCEPT ![c] = Calls!Idle]
         /\ Shape(c, Calls!Idle) /\ Calls!Idle.at = "idle"
<1>1. Shape(c, Calls!Idle) /\ Calls!Idle.at = "idle"
  BY DEF Shape, Calls!Idle, Calls!CallState, Calls!Does, Calls!Status, Calls!NoBooking
<1>2. UNCHANGED <<opRef, opStored, opFresh>> /\ call' = [call EXCEPT ![c] = Calls!Idle]
  BY DEF Calls!FailCall
<1>3. CASE c \in Tap
  <2>1. call[c].on[1] \in Trip
    BY <1>3 DEF CallTypes, Shape, Calls!Bkg
  <2>2. /\ optimistic' = [optimistic EXCEPT ![call[c].on[1]] = "none"]
        /\ message' = "error"
    BY <1>3 DEF Calls!FailCall
  <2>3. HomeTypes'
    BY <1>2, <2>1, <2>2 DEF CallTypes, HomeTypes, Calls!Op
  <2> QED
    BY <1>1, <1>2, <2>3
<1>4. CASE c \notin Tap
  <2>1. UNCHANGED <<optimistic, message>>
    BY <1>4 DEF Calls!FailCall
  <2>2. HomeTypes'
    BY <1>2, <2>1 DEF CallTypes, HomeTypes, Calls!Op
  <2> QED
    BY <1>1, <1>2, <2>2
<1> QED
  BY <1>3, <1>4

\* The server's answer.
LEMMA ToldCall ==
  ASSUME CallTypes, NEW c \in Calls!Caller, call[c].at = "called",
         NEW b \in Calls!Bkg, NEW e \in BOOLEAN, booking'[b] \in Calls!Status,
         Calls!Tell(c, b, e)
  PROVE  \E r : /\ Shape(c, r) /\ call' = [call EXCEPT ![c] = r]
                /\ r.at = "served" /\ r.on = call[c].on
<1> DEFINE r == [call[c] EXCEPT !.at = "served", !.result = b, !.existed = e,
                                !.was = booking'[b]]
<1>1. call[c] \in Calls!CallState /\ Shape(c, call[c])
  BY DEF CallTypes
<1>2. /\ r \in Calls!CallState /\ r.at = "served" /\ r.on = call[c].on
      /\ r.does = call[c].does /\ r.result = b
  BY <1>1 DEF Calls!CallState
<1>3. call' = [call EXCEPT ![c] = r]
  BY <1>1 DEF Calls!Tell, CallTypes
<1> HIDE DEF r
<1>4. Shape(c, r)
  BY <1>1, <1>2 DEF Shape
<1> QED
  BY <1>2, <1>3, <1>4

LEMMA CallKinds ==
  ASSUME Calls!CallsAssumption, CallTypes, NEW c \in Calls!Caller, call[c].at # "idle"
  PROVE  /\ call[c].does = "request" <=> c \in Tap
         /\ call[c].does \in Calls!Step <=> c \in Calls!Actor
         /\ call[c].at \in {"called", "served", "checking"} => call[c].on \in Calls!Bkg
         /\ call[c].at = "reading" \/ call[c].at = "storing" => c \in Tap
         /\ call[c].at = "checking" => c \in Calls!Actor
<1>1. Shape(c, call[c]) /\ (c \in Tap \/ c \in Calls!Actor)
  BY DEF CallTypes, Calls!Caller
<1>2. "request" \notin Calls!Step /\ (c \in Tap => c \notin Calls!Actor)
  BY DEF Calls!Step, Calls!CallsAssumption
<1> QED
  BY <1>1, <1>2 DEF Shape

\* A call that is refused or whose answer is lost, and one that fails at the
\* server or at the participant's own check.
LEMMA FailStep ==
  ASSUME Calls!CallsAssumption, CallInv, NEW c \in Calls!Caller, Calls!FailCall(c),
         call[c].at \in {"checking", "called", "served"},
         ServerTypes', UNCHANGED started, AsksAsKept
  PROVE  CallInv'
<1>1. /\ HomeTypes' /\ UNCHANGED <<opRef, opStored, opFresh>>
      /\ call' = [call EXCEPT ![c] = Calls!Idle]
      /\ Shape(c, Calls!Idle) /\ Calls!Idle.at = "idle"
  BY FailedCall DEF CallInv
<1>2. c \in Tap => call[c].at \in {"called", "served"}
  BY CallKinds DEF CallInv, Calls!CallsAssumption
<1> HIDE DEF Calls!Idle
<1> QED
  BY <1>1, <1>2, QuietStep

LEMMA TransportSteps ==
  ASSUME Calls!CallsAssumption, CallInv, NEW c \in Calls!Caller,
         \/ Calls!Refuse(c) \/ Calls!LoseAnswer(c) \/ Calls!CheckActor(c)
         \/ Calls!FinishStep(c)
  PROVE  CallInv'
<1>1. UNCHANGED <<booking, stray, presses, homeRestarts, started, requestOf>>
  BY DEF Calls!Refuse, Calls!LoseAnswer, Calls!CheckActor, Calls!FinishStep, Calls!historyVars
<1>2. ServerTypes' /\ AsksAsKept
  BY <1>1, NothingAsked DEF CallInv, CallTypes, ServerTypes
<1>3. call[c].at \in {"checking", "called", "served"}
  BY DEF Calls!Refuse, Calls!LoseAnswer, Calls!CheckActor, Calls!FinishStep
<1>4. CASE Calls!FailCall(c)
  BY <1>1, <1>2, <1>3, <1>4, FailStep
<1>5. CASE ~Calls!FailCall(c)
  <2>1. UNCHANGED <<optimistic, opRef, opStored, opFresh, message>>
    BY <1>5 DEF Calls!Refuse, Calls!LoseAnswer, Calls!CheckActor, Calls!FinishStep,
                Calls!homeVars
  <2>2. HomeTypes'
    BY <2>1 DEF CallInv, CallTypes, HomeTypes
  <2>3. call[c] \in Calls!CallState /\ Shape(c, call[c])
    BY DEF CallInv, CallTypes
  <2>4. PICK r : /\ Shape(c, r) /\ call' = [call EXCEPT ![c] = r]
                 /\ c \in Tap => /\ call[c].at \in {"called", "served"}
                                 /\ r.at = "called" /\ r.on = call[c].on
    <3>1. CASE Calls!Refuse(c)
      <4> DEFINE r == [call[c] EXCEPT !.tries = 1]
      <4>1. call[c].at = "called" /\ call' = [call EXCEPT ![c] = r]
        BY <1>5, <2>3, <3>1 DEF Calls!Refuse, CallInv, CallTypes
      <4>2. r \in Calls!CallState /\ r.at = "called" /\ r.on = call[c].on
            /\ r.does = call[c].does
        BY <2>3, <4>1 DEF Calls!CallState
      <4> HIDE DEF r
      <4>3. Shape(c, r)
        BY <2>3, <4>1, <4>2 DEF Shape
      <4> QED
        BY <4>1, <4>2, <4>3
    <3>2. CASE Calls!CheckActor(c)
      <4> DEFINE r == [call[c] EXCEPT !.at = "called"]
      <4>1. call[c].at = "checking" /\ call' = [call EXCEPT ![c] = r]
        BY <1>5, <2>3, <3>2 DEF Calls!CheckActor, CallInv, CallTypes
      <4>2. r \in Calls!CallState /\ r.at = "called" /\ r.on = call[c].on
            /\ r.does = call[c].does
        BY <2>3, <4>1 DEF Calls!CallState
      <4>3. c \notin Tap
        BY <2>3, <4>1 DEF Shape
      <4> HIDE DEF r
      <4>4. Shape(c, r)
        BY <2>3, <4>1, <4>2, <4>3 DEF Shape
      <4> QED
        BY <4>1, <4>2, <4>3, <4>4
    <3>3. CASE Calls!FinishStep(c)
      <4>1. call' = [call EXCEPT ![c] = Calls!Idle] /\ call[c].at = "served"
        BY <3>3 DEF Calls!FinishStep
      <4>2. c \notin Tap
        BY <3>3, <4>1, CallKinds DEF Calls!FinishStep, Calls!Step, CallInv
      <4>3. Shape(c, Calls!Idle)
        BY DEF Shape, Calls!Idle, Calls!CallState, Calls!Does, Calls!Status, Calls!NoBooking
      <4> QED
        BY <4>1, <4>2, <4>3
    <3> QED
      BY <1>5, <3>1, <3>2, <3>3 DEF Calls!LoseAnswer
  <2> QED
    BY <1>1, <1>2, <2>1, <2>2, <2>4, QuietStep
<1> QED
  BY <1>4, <1>5

\* A call that is served; the request of a press is under the operation that
\* the device keeps.
LEMMA ServeSteps ==
  ASSUME Calls!CallsAssumption, CallInv, NEW c \in Calls!Caller,
         Calls!ServeRequest(c) \/ Calls!ServeStep(c)
  PROVE  CallInv'
<1> DEFINE b == call[c].on
<1>1. /\ UNCHANGED <<stray, presses, homeRestarts, started>> /\ call[c].at = "called"
  BY DEF Calls!ServeRequest, Calls!ServeStep, Calls!historyVars
<1>2. b \in Calls!Bkg /\ b[1] \in Trip /\ b[2] \in Calls!Op
  BY <1>1, CallKinds DEF CallInv, Calls!Bkg
<1>3. /\ booking' \in [Calls!Bkg -> Calls!Status] /\ requestOf' \in [Calls!Bkg -> Nat]
      /\ AsksAsKept
  <2>1. CASE UNCHANGED requestOf
    <3>1. booking' \in [Calls!Bkg -> Calls!Status]
      <4>1. booking \in [Calls!Bkg -> Calls!Status] /\ "pending" \in Calls!Status
            /\ Calls!Step \subseteq Calls!Status
        BY DEF CallInv, CallTypes, ServerTypes, Calls!Status
      <4> QED
        BY <1>2, <4>1 DEF Calls!ServeRequest, Calls!ServeStep, Calls!CreateBooking
    <3> QED
      BY <1>1, <2>1, <3>1, NothingAsked DEF CallInv, CallTypes, ServerTypes
  <2>2. CASE requestOf' # requestOf
    <3>1. Calls!CreateBooking(b, started[b[1]]) /\ call[c].does = "request"
      BY <2>2 DEF Calls!ServeRequest, Calls!ServeStep, Calls!historyVars
    <3>2. /\ booking' = [booking EXCEPT ![b] = "pending"]
          /\ requestOf' = [requestOf EXCEPT ![b] = started[b[1]]]
      BY <3>1 DEF Calls!CreateBooking
    <3>3. opStored[b[1]] = b[2]
      BY <1>1, <3>1, CallKinds DEF CallInv, KeptOnDevice
    <3>4. /\ booking' \in [Calls!Bkg -> Calls!Status] /\ requestOf' \in [Calls!Bkg -> Nat]
          /\ requestOf'[b] = started[b[1]]
          /\ \A x \in Calls!Bkg \ {b} : requestOf'[x] = requestOf[x]
      BY <1>2, <3>2 DEF CallInv, CallTypes, ServerTypes, Calls!Status
    <3>5. AsksAsKept
      BY <1>1, <3>3, <3>4 DEF AsksAsKept, Asked
    <3> QED
      BY <3>4, <3>5
  <2> QED
    BY <2>1, <2>2
<1>4. ServerTypes'
  BY <1>1, <1>3 DEF CallInv, CallTypes, ServerTypes
<1>5. CASE Calls!FailCall(c)
  BY <1>1, <1>3, <1>4, <1>5, FailStep
<1>6. CASE ~Calls!FailCall(c)
  <2>1. UNCHANGED <<optimistic, opRef, opStored, opFresh, message>>
        /\ \E x \in Calls!Bkg, e \in BOOLEAN : Calls!Tell(c, x, e)
    BY <1>2, <1>6 DEF Calls!ServeRequest, Calls!ServeStep, Calls!homeVars, Calls!Existing
  <2>2. HomeTypes'
    BY <2>1 DEF CallInv, CallTypes, HomeTypes
  <2>3. PICK r : /\ Shape(c, r) /\ call' = [call EXCEPT ![c] = r]
                 /\ r.at = "served" /\ r.on = call[c].on
    BY <1>1, <1>3, <2>1, ToldCall DEF CallInv
  <2> QED
    BY <1>1, <1>3, <1>4, <2>1, <2>2, <2>3, QuietStep
<1> QED
  BY <1>5, <1>6

\* A call that is lost stays about the operation that the device keeps.
LEMMA LoseStep ==
  ASSUME Calls!CallsAssumption, CallInv, NEW c \in Calls!Caller, Calls!Lose(c)
  PROVE  CallInv'
<1> DEFINE b == call[c].on
           x == [by |-> c, does |-> call[c].does, on |-> b,
                 req |-> IF c \in Tap THEN started[b[1]] ELSE 0]
<1>1. /\ call[c].at = "called" /\ Calls!FailCall(c) /\ stray' = stray \cup {x}
      /\ UNCHANGED <<booking, presses, homeRestarts, started, requestOf>>
  BY DEF Calls!Lose, Calls!historyVars
<1>2. /\ b \in Calls!Bkg /\ b[1] \in Trip
      /\ call[c].does = "request" <=> c \in Tap
      /\ call[c].does \in Calls!Does
  BY <1>1, CallKinds DEF CallInv, CallTypes, Calls!Bkg, Calls!CallState
<1>3. started[b[1]] \in Nat \ {0}
  BY <1>2 DEF CallInv, CallTypes, ServerTypes
<1>4. /\ x.does = call[c].does /\ x.on = b
      /\ x.req = IF c \in Tap THEN started[b[1]] ELSE 0
  OBVIOUS
<1> HIDE DEF x
<1>5. ServerTypes'
  BY <1>1, <1>2, <1>3, <1>4 DEF CallInv, CallTypes, ServerTypes
<1>6. c \in Tap => opStored[b[1]] = b[2]
  BY <1>1 DEF CallInv, KeptOnDevice
<1>7. AsksAsKept
  BY <1>1, <1>2, <1>4, <1>6 DEF AsksAsKept, Asked
<1> QED
  BY <1>1, <1>5, <1>7, FailStep

\* A participant presses a button on a card.
LEMMA PressStepStep ==
  ASSUME Calls!CallsAssumption, CallInv, NEW c \in Calls!Actor, NEW b \in Calls!Bkg,
         NEW s \in Calls!Step, Calls!PressStep(c, b, s)
  PROVE  CallInv'
<1> DEFINE r == [Calls!Idle EXCEPT !.at = "checking", !.does = s, !.on = b]
<1>1. /\ UNCHANGED <<booking, optimistic, opRef, opStored, opFresh, message, stray, homeRestarts,
                     started, requestOf>>
      /\ presses < MaxPresses /\ presses' = presses + 1 /\ call' = [call EXCEPT ![c] = r]
  BY DEF Calls!PressStep, Calls!homeVars, Calls!historyVars
<1>2. c \in Calls!Caller /\ c \notin Tap
  BY DEF Calls!Caller, Calls!CallsAssumption
<1>3. presses' \in 0..MaxPresses
  BY <1>1 DEF CallInv, CallTypes, ServerTypes, Calls!CallsAssumption
<1>4. /\ r \in Calls!CallState /\ r.at = "checking" /\ r.does = s /\ r.on = b
  <2>1. s \in Calls!Does
    BY DEF Calls!Does
  <2> QED
    BY <2>1, CheckingCall
<1> HIDE DEF r
<1>5. Shape(c, r)
  BY <1>2, <1>4 DEF Shape
<1>6. ServerTypes' /\ HomeTypes' /\ AsksAsKept
  BY <1>1, <1>3, NothingAsked DEF CallInv, CallTypes, ServerTypes, HomeTypes
<1> QED
  BY <1>1, <1>2, <1>5, <1>6, QuietStep

\* A call that was given up is served after all.
LEMMA StrayStep ==
  ASSUME Calls!CallsAssumption, CallInv, Calls!ServeStray
  PROVE  CallInv'
<1>1. PICK x \in stray :
        /\ stray' = stray \ {x}
        /\ IF x.does = "request"
           THEN Calls!CreateBooking(x.on, x.req)
           ELSE /\ booking' = [booking EXCEPT ![x.on] = x.does]
                /\ UNCHANGED requestOf
        /\ UNCHANGED <<optimistic, opRef, opStored, opFresh, message, call, presses, homeRestarts,
                       started>>
  BY DEF Calls!ServeStray, Calls!homeVars
<1>2. /\ x.on \in Calls!Bkg /\ x.req \in Nat /\ x.does \in Calls!Does
      /\ x.does = "request" => x.req # 0
  BY DEF CallInv, CallTypes, ServerTypes
<1>3. /\ booking' \in [Calls!Bkg -> Calls!Status] /\ requestOf' \in [Calls!Bkg -> Nat]
      /\ AsksAsKept
  <2>1. CASE x.does = "request"
    <3>1. /\ booking' \in [Calls!Bkg -> Calls!Status] /\ requestOf' \in [Calls!Bkg -> Nat]
          /\ requestOf'[x.on] = x.req
          /\ \A b \in Calls!Bkg \ {x.on} : requestOf'[b] = requestOf[b]
      BY <1>1, <1>2, <2>1 DEF CallInv, CallTypes, ServerTypes, Calls!Status, Calls!CreateBooking
    <3>2. \A b \in Calls!Bkg, k \in Nat \ {0} : Asked(b, k)' => Asked(b, k)
      BY <1>1, <2>1, <3>1 DEF Asked
    <3> QED
      BY <3>1, <3>2 DEF AsksAsKept
  <2>2. CASE x.does # "request"
    <3>1. booking' \in [Calls!Bkg -> Calls!Status]
      BY <1>1, <1>2, <2>2 DEF CallInv, CallTypes, ServerTypes, Calls!Status, Calls!Does
    <3> QED
      BY <1>1, <2>2, <3>1, NothingAsked DEF CallInv, CallTypes, ServerTypes
  <2> QED
    BY <2>1, <2>2
<1>4. ServerTypes'
  BY <1>1, <1>3 DEF CallInv, CallTypes, ServerTypes
<1>5. CallTypes'
  BY <1>1, <1>4 DEF CallInv, CallTypes, HomeTypes, Reading
<1>6. OneOperation' /\ KeptOnDevice'
  BY <1>1, <1>3, OneOperationKept DEF CallInv, KeptOnDevice
<1> QED
  BY <1>5, <1>6 DEF CallInv

\* A press: the screen has an operation, which the device keeps, or reads it.
LEMMA RequestStep ==
  ASSUME Calls!CallsAssumption, CallInv, OnePressAMatch', NEW c \in Tap, NEW t \in Trip,
         Calls!PressRequest(c, t)
  PROVE  CallInv'
<1>1. /\ call[c].at = "idle" /\ opFresh + Calls!Cardinality(Tap) <= MaxRequests
      /\ UNCHANGED <<booking, opRef, opStored, opFresh, stray, presses, homeRestarts, started,
                     requestOf>>
  BY DEF Calls!PressRequest, Calls!historyVars
<1>2. opFresh + Cardinality(Tap) <= MaxRequests
  BY <1>1 DEF Calls!Cardinality, Cardinality
<1>3. c \in Calls!Caller /\ Tap \subseteq Calls!Caller
  BY DEF Calls!Caller
<1>4. ServerTypes' /\ AsksAsKept
  BY <1>1, NothingAsked DEF CallInv, CallTypes, ServerTypes
<1>5. HomeTypes'
  <2>1. /\ optimistic' \in [Trip -> {"none", "pending", "confirmed"}]
        /\ message' \in {"none", "sent", "error"}
    BY DEF Calls!PressRequest, CallInv, CallTypes, HomeTypes
  <2> QED
    BY <1>1, <2>1 DEF CallInv, CallTypes, HomeTypes
<1>6. PICK r : /\ Shape(c, r) /\ call' = [call EXCEPT ![c] = r]
               /\ \/ r.at = "reading" /\ r.on = t
                  \/ r.at = "called" /\ opRef[t] # Calls!NoOp /\ r.on = <<t, opRef[t]>>
  <2>1. CASE opRef[t] # Calls!NoOp
    <3> DEFINE r == [Calls!Idle EXCEPT !.at = "called", !.on = <<t, opRef[t]>>]
    <3>1. <<t, opRef[t]>> \in Calls!Bkg
      BY <2>1 DEF CallInv, CallTypes, HomeTypes, Calls!Bkg
    <3>2. /\ r \in Calls!CallState /\ r.at = "called" /\ r.does = "request"
          /\ r.on = <<t, opRef[t]>>
      BY <3>1, RequestCall
    <3>3. call' = [call EXCEPT ![c] = r]
      BY <2>1 DEF Calls!PressRequest
    <3> HIDE DEF r
    <3>4. Shape(c, r)
      BY <3>1, <3>2 DEF Shape, Calls!CallsAssumption
    <3> QED
      BY <2>1, <3>2, <3>3, <3>4
  <2>2. CASE opRef[t] = Calls!NoOp
    <3> DEFINE r == [Calls!Idle EXCEPT !.at = "reading", !.on = t]
    <3>1. /\ r \in Calls!CallState /\ r.at = "reading" /\ r.does = "request" /\ r.on = t
      BY RequestCall
    <3>2. call' = [call EXCEPT ![c] = r]
      BY <2>2 DEF Calls!PressRequest
    <3> HIDE DEF r
    <3>3. Shape(c, r)
      BY <3>1 DEF Shape, Calls!CallsAssumption
    <3> QED
      BY <3>1, <3>2, <3>3
  <2> QED
    BY <2>1, <2>2
<1>7. /\ call' \in [Calls!Caller -> Calls!CallState] /\ call'[c] = r
      /\ \A d \in Calls!Caller \ {c} : call'[d] = call[d]
      /\ \A d \in Calls!Caller : Shape(d, call'[d])
  BY <1>3, <1>6, OneCall DEF CallInv
<1>8. opFresh' + Cardinality(Reading') <= MaxRequests
  <2>1. Reading' \subseteq Tap
    BY DEF Reading
  <2>2. Cardinality(Reading') \in Nat /\ Cardinality(Reading') <= Cardinality(Tap)
        /\ Cardinality(Tap) \in Nat
    BY <2>1, TapFinite, FS_Subset, FS_CardinalityType
  <2> QED
    BY <1>1, <1>2, <2>2 DEF CallInv, CallTypes, HomeTypes, Calls!CallsAssumption
<1>9. CallTypes'
  BY <1>4, <1>5, <1>7, <1>8 DEF CallTypes
<1>10. OneOperation'
  BY <1>1, <1>4, OneOperationKept
<1>11. KeptOnDevice'
  <2>1. \A d \in Tap \ {c} : call'[d] = call[d]
    BY <1>3, <1>7
  <2>2. ASSUME r.at = "called"
        PROVE  opStored[t] = opRef[t]
    <3>1. r.on = <<t, opRef[t]>> /\ opRef[t] # Calls!NoOp
      BY <1>6, <2>2
    <3>2. ASSUME NEW d \in Tap, call[d].at = "storing", call[d].on = <<t, opRef[t]>>
          PROVE  FALSE
      <4>1. d # c
        BY <1>1, <3>2
      <4>2. call'[d].at # "idle" /\ MatchOf(d)' = t
        BY <2>1, <3>2, <4>1 DEF MatchOf
      <4>3. call'[c].at # "idle" /\ MatchOf(c)' = t
        BY <1>7, <2>2, <3>1 DEF MatchOf
      <4> QED
        BY <4>1, <4>2, <4>3 DEF OnePressAMatch
    <3> QED
      BY <3>1, <3>2 DEF CallInv, KeptOnDevice
  <2>3. /\ call'[c].at = "called" => opStored[call'[c].on[1]] = call'[c].on[2]
        /\ call'[c].at \in {"called", "reading"}
    BY <1>6, <1>7, <2>2
  <2>4. \A d \in Tap :
          /\ call'[d].at \in {"called", "served"} => opStored'[call'[d].on[1]] = call'[d].on[2]
          /\ call'[d].at = "storing" =>
               /\ opStored'[call'[d].on[1]] \in {Calls!NoOp, call'[d].on[2]}
               /\ call'[d].on[2] <= opFresh'
    BY <1>1, <2>1, <2>3 DEF CallInv, KeptOnDevice
  <2>5. \A u \in Trip :
          opRef'[u] # Calls!NoOp =>
            \/ opRef'[u] = opStored'[u]
            \/ \E d \in Tap : call'[d].at = "storing" /\ call'[d].on = <<u, opRef'[u]>>
    BY <1>1, <2>1 DEF CallInv, KeptOnDevice
  <2>6. \A u \in Trip : opStored'[u] <= opFresh'
    BY <1>1 DEF CallInv, KeptOnDevice
  <2> QED
    BY <2>4, <2>5, <2>6 DEF KeptOnDevice
<1> QED
  BY <1>9, <1>10, <1>11 DEF CallInv
\* What the device has kept, or a new operation.
LEMMA ReadStep ==
  ASSUME Calls!CallsAssumption, CallInv, NEW c \in Calls!Caller, Calls!ReadOperation(c)
  PROVE  CallInv'
<1> DEFINE t == call[c].on
           o == IF opStored[t] # Calls!NoOp THEN opStored[t] ELSE opFresh + 1
           r == [call[c] EXCEPT !.at = "storing", !.on = <<t, o>>]
<1>1. /\ call[c].at = "reading"
      /\ UNCHANGED <<booking, optimistic, opStored, message, stray, presses, homeRestarts, started,
                     requestOf>>
      /\ opRef' = [opRef EXCEPT ![t] = o]
      /\ opFresh' = IF o > opFresh THEN o ELSE opFresh
  BY DEF Calls!ReadOperation, Calls!historyVars
<1>2. c \in Tap /\ Tap \subseteq Calls!Caller
  BY <1>1, CallKinds DEF CallInv, Calls!Caller
<1>3. t \in Trip /\ call[c].does = "request" /\ call[c] \in Calls!CallState
  BY <1>1, <1>2 DEF CallInv, CallTypes, Shape, Calls!Caller
<1>4. /\ Cardinality(Reading) \in Nat /\ Cardinality(Reading) > 0
      /\ Cardinality(Reading \ {c}) = Cardinality(Reading) - 1
  <2>1. c \in Reading /\ IsFiniteSet(Reading)
    BY <1>1, <1>2, ReadingFinite, TapFinite DEF Reading
  <2> QED
    BY <2>1, FS_RemoveElement, FS_EmptySet, FS_CardinalityType
<1>5. /\ MaxRequests \in Nat /\ opFresh \in 0..MaxRequests /\ opFresh + 1 \in Calls!Op /\ 0 \notin Calls!Op
      /\ opStored[t] \in Calls!Op \cup {Calls!NoOp} /\ Calls!NoOp = 0
  BY <1>3, <1>4 DEF CallInv, CallTypes, HomeTypes, Calls!Op, Calls!NoOp, Calls!CallsAssumption
<1>6. opStored[t] <= opFresh
  BY <1>3 DEF CallInv, KeptOnDevice
<1>7. /\ o \in Calls!Op /\ opStored[t] \in {Calls!NoOp, o}
      /\ opFresh' \in {opFresh, opFresh + 1} /\ o <= opFresh'
  <2>1. CASE opStored[t] # Calls!NoOp
    BY <1>1, <1>5, <1>6, <2>1 DEF Calls!Op
  <2>2. CASE opStored[t] = Calls!NoOp
    BY <1>1, <1>5, <2>2 DEF Calls!Op
  <2> QED
    BY <2>1, <2>2
<1>8. <<t, o>> \in Calls!Bkg
  BY <1>3, <1>7 DEF Calls!Bkg
<1>9. /\ r \in Calls!CallState /\ r.at = "storing" /\ r.on = <<t, o>>
      /\ r.does = "request"
  BY <1>3, <1>8 DEF Calls!CallState
<1>10. call' = [call EXCEPT ![c] = r]
  BY <1>2 DEF Calls!ReadOperation, CallInv, CallTypes
<1> HIDE DEF r, o
<1>11. Shape(c, r)
  BY <1>2, <1>8, <1>9 DEF Shape, Calls!CallsAssumption
<1>12. /\ call' \in [Calls!Caller -> Calls!CallState] /\ call'[c] = r
       /\ \A d \in Calls!Caller \ {c} : call'[d] = call[d]
       /\ \A d \in Calls!Caller : Shape(d, call'[d])
  BY <1>10, <1>11, OneCall DEF CallInv
<1>13. opFresh' + Cardinality(Reading') <= MaxRequests
  <2>1. Reading' = Reading \ {c}
    BY <1>2, <1>9, <1>12 DEF Reading
  <2>2. opFresh + Cardinality(Reading) <= MaxRequests
    BY DEF CallInv, CallTypes
  <2> QED
    BY <1>4, <1>5, <1>7, <2>1, <2>2
<1>14. opRef' \in [Trip -> Calls!Op \cup {Calls!NoOp}] /\ opRef'[t] = o
       /\ \A u \in Trip \ {t} : opRef'[u] = opRef[u]
  BY <1>1, <1>3, <1>7 DEF CallInv, CallTypes, HomeTypes
<1>15. ServerTypes' /\ HomeTypes' /\ AsksAsKept
  <2>1. opFresh' \in 0..MaxRequests
    BY <1>4, <1>5, <1>7 DEF CallInv, CallTypes
  <2> QED
    BY <1>1, <1>14, <2>1, NothingAsked DEF CallInv, CallTypes, ServerTypes, HomeTypes
<1>16. CallTypes'
  BY <1>12, <1>13, <1>15 DEF CallTypes
<1>17. OneOperation'
  BY <1>1, <1>15, OneOperationKept
<1>18. KeptOnDevice'
  <2>1. \A d \in Tap \ {c} : call'[d] = call[d]
    BY <1>2, <1>12
  <2>2. \A u \in Trip : opStored'[u] <= opFresh'
    BY <1>1, <1>5, <1>7 DEF CallInv, KeptOnDevice, CallTypes, HomeTypes, Calls!Op
  <2>3. \A d \in Tap :
          /\ call'[d].at \in {"called", "served"} => opStored'[call'[d].on[1]] = call'[d].on[2]
          /\ call'[d].at = "storing" =>
               /\ opStored'[call'[d].on[1]] \in {Calls!NoOp, call'[d].on[2]}
               /\ call'[d].on[2] <= opFresh'
    <3> SUFFICES ASSUME NEW d \in Tap
                 PROVE  /\ call'[d].at \in {"called", "served"} =>
                             opStored'[call'[d].on[1]] = call'[d].on[2]
                        /\ call'[d].at = "storing" =>
                             /\ opStored'[call'[d].on[1]] \in {Calls!NoOp, call'[d].on[2]}
                             /\ call'[d].on[2] <= opFresh'
      OBVIOUS
    <3>1. CASE d = c
      BY <1>1, <1>7, <1>9, <1>12, <3>1
    <3>2. CASE d # c
      <4>1. call[d].at = "storing" => call[d].on[2] \in Calls!Op
        BY <1>2 DEF CallInv, CallTypes, Shape, Calls!Bkg
      <4>2. call[d].at = "storing" => call[d].on[2] <= opFresh'
        BY <1>5, <1>7, <4>1 DEF CallInv, KeptOnDevice, Calls!Op
      <4> QED
        BY <1>1, <2>1, <3>2, <4>2 DEF CallInv, KeptOnDevice
    <3> QED
      BY <3>1, <3>2
  <2>4. \A u \in Trip :
          opRef'[u] # Calls!NoOp =>
            \/ opRef'[u] = opStored'[u]
            \/ \E d \in Tap : call'[d].at = "storing" /\ call'[d].on = <<u, opRef'[u]>>
    <3> SUFFICES ASSUME NEW u \in Trip, opRef'[u] # Calls!NoOp, opRef'[u] # opStored'[u]
                 PROVE  \E d \in Tap : /\ call'[d].at = "storing"
                                       /\ call'[d].on = <<u, opRef'[u]>>
      OBVIOUS
    <3>1. CASE u = t
      BY <1>2, <1>9, <1>12, <1>14, <3>1
    <3>2. CASE u # t
      <4>1. PICK d \in Tap : call[d].at = "storing" /\ call[d].on = <<u, opRef[u]>>
        BY <1>1, <1>14, <3>2 DEF CallInv, KeptOnDevice
      <4>2. d # c
        BY <1>1, <4>1
      <4> QED
        BY <1>14, <2>1, <3>2, <4>1, <4>2
    <3> QED
      BY <3>1, <3>2
  <2> QED
    BY <2>2, <2>3, <2>4 DEF KeptOnDevice
<1> QED
  BY <1>16, <1>17, <1>18 DEF CallInv

\* The presses but one are about other matches.
LEMMA OtherMatches ==
  ASSUME CallInv, OnePressAMatch, NEW c \in Tap, call[c].at \in {"storing", "called", "served"},
         NEW d \in Tap \ {c}, call[d].at \in {"storing", "called", "served"}
  PROVE  call[d].on[1] # call[c].on[1]
<1>1. call[c].at # "idle" /\ call[d].at # "idle"
      /\ MatchOf(c) = call[c].on[1] /\ MatchOf(d) = call[d].on[1]
  BY DEF MatchOf
<1> QED
  BY <1>1 DEF OnePressAMatch

\* The device keeps the operation; then the call is sent.
LEMMA StoreStep ==
  ASSUME Calls!CallsAssumption, CallInv, OnePressAMatch, NEW c \in Calls!Caller,
         Calls!StoreOperation(c)
  PROVE  CallInv'
<1> DEFINE b == call[c].on
           t == b[1]
           r == [call[c] EXCEPT !.at = "called"]
<1>1. /\ call[c].at = "storing"
      /\ opStored' = [opStored EXCEPT ![t] = b[2]]
      /\ optimistic' = [optimistic EXCEPT ![t] = "pending"] /\ message' = "none"
      /\ UNCHANGED <<booking, opRef, opFresh, stray, presses, homeRestarts, started, requestOf>>
  BY DEF Calls!StoreOperation, Calls!historyVars
<1>2. c \in Tap /\ Tap \subseteq Calls!Caller
  BY <1>1, CallKinds DEF CallInv, Calls!Caller
<1>3. /\ b \in Calls!Bkg /\ t \in Trip /\ b[2] \in Calls!Op /\ b = <<t, b[2]>>
      /\ call[c] \in Calls!CallState /\ Shape(c, call[c])
  BY <1>1, <1>2 DEF CallInv, CallTypes, Shape, Calls!Bkg
<1>4. opStored[t] \in {Calls!NoOp, b[2]} /\ b[2] <= opFresh
  BY <1>1, <1>2 DEF CallInv, KeptOnDevice
<1>5. /\ opStored' \in [Trip -> Calls!Op \cup {Calls!NoOp}] /\ opStored'[t] = b[2]
      /\ \A u \in Trip \ {t} : opStored'[u] = opStored[u]
  BY <1>1, <1>3 DEF CallInv, CallTypes, HomeTypes
<1>6. /\ r \in Calls!CallState /\ r.at = "called" /\ r.on = b /\ r.does = call[c].does
  BY <1>3 DEF Calls!CallState
<1>7. call' = [call EXCEPT ![c] = r]
  BY <1>2 DEF Calls!StoreOperation, CallInv, CallTypes
<1> HIDE DEF r
<1>8. Shape(c, r)
  BY <1>1, <1>2, <1>3, <1>6 DEF Shape, Calls!CallsAssumption
<1>9. /\ call' \in [Calls!Caller -> Calls!CallState] /\ call'[c] = r
      /\ \A d \in Calls!Caller \ {c} : call'[d] = call[d]
      /\ \A d \in Calls!Caller : Shape(d, call'[d])
  BY <1>7, <1>8, OneCall DEF CallInv
<1>10. opFresh' + Cardinality(Reading') <= MaxRequests
  <2>1. Reading' \subseteq Reading
    BY <1>2, <1>6, <1>9 DEF Reading
  <2> QED
    BY <1>1, <2>1, ReadingShrinks, ReadingFinite, TapFinite
       DEF CallInv, CallTypes, HomeTypes, Calls!CallsAssumption
<1>11. ServerTypes' /\ HomeTypes' /\ AsksAsKept
  BY <1>1, <1>3, <1>5, NothingAsked DEF CallInv, CallTypes, ServerTypes, HomeTypes
<1>12. CallTypes'
  BY <1>9, <1>10, <1>11 DEF CallTypes
<1>13. OneOperation'
  <2>1. \A u \in Trip : opStored[u] # Calls!NoOp => opStored'[u] = opStored[u]
    BY <1>4, <1>5
  <2> QED
    BY <1>1, <1>11, <2>1, OneOperationKept
<1>14. KeptOnDevice'
  <2>1. \A d \in Tap \ {c} : call'[d] = call[d]
    BY <1>2, <1>9
  <2>2. \A u \in Trip : opStored'[u] <= opFresh'
    BY <1>1, <1>4, <1>5 DEF CallInv, KeptOnDevice
  <2>3. \A d \in Tap :
          /\ call'[d].at \in {"called", "served"} => opStored'[call'[d].on[1]] = call'[d].on[2]
          /\ call'[d].at = "storing" =>
               /\ opStored'[call'[d].on[1]] \in {Calls!NoOp, call'[d].on[2]}
               /\ call'[d].on[2] <= opFresh'
    <3> SUFFICES ASSUME NEW d \in Tap, call'[d].at \in {"storing", "called", "served"}
                 PROVE  /\ call'[d].at \in {"called", "served"} =>
                             opStored'[call'[d].on[1]] = call'[d].on[2]
                        /\ call'[d].at = "storing" =>
                             /\ opStored'[call'[d].on[1]] \in {Calls!NoOp, call'[d].on[2]}
                             /\ call'[d].on[2] <= opFresh'
      OBVIOUS
    <3>1. CASE d = c
      BY <1>5, <1>6, <1>9, <3>1
    <3>2. CASE d # c
      <4>1. call'[d] = call[d] /\ call[d].on[1] # t
        BY <1>1, <1>2, <2>1, <3>2, OtherMatches
      <4>2. call[d].on[1] \in Trip
        BY <1>2, <4>1 DEF CallInv, CallTypes, Shape, Calls!Bkg
      <4> QED
        BY <1>1, <1>5, <4>1, <4>2 DEF CallInv, KeptOnDevice
    <3> QED
      BY <3>1, <3>2
  <2>4. \A u \in Trip :
          opRef'[u] # Calls!NoOp =>
            \/ opRef'[u] = opStored'[u]
            \/ \E d \in Tap : call'[d].at = "storing" /\ call'[d].on = <<u, opRef'[u]>>
    <3> SUFFICES ASSUME NEW u \in Trip, opRef[u] # Calls!NoOp, opRef[u] # opStored'[u]
                 PROVE  \E d \in Tap : call'[d].at = "storing" /\ call'[d].on = <<u, opRef[u]>>
      BY <1>1
    <3>1. opRef[u] # opStored[u]
      BY <1>4, <1>5
    <3>2. PICK d \in Tap : call[d].at = "storing" /\ call[d].on = <<u, opRef[u]>>
      BY <3>1 DEF CallInv, KeptOnDevice
    <3>3. d # c
      BY <1>5, <3>2
    <3> QED
      BY <2>1, <3>2, <3>3
  <2> QED
    BY <2>2, <2>3, <2>4 DEF KeptOnDevice
<1> QED
  BY <1>12, <1>13, <1>14 DEF CallInv

\* The request is answered: the next one of the match is another.
LEMMA AnswerStep ==
  ASSUME Calls!CallsAssumption, CallInv, OnePressAMatch, NEW c \in Calls!Caller,
         Calls!FinishRequest(c)
  PROVE  CallInv'
<1> DEFINE t == call[c].on[1]
<1>1. /\ call[c].at = "served" /\ call[c].does = "request"
      /\ optimistic' = [optimistic EXCEPT ![t] = "confirmed"] /\ message' = "sent"
      /\ opRef' = [opRef EXCEPT ![t] = Calls!NoOp] /\ opStored' = [opStored EXCEPT ![t] = Calls!NoOp]
      /\ started' = [started EXCEPT ![t] = @ + 1]
      /\ call' = [call EXCEPT ![c] = Calls!Idle]
      /\ UNCHANGED <<booking, opFresh, stray, presses, homeRestarts, requestOf>>
  BY DEF Calls!FinishRequest
<1>2. c \in Tap /\ Tap \subseteq Calls!Caller /\ t \in Trip
  BY <1>1, CallKinds DEF CallInv, Calls!Caller, Calls!Bkg
<1>3. /\ opStored' \in [Trip -> Calls!Op \cup {Calls!NoOp}] /\ opStored'[t] = Calls!NoOp
      /\ \A u \in Trip \ {t} : opStored'[u] = opStored[u]
      /\ opRef' \in [Trip -> Calls!Op \cup {Calls!NoOp}] /\ opRef'[t] = Calls!NoOp
      /\ \A u \in Trip \ {t} : opRef'[u] = opRef[u]
      /\ optimistic' \in [Trip -> {"none", "pending", "confirmed"}]
  BY <1>1, <1>2 DEF CallInv, CallTypes, HomeTypes
<1>4. /\ started' \in [Trip -> Nat \ {0}] /\ started'[t] = started[t] + 1
      /\ \A u \in Trip \ {t} : started'[u] = started[u]
      /\ started \in [Trip -> Nat \ {0}]
  BY <1>1, <1>2 DEF CallInv, CallTypes, ServerTypes
<1>5. Shape(c, Calls!Idle) /\ Calls!Idle.at = "idle"
  BY IdleCall DEF Shape
<1> HIDE DEF Calls!Idle
<1>6. /\ call' \in [Calls!Caller -> Calls!CallState] /\ call'[c] = Calls!Idle
      /\ \A d \in Calls!Caller \ {c} : call'[d] = call[d]
      /\ \A d \in Calls!Caller : Shape(d, call'[d])
  BY <1>1, <1>5, OneCall DEF CallInv
<1>7. opFresh' + Cardinality(Reading') <= MaxRequests
  <2>1. Reading' \subseteq Reading
    BY <1>2, <1>5, <1>6 DEF Reading
  <2> QED
    BY <1>1, <2>1, ReadingShrinks, ReadingFinite, TapFinite
       DEF CallInv, CallTypes, HomeTypes, Calls!CallsAssumption
<1>8. ServerTypes' /\ HomeTypes'
  BY <1>1, <1>3, <1>4 DEF CallInv, CallTypes, ServerTypes, HomeTypes
<1>9. CallTypes'
  BY <1>6, <1>7, <1>8 DEF CallTypes
<1>10. OneOperation'
  <2>1. \A b \in Calls!Bkg, k \in Nat \ {0} : Asked(b, k)' <=> Asked(b, k)
    BY <1>1 DEF Asked
  <2>2. \A b \in Calls!Bkg, k \in Nat \ {0} :
          Asked(b, k) => k <= started'[b[1]] /\ (k = started'[b[1]] => opStored'[b[1]] = b[2])
    <3> SUFFICES ASSUME NEW b \in Calls!Bkg, NEW k \in Nat \ {0}, Asked(b, k)
                 PROVE  k <= started'[b[1]] /\ (k = started'[b[1]] => opStored'[b[1]] = b[2])
      OBVIOUS
    <3>1. b[1] \in Trip /\ k <= started[b[1]] /\ (k = started[b[1]] => opStored[b[1]] = b[2])
      BY DEF CallInv, OneOperation, Calls!Bkg
    <3>2. CASE b[1] = t
      BY <1>4, <3>1, <3>2
    <3>3. CASE b[1] # t
      BY <1>3, <1>4, <3>1, <3>3
    <3> QED
      BY <3>2, <3>3
  <2> QED
    BY <2>1, <2>2 DEF CallInv, OneOperation
<1>11. KeptOnDevice'
  <2>1. \A d \in Tap \ {c} : call'[d] = call[d]
    BY <1>2, <1>6
  <2>2. \A u \in Trip : opStored'[u] <= opFresh'
    <3>1. Calls!NoOp <= opFresh
      BY DEF CallInv, CallTypes, HomeTypes, Calls!CallsAssumption, Calls!NoOp
    <3> QED
      BY <1>1, <1>3, <3>1 DEF CallInv, KeptOnDevice
  <2>3. \A d \in Tap :
          /\ call'[d].at \in {"called", "served"} => opStored'[call'[d].on[1]] = call'[d].on[2]
          /\ call'[d].at = "storing" =>
               /\ opStored'[call'[d].on[1]] \in {Calls!NoOp, call'[d].on[2]}
               /\ call'[d].on[2] <= opFresh'
    <3> SUFFICES ASSUME NEW d \in Tap, call'[d].at \in {"storing", "called", "served"}
                 PROVE  /\ call'[d].at \in {"called", "served"} =>
                             opStored'[call'[d].on[1]] = call'[d].on[2]
                        /\ call'[d].at = "storing" =>
                             /\ opStored'[call'[d].on[1]] \in {Calls!NoOp, call'[d].on[2]}
                             /\ call'[d].on[2] <= opFresh'
      OBVIOUS
    <3>1. d # c
      BY <1>5, <1>6
    <3>2. call'[d] = call[d] /\ call[d].on[1] # t
      BY <1>1, <1>2, <2>1, <3>1, OtherMatches
    <3>3. call[d].on[1] \in Trip
      BY <1>2, <3>2 DEF CallInv, CallTypes, Shape, Calls!Bkg
    <3> QED
      BY <1>1, <1>3, <3>2, <3>3 DEF CallInv, KeptOnDevice
  <2>4. \A u \in Trip :
          opRef'[u] # Calls!NoOp =>
            \/ opRef'[u] = opStored'[u]
            \/ \E d \in Tap : call'[d].at = "storing" /\ call'[d].on = <<u, opRef'[u]>>
    <3> SUFFICES ASSUME NEW u \in Trip, opRef'[u] # Calls!NoOp, opRef'[u] # opStored'[u]
                 PROVE  \E d \in Tap : /\ call'[d].at = "storing"
                                       /\ call'[d].on = <<u, opRef'[u]>>
      OBVIOUS
    <3>1. opRef'[u] = opRef[u] /\ opStored'[u] = opStored[u]
      BY <1>3
    <3>2. PICK d \in Tap : call[d].at = "storing" /\ call[d].on = <<u, opRef[u]>>
      BY <3>1 DEF CallInv, KeptOnDevice
    <3>3. d # c
      BY <1>1, <3>2
    <3> QED
      BY <2>1, <3>1, <3>2, <3>3
  <2> QED
    BY <2>2, <2>3, <2>4 DEF KeptOnDevice
<1> QED
  BY <1>9, <1>10, <1>11 DEF CallInv
\* The app is closed and opened: the calls that were sent may still be served,
\* under the operation that the device keeps.
LEMMA RestartStep ==
  ASSUME Calls!CallsAssumption, CallInv, Calls!Restart
  PROVE  CallInv'
<1> DEFINE Lost(c) == [by |-> c, does |-> "request", on |-> call[c].on,
                       req |-> started[call[c].on[1]]]
<1>1. /\ homeRestarts < MaxRestarts /\ homeRestarts' = homeRestarts + 1
      /\ call' = [c \in Calls!Caller |-> IF c \in Tap THEN Calls!Idle ELSE call[c]]
      /\ stray' = stray \cup {Lost(c) : c \in {d \in Tap : call[d].at = "called"}}
      /\ optimistic' = [t \in Trip |-> "none"] /\ opRef' = [t \in Trip |-> Calls!NoOp]
      /\ message' = "none"
      /\ UNCHANGED <<booking, opStored, opFresh, presses, started, requestOf>>
  BY DEF Calls!Restart, Calls!historyVars
<1>2. Tap \subseteq Calls!Caller
  BY DEF Calls!Caller
<1>3. \A c \in Tap : Shape(c, Calls!Idle) /\ Calls!Idle.at = "idle"
  BY IdleCall DEF Shape, Calls!CallsAssumption
<1>4. Calls!Idle \in Calls!CallState
  BY IdleCall
<1> HIDE DEF Calls!Idle
<1>5. /\ call' \in [Calls!Caller -> Calls!CallState]
      /\ \A c \in Tap : call'[c].at = "idle"
      /\ \A c \in Calls!Caller : Shape(c, call'[c])
  BY <1>1, <1>2, <1>3, <1>4 DEF CallInv, CallTypes
<1>6. \A x \in stray' \ stray :
        \E c \in Tap : call[c].at = "called" /\ x = Lost(c)
  BY <1>1
<1>7. ASSUME NEW x \in stray' \ stray
      PROVE  /\ x.on \in Calls!Bkg /\ x.does = "request"
             /\ x.req = started[x.on[1]] /\ opStored[x.on[1]] = x.on[2]
             /\ x.req \in Nat \ {0}
  <2>1. PICK c \in Tap : call[c].at = "called" /\ x = Lost(c)
    BY <1>6, <1>7
  <2>2. call[c].on \in Calls!Bkg /\ call[c].on[1] \in Trip
    BY <1>2, <2>1 DEF CallInv, CallTypes, Shape, Calls!Bkg
  <2>3. started[call[c].on[1]] \in Nat \ {0}
    BY <2>2 DEF CallInv, CallTypes, ServerTypes
  <2> QED
    BY <2>1, <2>2, <2>3 DEF CallInv, KeptOnDevice
<1>8. homeRestarts' \in 0..MaxRestarts
  BY <1>1 DEF CallInv, CallTypes, ServerTypes, Calls!CallsAssumption
<1>9. ServerTypes'
  <2>1. \A x \in stray' : /\ x.on \in Calls!Bkg /\ x.req \in Nat
                          /\ x.does \in Calls!Does
                          /\ x.does = "request" => x.req # 0
    <3> SUFFICES ASSUME NEW x \in stray'
                 PROVE  /\ x.on \in Calls!Bkg /\ x.req \in Nat
                        /\ x.does \in Calls!Does
                        /\ x.does = "request" => x.req # 0
      OBVIOUS
    <3>1. CASE x \in stray
      BY <3>1 DEF CallInv, CallTypes, ServerTypes
    <3>2. CASE x \notin stray
      BY <1>7, <3>2 DEF Calls!Does
    <3> QED
      BY <3>1, <3>2
  <2> QED
    BY <1>1, <1>8, <2>1 DEF CallInv, CallTypes, ServerTypes
<1>10. HomeTypes'
  BY <1>1 DEF CallInv, CallTypes, HomeTypes
<1>11. opFresh' + Cardinality(Reading') <= MaxRequests
  <2>1. Reading' \subseteq Reading
    BY <1>5 DEF Reading
  <2> QED
    BY <1>1, <2>1, ReadingShrinks, ReadingFinite, TapFinite
       DEF CallInv, CallTypes, HomeTypes, Calls!CallsAssumption
<1>12. CallTypes'
  BY <1>5, <1>9, <1>10, <1>11 DEF CallTypes
<1>13. AsksAsKept
  <2> SUFFICES ASSUME NEW b \in Calls!Bkg, NEW k \in Nat \ {0}, Asked(b, k)', ~Asked(b, k)
               PROVE  k = started[b[1]] /\ opStored[b[1]] = b[2]
    BY DEF AsksAsKept
  <2>1. PICK x \in stray' \ stray : x.on = b /\ x.req = k
    BY <1>1 DEF Asked
  <2> QED
    BY <1>7, <2>1
<1>14. OneOperation'
  BY <1>1, <1>13, OneOperationKept
<1>15. KeptOnDevice'
  BY <1>1, <1>5 DEF CallInv, KeptOnDevice
<1> QED
  BY <1>12, <1>14, <1>15 DEF CallInv

LEMMA CallInit == Calls!CallsAssumption /\ Calls!Init => CallInv
<1> SUFFICES ASSUME Calls!CallsAssumption, Calls!Init PROVE CallInv
  OBVIOUS
<1>1. MaxRequests \in Nat /\ MaxPresses \in Nat /\ MaxRestarts \in Nat
  BY DEF Calls!CallsAssumption
<1>2. ServerTypes /\ HomeTypes
  BY <1>1 DEF Calls!Init, ServerTypes, HomeTypes, Calls!Status, Calls!NoOp
<1>3. call = [c \in Calls!Caller |-> Calls!Idle] /\ Tap \subseteq Calls!Caller
  BY DEF Calls!Init, Calls!Caller
<1>4. \A c \in Calls!Caller : Shape(c, Calls!Idle)
  BY IdleCall DEF Shape, Calls!CallsAssumption
<1>5. Calls!Idle \in Calls!CallState /\ Calls!Idle.at = "idle"
  BY IdleCall
<1> HIDE DEF Calls!Idle
<1>6. Reading = {}
  BY <1>3, <1>5 DEF Reading
<1>7. CallTypes
  <2>1. opFresh + Cardinality(Reading) <= MaxRequests
    BY <1>1, <1>6, FS_EmptySet DEF Calls!Init
  <2> QED
    BY <1>2, <1>3, <1>4, <1>5, <2>1 DEF CallTypes
<1>8. OneOperation
  BY DEF Calls!Init, OneOperation, Asked
<1>9. KeptOnDevice
  BY <1>3, <1>5 DEF Calls!Init, KeptOnDevice, Calls!NoOp
<1> QED
  BY <1>7, <1>8, <1>9 DEF CallInv

LEMMA CallNext ==
  ASSUME Calls!CallsAssumption, CallInv, OnePressAMatch, OnePressAMatch',
         [Calls!Next]_Calls!vars
  PROVE  CallInv'
<1>1. CASE UNCHANGED Calls!vars
  <2>1. UNCHANGED <<booking, optimistic, opRef, opStored, opFresh, message, call, stray, presses,
                    homeRestarts, started, requestOf>>
    BY <1>1 DEF Calls!vars
  <2>2. ServerTypes' /\ HomeTypes' /\ Reading' = Reading
    BY <2>1 DEF CallInv, CallTypes, ServerTypes, HomeTypes, Reading
  <2>3. CallTypes'
    BY <2>1, <2>2 DEF CallInv, CallTypes
  <2>4. OneOperation' /\ KeptOnDevice'
    BY <2>1 DEF CallInv, OneOperation, Asked, KeptOnDevice
  <2> QED
    BY <2>3, <2>4 DEF CallInv
<1>2. ASSUME NEW c \in Calls!Caller, Calls!Handle(c)
      PROVE  CallInv'
  BY <1>2, ServeSteps, TransportSteps, LoseStep, ReadStep, StoreStep, AnswerStep
     DEF Calls!Handle
<1> QED
  BY <1>1, <1>2, StrayStep, RestartStep, RequestStep, PressStepStep DEF Calls!Next

\* BookingService.requestBooking and the operation ids of home.tsx: from the
\* press to the report, through refused credentials, lost answers, calls served
\* late and restarts, one booking comes of a request, provided that no second
\* press for a match is made while the first is under way.
THEOREM RequestsBookOnce ==
  ASSUME Calls!CallsAssumption
  PROVE  Calls!Spec /\ []OnePressAMatch => [](Calls!TypeOK /\ Calls!RequestedOnce)
<1>1. Calls!Init => CallInv
  BY CallInit
<1>2. CallInv /\ OnePressAMatch /\ OnePressAMatch' /\ [Calls!Next]_Calls!vars => CallInv'
  BY CallNext
<1>3. CallInv => Calls!TypeOK /\ Calls!RequestedOnce
  <2> SUFFICES ASSUME CallInv PROVE Calls!RequestedOnce
    BY CallTypesRight DEF CallInv
  <2>1. requestOf \in [Calls!Bkg -> Nat]
    BY DEF CallInv, CallTypes, ServerTypes
  <2>2. \A b \in Calls!Bkg : requestOf[b] # 0 => Asked(b, requestOf[b])
    BY DEF Asked
  <2> QED
    BY <2>1, <2>2 DEF CallInv, OneOperation, Calls!RequestedOnce
<1> QED
  BY <1>1, <1>2, <1>3, PTL DEF Calls!Spec

-----------------------------------------------------------------------------
(***************************************************************************)
(* That calls end.                                                         *)
(***************************************************************************)
\* A request that the home screen shows as pending is one that was sent and
\* not yet answered or given up.
About(c, t) == c \in Tap /\ call[c].at \in {"called", "served"} /\ call[c].on[1] = t
PendingIsAsked == \A t \in Trip : optimistic[t] = "pending" => \E c \in Tap : About(c, t)

\* How far a call has come; what it is about is told only as far as its end
\* needs it, so that a second press for a match may come at any time.
Progress(V) ==
  [at : {"idle", "reading", "storing", "checking", "called", "served"},
   does : Calls!Does, on : V, tries : 0..1, existed : BOOLEAN, was : V, result : V]

ProgressShape(c, r) ==
  /\ c \in Tap => /\ r.does = "request" /\ r.at # "checking"
                  /\ r.at = "reading" => r.on \in Trip
                  /\ r.at \in {"storing", "called", "served"} => r.on[1] \in Trip
  /\ c \in Calls!Actor =>
       \/ r.at = "idle"
       \/ r.at \in {"checking", "called", "served"} /\ r.does \in Calls!Step

ProgressInv ==
  /\ optimistic \in [Trip -> {"none", "pending", "confirmed"}]
  /\ \E V : call \in [Calls!Caller -> Progress(V)]
  /\ \A c \in Calls!Caller : ProgressShape(c, call[c])
  /\ PendingIsAsked

\* What a call becomes when it is handled, and what the home screen shows then.
Moved(c, r) ==
  \/ call[c].at = "reading" /\ r.at = "storing" /\ UNCHANGED optimistic
  \/ /\ call[c].at = "storing" /\ r.at = "called" /\ c \in Tap /\ r.on = call[c].on
     /\ optimistic' = [optimistic EXCEPT ![r.on[1]] = "pending"]
  \/ call[c].at = "checking" /\ r.at = "called" /\ UNCHANGED optimistic
  \/ /\ call[c].at = "called" /\ r.at \in {"called", "served"} /\ r.on = call[c].on
     /\ r.at = "called" => call[c].tries = 0 /\ r.tries = 1
     /\ UNCHANGED optimistic
  \/ /\ call[c].at \in {"checking", "called", "served"} /\ r.at = "idle"
     /\ IF c \in Tap
        THEN \E s \in {"none", "confirmed"} : optimistic' = [optimistic EXCEPT ![call[c].on[1]] = s]
        ELSE UNCHANGED optimistic

Became(c) ==
  \E V, r : /\ call \in [Calls!Caller -> Progress(V)] /\ r \in Progress(V)
            /\ call' = [call EXCEPT ![c] = r]
            /\ ProgressShape(c, r) /\ Moved(c, r)

LEMMA ProgressGrows ==
  ASSUME NEW V, NEW W, call \in [Calls!Caller -> Progress(V)]
  PROVE  call \in [Calls!Caller -> Progress(V \cup W)]
<1>1. Progress(V) \subseteq Progress(V \cup W)
  BY DEF Progress
<1> QED
  BY <1>1

LEMMA IdleProgress ==
  /\ \A V : Calls!Idle \in Progress(V \cup {Calls!NoBooking, "absent"})
  /\ Calls!Idle.at = "idle" /\ Calls!Idle.does = "request"
  /\ \A c \in Calls!Caller : ProgressShape(c, Calls!Idle)
BY DEF Calls!Idle, Progress, ProgressShape, Calls!Does

\* Any call that fails
LEMMA FailMoves ==
  ASSUME ProgressInv, NEW c \in Calls!Caller, Calls!FailCall(c),
         call[c].at \in {"checking", "called", "served"}
  PROVE  Became(c)
<1>1. PICK V : call \in [Calls!Caller -> Progress(V)]
  BY DEF ProgressInv
<1> DEFINE W == V \cup {Calls!NoBooking, "absent"}
<1>2. call \in [Calls!Caller -> Progress(W)] /\ Calls!Idle \in Progress(W)
  BY <1>1, ProgressGrows, IdleProgress
<1>3. ProgressShape(c, Calls!Idle) /\ Calls!Idle.at = "idle"
  BY IdleProgress
<1> HIDE DEF W
<1>4. /\ call' = [call EXCEPT ![c] = Calls!Idle]
      /\ IF c \in Tap
         THEN optimistic' = [optimistic EXCEPT ![call[c].on[1]] = "none"]
         ELSE UNCHANGED optimistic
  BY DEF Calls!FailCall
<1>5. Moved(c, Calls!Idle)
  BY <1>3, <1>4 DEF Moved
<1> QED
  BY <1>2, <1>3, <1>4, <1>5 DEF Became

\* A call that is told of booking `b`
LEMMA ToldMoves ==
  ASSUME ProgressInv, NEW c \in Calls!Caller, call[c].at = "called",
         NEW b, NEW e \in BOOLEAN, Calls!Tell(c, b, e), UNCHANGED optimistic
  PROVE  Became(c)
<1>1. PICK V : call \in [Calls!Caller -> Progress(V)]
  BY DEF ProgressInv
<1> DEFINE W == V \cup {b, booking'[b]}
           r == [call[c] EXCEPT !.at = "served", !.result = b, !.existed = e,
                                !.was = booking'[b]]
<1>2. call \in [Calls!Caller -> Progress(W)]
  BY <1>1, ProgressGrows
<1>3. call[c] \in Progress(W) /\ b \in W /\ booking'[b] \in W
  BY <1>2
<1> HIDE DEF W
<1>4. /\ r \in Progress(W) /\ r.at = "served" /\ r.on = call[c].on /\ r.does = call[c].does
  BY <1>3 DEF Progress
<1>5. call' = [call EXCEPT ![c] = r]
  BY <1>2, <1>3 DEF Calls!Tell, Progress
<1> HIDE DEF r
<1>6. ProgressShape(c, r)
  BY <1>4 DEF ProgressInv, ProgressShape
<1>7. Moved(c, r)
  BY <1>4 DEF Moved
<1> QED
  BY <1>2, <1>4, <1>5, <1>6, <1>7 DEF Became

\* A call that goes on
LEMMA GoesOn ==
  ASSUME Calls!CallsAssumption, ProgressInv, NEW c \in Calls!Caller,
         \/ Calls!Refuse(c) \/ Calls!CheckActor(c)
         \/ Calls!ReadOperation(c) \/ Calls!StoreOperation(c),
         ~Calls!FailCall(c)
  PROVE  Became(c)
<1>1. PICK V : call \in [Calls!Caller -> Progress(V)]
  BY DEF ProgressInv
<1>2. call[c] \in Progress(V) /\ ProgressShape(c, call[c])
      /\ (c \in Tap \/ c \in Calls!Actor) /\ (c \in Tap => c \notin Calls!Actor)
  BY <1>1 DEF ProgressInv, Calls!Caller, Calls!CallsAssumption
<1>3. CASE Calls!Refuse(c)
  <2> DEFINE r == [call[c] EXCEPT !.tries = 1]
  <2>1. call' = [call EXCEPT ![c] = r] /\ UNCHANGED optimistic
        /\ call[c].at = "called" /\ call[c].tries = 0
    BY <1>1, <1>2, <1>3 DEF Calls!Refuse, Calls!homeVars, Progress
  <2>2. /\ r \in Progress(V) /\ r.at = "called" /\ r.on = call[c].on /\ r.does = call[c].does
        /\ r.tries = 1
    BY <1>2, <2>1 DEF Progress
  <2> HIDE DEF r
  <2>3. ProgressShape(c, r) /\ Moved(c, r)
    BY <1>2, <2>1, <2>2 DEF ProgressShape, Moved
  <2> QED
    BY <1>1, <2>1, <2>2, <2>3 DEF Became
<1>4. CASE Calls!CheckActor(c)
  <2> DEFINE r == [call[c] EXCEPT !.at = "called"]
  <2>1. call' = [call EXCEPT ![c] = r] /\ UNCHANGED optimistic /\ call[c].at = "checking"
    BY <1>1, <1>2, <1>4 DEF Calls!CheckActor, Calls!homeVars, Progress
  <2>2. r \in Progress(V) /\ r.at = "called" /\ r.on = call[c].on /\ r.does = call[c].does
    BY <1>2 DEF Progress
  <2> HIDE DEF r
  <2>3. ProgressShape(c, r) /\ Moved(c, r)
    BY <1>2, <2>1, <2>2 DEF ProgressShape, Moved
  <2> QED
    BY <1>1, <2>1, <2>2, <2>3 DEF Became
<1>5. CASE Calls!ReadOperation(c)
  <2> DEFINE t == call[c].on
             o == IF opStored[t] # Calls!NoOp THEN opStored[t] ELSE opFresh + 1
             W == V \cup {<<t, o>>}
             r == [call[c] EXCEPT !.at = "storing", !.on = <<t, o>>]
  <2>1. call' = [call EXCEPT ![c] = r] /\ UNCHANGED optimistic /\ call[c].at = "reading"
    BY <1>1, <1>2, <1>5 DEF Calls!ReadOperation, Progress
  <2> HIDE DEF o
  <2>2. call \in [Calls!Caller -> Progress(W)] /\ call[c] \in Progress(W)
    BY <1>1, ProgressGrows
  <2>3. r \in Progress(W) /\ r.at = "storing" /\ r.on[1] = t /\ r.does = call[c].does
    BY <2>2 DEF Progress
  <2> HIDE DEF r, W
  <2>4. c \in Tap /\ t \in Trip
    BY <1>2, <2>1 DEF ProgressShape
  <2>5. ProgressShape(c, r) /\ Moved(c, r)
    BY <1>2, <2>1, <2>3, <2>4 DEF ProgressShape, Moved
  <2> QED
    BY <2>1, <2>2, <2>3, <2>5 DEF Became
<1>6. CASE Calls!StoreOperation(c)
  <2> DEFINE r == [call[c] EXCEPT !.at = "called"]
  <2>1. /\ call' = [call EXCEPT ![c] = r] /\ call[c].at = "storing"
        /\ optimistic' = [optimistic EXCEPT ![call[c].on[1]] = "pending"]
    BY <1>1, <1>2, <1>6 DEF Calls!StoreOperation, Progress
  <2>2. r \in Progress(V) /\ r.at = "called" /\ r.on = call[c].on /\ r.does = call[c].does
    BY <1>2 DEF Progress
  <2> HIDE DEF r
  <2>3. c \in Tap
    BY <1>2, <2>1 DEF ProgressShape
  <2>4. ProgressShape(c, r) /\ Moved(c, r)
    BY <1>2, <2>1, <2>2, <2>3 DEF ProgressShape, Moved
  <2> QED
    BY <1>1, <2>1, <2>2, <2>4 DEF Became
<1> QED
  BY <1>3, <1>4, <1>5, <1>6

\* A call that is answered
LEMMA FinishMoves ==
  ASSUME Calls!CallsAssumption, ProgressInv, NEW c \in Calls!Caller,
         Calls!FinishRequest(c) \/ Calls!FinishStep(c)
  PROVE  Became(c)
<1>1. PICK V : call \in [Calls!Caller -> Progress(V)]
  BY DEF ProgressInv
<1> DEFINE W == V \cup {Calls!NoBooking, "absent"}
<1>2. call \in [Calls!Caller -> Progress(W)] /\ Calls!Idle \in Progress(W)
  BY <1>1, ProgressGrows, IdleProgress
<1>3. ProgressShape(c, Calls!Idle) /\ Calls!Idle.at = "idle"
  BY IdleProgress
<1>4. /\ ProgressShape(c, call[c]) /\ "request" \notin Calls!Step
      /\ (c \in Tap \/ c \in Calls!Actor) /\ (c \in Tap => c \notin Calls!Actor)
  BY DEF ProgressInv, Calls!Caller, Calls!CallsAssumption, Calls!Step
<1> HIDE DEF W
<1>5. /\ call' = [call EXCEPT ![c] = Calls!Idle] /\ call[c].at = "served"
      /\ IF c \in Tap
         THEN optimistic' = [optimistic EXCEPT ![call[c].on[1]] = "confirmed"]
         ELSE UNCHANGED optimistic
  BY <1>4 DEF Calls!FinishRequest, Calls!FinishStep, Calls!homeVars, ProgressShape
<1>6. Moved(c, Calls!Idle)
  BY <1>3, <1>5 DEF Moved
<1> QED
  BY <1>2, <1>3, <1>5, <1>6 DEF Became

LEMMA HandleMoves ==
  ASSUME Calls!CallsAssumption, ProgressInv, NEW c \in Calls!Caller, Calls!Handle(c)
  PROVE  Became(c)
<1>1. CASE Calls!FailCall(c)
  <2>1. CASE call[c].at \in {"checking", "called", "served"}
    BY <1>1, <2>1, FailMoves
  <2>2. CASE call[c].at \notin {"checking", "called", "served"}
    <3>1. Calls!ReadOperation(c) \/ Calls!StoreOperation(c)
      BY <2>2 DEF Calls!Handle, Calls!ServeRequest, Calls!ServeStep, Calls!Refuse, Calls!Lose,
                  Calls!LoseAnswer, Calls!FinishRequest, Calls!CheckActor, Calls!FinishStep
    <3>2. call[c].at # "idle" /\ call' = [call EXCEPT ![c] = Calls!Idle]
          /\ c \in Calls!Caller /\ \E V : call \in [Calls!Caller -> Progress(V)]
      BY <1>1, <3>1 DEF Calls!FailCall, Calls!ReadOperation, Calls!StoreOperation, ProgressInv
    <3>3. call'[c].at = "idle"
      BY <3>2, IdleProgress
    <3>4. call'[c].at \in {"storing", "called"}
      <4>1. PICK V : call \in [Calls!Caller -> Progress(V)]
        BY <3>2
      <4> QED
        BY <3>1, <4>1 DEF Calls!ReadOperation, Calls!StoreOperation, Progress
    <3> QED
      BY <3>3, <3>4
  <2> QED
    BY <2>1, <2>2
<1>2. CASE ~Calls!FailCall(c)
  <2>1. CASE Calls!ServeRequest(c) \/ Calls!ServeStep(c)
    <3>1. call[c].at = "called" /\ UNCHANGED optimistic
          /\ \E b, e : e \in BOOLEAN /\ Calls!Tell(c, b, e)
      BY <1>2, <2>1 DEF Calls!ServeRequest, Calls!ServeStep, Calls!homeVars
    <3> QED
      BY <3>1, ToldMoves
  <2> QED
    BY <1>2, <2>1, GoesOn, FinishMoves DEF Calls!Handle, Calls!Lose, Calls!LoseAnswer
<1> QED
  BY <1>1, <1>2

\* The steps, as the end of calls sees them: a call begins, or the app is
\* started anew.
Begins(c) ==
  \E V, r :
    /\ call[c].at = "idle"
    /\ call \in [Calls!Caller -> Progress(V)] /\ r \in Progress(V)
    /\ call' = [call EXCEPT ![c] = r] /\ ProgressShape(c, r)
    /\ \/ UNCHANGED optimistic
       \/ /\ c \in Tap /\ r.at = "called" /\ r.on[1] \in Trip
          /\ optimistic' = [optimistic EXCEPT ![r.on[1]] = "pending"]

\* A press, from nothing
Asking(a, x) == [Calls!Idle EXCEPT !.at = a, !.on = x]
Moving(s, x) == [Calls!Idle EXCEPT !.at = "checking", !.does = s, !.on = x]

LEMMA BegunCall ==
  ASSUME NEW W, Calls!Idle \in Progress(W), NEW x \in W
  PROVE  /\ \A a \in {"reading", "called"} :
              /\ Asking(a, x) \in Progress(W) /\ Asking(a, x).at = a
              /\ Asking(a, x).does = "request" /\ Asking(a, x).on = x
         /\ \A s \in Calls!Does :
              /\ Moving(s, x) \in Progress(W)
              /\ Moving(s, x).at = "checking" /\ Moving(s, x).does = s
<1>1. Calls!Idle.does = "request"
  BY IdleProgress
<1> HIDE DEF Calls!Idle
<1> QED
  BY <1>1 DEF Progress, Asking, Moving

LEMMA PressMoves ==
  ASSUME Calls!CallsAssumption, ProgressInv, NEW c \in Calls!Caller, NEW V, NEW x, NEW r,
         call \in [Calls!Caller -> Progress(V)], call[c].at = "idle",
         call' = [call EXCEPT ![c] = r],
         \/ /\ c \in Tap /\ x[1] \in Trip /\ r = Asking("called", x)
            /\ optimistic' = [optimistic EXCEPT ![x[1]] = "pending"]
         \/ /\ c \in Tap /\ x \in Trip /\ r = Asking("reading", x)
            /\ UNCHANGED optimistic
         \/ /\ c \in Calls!Actor /\ UNCHANGED optimistic
            /\ \E s \in Calls!Step : r = Moving(s, x)
  PROVE  Begins(c)
<1> DEFINE W == (V \cup {x}) \cup {Calls!NoBooking, "absent"}
<1>1. call \in [Calls!Caller -> Progress(W)]
  <2>1. call \in [Calls!Caller -> Progress(V \cup {x})]
    BY ProgressGrows
  <2> QED
    BY <2>1, ProgressGrows
<1>2. Calls!Idle \in Progress(W) /\ x \in W
  BY IdleProgress
<1>3. c \in Tap => c \notin Calls!Actor
  BY DEF Calls!CallsAssumption
<1> HIDE DEF W
<1>4. /\ r \in Progress(W) /\ ProgressShape(c, r)
      /\ \/ UNCHANGED optimistic
         \/ /\ c \in Tap /\ r.at = "called" /\ r.on[1] \in Trip
            /\ optimistic' = [optimistic EXCEPT ![r.on[1]] = "pending"]
  <2>1. CASE c \in Tap
    <3>1. PICK a \in {"reading", "called"} :
            /\ r = Asking(a, x)
            /\ a = "reading" => x \in Trip /\ UNCHANGED optimistic
            /\ a = "called" => /\ x[1] \in Trip
                              /\ optimistic' = [optimistic EXCEPT ![x[1]] = "pending"]
      BY <1>3, <2>1
    <3>2. r \in Progress(W) /\ r.at = a /\ r.does = "request" /\ r.on = x
      BY <1>2, <3>1, BegunCall
    <3>3. ProgressShape(c, r)
      BY <1>3, <2>1, <3>1, <3>2 DEF ProgressShape
    <3> QED
      BY <2>1, <3>1, <3>2, <3>3
  <2>2. CASE c \in Calls!Actor
    <3>1. PICK s \in Calls!Step : r = Moving(s, x)
      BY <1>3, <2>2
    <3>2. r \in Progress(W) /\ r.at = "checking" /\ r.does = s
      BY <1>2, <3>1, BegunCall DEF Calls!Does
    <3>3. ProgressShape(c, r)
      BY <1>3, <2>2, <3>2 DEF ProgressShape
    <3> QED
      BY <1>3, <2>2, <3>2, <3>3
  <2> QED
    BY <2>1, <2>2 DEF Calls!Caller
<1> QED
  BY <1>1, <1>4 DEF Begins

LEMMA Pressed ==
  ASSUME Calls!CallsAssumption, ProgressInv,
         \/ \E c \in Tap, t \in Trip : Calls!PressRequest(c, t)
         \/ \E c \in Calls!Actor, b \in Calls!Bkg, s \in Calls!Step : Calls!PressStep(c, b, s)
  PROVE  \E c \in Calls!Caller : Begins(c)
<1>1. PICK V : call \in [Calls!Caller -> Progress(V)]
  BY DEF ProgressInv
<1>2. ASSUME NEW c \in Tap, NEW t \in Trip, Calls!PressRequest(c, t)
      PROVE  Begins(c)
  <2>1. call[c].at = "idle" /\ c \in Calls!Caller
    BY <1>2 DEF Calls!PressRequest, Calls!Caller
  <2>2. CASE opRef[t] # Calls!NoOp
    <3> DEFINE x == <<t, opRef[t]>>
               r == Asking("called", x)
    <3>1. call' = [call EXCEPT ![c] = r] /\ optimistic' = [optimistic EXCEPT ![t] = "pending"]
      BY <1>2, <2>2 DEF Calls!PressRequest, Asking
    <3>2. x[1] = t
      OBVIOUS
    <3>3. PICK y, q : y = x /\ q = r
      OBVIOUS
    <3> HIDE DEF x
    <3>4. call' = [call EXCEPT ![c] = q] /\ optimistic' = [optimistic EXCEPT ![y[1]] = "pending"]
          /\ y[1] \in Trip /\ q = Asking("called", y)
      BY <3>1, <3>2, <3>3
    <3> QED
      BY <1>1, <2>1, <3>4, PressMoves
  <2>3. CASE opRef[t] = Calls!NoOp
    <3> DEFINE r == Asking("reading", t)
    <3>1. call' = [call EXCEPT ![c] = r] /\ UNCHANGED optimistic
      BY <1>2, <2>3 DEF Calls!PressRequest, Asking
    <3> QED
      BY <1>1, <2>1, <3>1, PressMoves
  <2> QED
    BY <2>2, <2>3
<1>3. ASSUME NEW c \in Calls!Actor, NEW b \in Calls!Bkg, NEW s \in Calls!Step,
             Calls!PressStep(c, b, s)
      PROVE  Begins(c)
  <2> DEFINE r == Moving(s, b)
  <2>1. /\ call[c].at = "idle" /\ c \in Calls!Caller
        /\ call' = [call EXCEPT ![c] = r] /\ UNCHANGED optimistic
    BY <1>3 DEF Calls!PressStep, Calls!homeVars, Calls!Caller, Moving
  <2> QED
    BY <1>1, <2>1, PressMoves
<1> QED
  BY <1>2, <1>3 DEF Calls!Caller

\* A call changes to `r`, and the screen with it.
LEMMA ProgressKept ==
  ASSUME Calls!CallsAssumption, ProgressInv, NEW c \in Calls!Caller, NEW V, NEW r,
         call \in [Calls!Caller -> Progress(V)], r \in Progress(V),
         call' = [call EXCEPT ![c] = r], ProgressShape(c, r),
         \/ Moved(c, r)
         \/ /\ call[c].at = "idle"
            /\ \/ UNCHANGED optimistic
               \/ /\ c \in Tap /\ r.at = "called" /\ r.on[1] \in Trip
                  /\ optimistic' = [optimistic EXCEPT ![r.on[1]] = "pending"]
  PROVE  ProgressInv'
<1>1. /\ call' \in [Calls!Caller -> Progress(V)] /\ call'[c] = r
      /\ \A d \in Calls!Caller \ {c} : call'[d] = call[d]
  OBVIOUS
<1>2. \A d \in Calls!Caller : ProgressShape(d, call'[d])
  BY <1>1 DEF ProgressInv
<1>3. /\ ProgressShape(c, call[c]) /\ Tap \subseteq Calls!Caller
      /\ (c \in Tap \/ c \in Calls!Actor) /\ (c \in Tap => c \notin Calls!Actor)
  BY DEF ProgressInv, Calls!Caller, Calls!CallsAssumption
<1>4. \/ /\ UNCHANGED optimistic
         /\ \A t \in Trip : About(c, t) => About(c, t)'
      \/ /\ c \in Tap /\ r.at = "called" /\ r.on[1] \in Trip
         /\ optimistic' = [optimistic EXCEPT ![r.on[1]] = "pending"]
         /\ call[c].at \notin {"called", "served"}
      \/ /\ c \in Tap /\ call[c].on[1] \in Trip
         /\ \E s \in {"none", "confirmed"} :
              optimistic' = [optimistic EXCEPT ![call[c].on[1]] = s]
  BY <1>1, <1>3 DEF Moved, ProgressShape, About
<1>5. optimistic' \in [Trip -> {"none", "pending", "confirmed"}]
  BY <1>4 DEF ProgressInv
<1>6. ASSUME NEW t \in Trip, optimistic'[t] = "pending"
      PROVE  \E d \in Tap : About(d, t)'
  <2>1. \A d \in Tap \ {c} : About(d, t) => About(d, t)'
    BY <1>1, <1>3 DEF About
  <2>2. CASE optimistic[t] = "pending"
    <3>1. PICK d \in Tap : About(d, t)
      BY <2>2 DEF ProgressInv, PendingIsAsked
    <3>2. CASE d # c
      BY <2>1, <3>1, <3>2
    <3>3. CASE d = c
      <4>1. call[c].on[1] = t /\ call[c].at \in {"called", "served"}
        BY <3>1, <3>3 DEF About
      <4>2. optimistic \in [Trip -> {"none", "pending", "confirmed"}]
        BY DEF ProgressInv
      <4>3. ~\E s \in {"none", "confirmed"} :
                 optimistic' = [optimistic EXCEPT ![call[c].on[1]] = s]
        BY <1>6, <4>1, <4>2
      <4>4. About(c, t)'
        BY <1>4, <3>1, <3>3, <4>1, <4>3
      <4> QED
        BY <3>1, <3>3, <4>4
    <3> QED
      BY <3>2, <3>3
  <2>3. CASE optimistic[t] # "pending"
    <3>1. optimistic \in [Trip -> {"none", "pending", "confirmed"}]
      BY DEF ProgressInv
    <3>2. c \in Tap /\ r.at = "called" /\ r.on[1] = t
      BY <1>4, <1>6, <2>3, <3>1
    <3> QED
      BY <1>1, <3>2 DEF About
  <2> QED
    BY <2>2, <2>3
<1>7. PendingIsAsked'
  BY <1>6 DEF PendingIsAsked
<1> QED
  BY <1>1, <1>2, <1>5, <1>7 DEF ProgressInv

AllIdle ==
  /\ call' = [c \in Calls!Caller |-> IF c \in Tap THEN Calls!Idle ELSE call[c]]
  /\ optimistic' = [t \in Trip |-> "none"]

LEMMA CallSteps ==
  ASSUME Calls!CallsAssumption, ProgressInv, [Calls!Next]_Calls!vars
  PROVE  \/ UNCHANGED <<call, optimistic>>
         \/ \E c \in Calls!Caller : Calls!Handle(c) /\ Became(c)
         \/ \E c \in Calls!Caller : Begins(c)
         \/ AllIdle
<1>1. ASSUME NEW c \in Calls!Caller, Calls!Handle(c) PROVE Became(c)
  BY <1>1, HandleMoves
<1>2. ASSUME \/ \E c \in Tap, t \in Trip : Calls!PressRequest(c, t)
             \/ \E c \in Calls!Actor, b \in Calls!Bkg, s \in Calls!Step : Calls!PressStep(c, b, s)
      PROVE  \E c \in Calls!Caller : Begins(c)
  BY <1>2, Pressed
<1>3. Calls!Restart => AllIdle
  BY DEF Calls!Restart, AllIdle
<1>4. Calls!ServeStray \/ UNCHANGED Calls!vars => UNCHANGED <<call, optimistic>>
  BY DEF Calls!ServeStray, Calls!vars, Calls!homeVars
<1> QED
  BY <1>1, <1>2, <1>3, <1>4 DEF Calls!Next

LEMMA ProgressNext ==
  ASSUME Calls!CallsAssumption, ProgressInv, [Calls!Next]_Calls!vars
  PROVE  ProgressInv'
<1>1. CASE UNCHANGED <<call, optimistic>>
  BY <1>1 DEF ProgressInv, PendingIsAsked, About
<1>2. ASSUME NEW c \in Calls!Caller, Became(c) \/ Begins(c) PROVE ProgressInv'
  BY <1>2, ProgressKept DEF Became, Begins
<1>3. CASE AllIdle
  <2>1. PICK V : call \in [Calls!Caller -> Progress(V)]
    BY DEF ProgressInv
  <2> DEFINE W == V \cup {Calls!NoBooking, "absent"}
  <2>2. call \in [Calls!Caller -> Progress(W)] /\ Calls!Idle \in Progress(W)
    BY <2>1, ProgressGrows, IdleProgress
  <2> HIDE DEF W
  <2>3. call' \in [Calls!Caller -> Progress(W)]
    BY <1>3, <2>2 DEF AllIdle
  <2>4. \A c \in Calls!Caller : ProgressShape(c, call'[c])
    BY <1>3, IdleProgress DEF AllIdle, ProgressInv
  <2> QED
    BY <1>3, <2>3, <2>4 DEF AllIdle, ProgressInv, PendingIsAsked
<1> QED
  BY <1>1, <1>2, <1>3, CallSteps

LEMMA ProgressInit == Calls!CallsAssumption /\ Calls!Init => ProgressInv
<1> SUFFICES ASSUME Calls!CallsAssumption, Calls!Init PROVE ProgressInv
  OBVIOUS
<1>1. call = [c \in Calls!Caller |-> Calls!Idle] /\ optimistic = [t \in Trip |-> "none"]
  BY DEF Calls!Init
<1>2. Calls!Idle \in Progress({Calls!NoBooking, "absent"})
  BY DEF Calls!Idle, Progress, Calls!Does
<1> HIDE DEF Calls!Idle
<1>3. call \in [Calls!Caller -> Progress({Calls!NoBooking, "absent"})]
  BY <1>1, <1>2
<1>4. \A c \in Calls!Caller : ProgressShape(c, call[c])
  BY <1>1, IdleProgress
<1> QED
  BY <1>1, <1>3, <1>4 DEF ProgressInv, PendingIsAsked

\* An assumption on the platform: each request that the device sends is answered or
\* given up in the end.  The code does not give it: privilegedCallableTransport
\* waits for `fetch` without a limit, and a request that hangs leaves its call
\* unfinished until the app is started anew.  The form is what weak fairness says of
\* Calls!Handle(c), with the condition under which it can be taken in the place of
\* ENABLED.
Answered(c) == []<>(call[c].at = "idle") \/ []<><<Calls!Handle(c)>>_Calls!vars

\* One step of the system, seen from one call
LEMMA CallStep ==
  ASSUME Calls!CallsAssumption, ProgressInv, NEW c \in Calls!Caller, [Calls!Next]_Calls!vars
  PROVE  /\ Calls!Handle(c) => Became(c)
         /\ \/ call[c].at = "idle"
            \/ call'[c] = call[c] /\ ~Calls!Handle(c)
            \/ call'[c].at = "idle" /\ AllIdle
            \/ Became(c)
<1>1. ASSUME NEW d \in Calls!Caller \ {c}, Became(d) \/ Begins(d)
      PROVE  call'[c] = call[c]
  BY <1>1 DEF Became, Begins
<1>2. Begins(c) => call[c].at = "idle"
  BY DEF Begins
<1>3. AllIdle => call'[c] = call[c] \/ call'[c].at = "idle"
  BY IdleProgress DEF AllIdle
<1>4. Calls!Handle(c) => Became(c)
  BY HandleMoves
<1> QED
  BY <1>1, <1>2, <1>3, <1>4, CallSteps

\* Where a call goes, and what the screen shows of the match it is about
LEMMA CallGoes ==
  ASSUME Calls!CallsAssumption, ProgressInv, NEW c \in Calls!Caller, Became(c)
  PROVE  /\ call[c].at = "reading" => call'[c].at = "storing"
         /\ call[c].at \in {"storing", "checking"} => call'[c].at \in {"called", "idle"}
         /\ call[c].at = "called" =>
              \/ call[c].tries = 0 /\ call'[c].at = "called" /\ call'[c].tries = 1
              \/ call'[c].at \in {"served", "idle"}
         /\ call[c].at = "served" => call'[c].at = "idle"
         /\ call[c].at # "idle" /\ call'[c].tries \in 0..1
         /\ \A t \in Trip : About(c, t) => About(c, t)' \/ optimistic'[t] # "pending"
<1>1. PICK V, r : /\ call \in [Calls!Caller -> Progress(V)] /\ r \in Progress(V)
                  /\ call' = [call EXCEPT ![c] = r] /\ ProgressShape(c, r) /\ Moved(c, r)
  BY DEF Became
<1>2. call'[c] = r /\ r.tries \in 0..1
  BY <1>1 DEF Progress
<1>3. \A t \in Trip : About(c, t) => About(c, t)' \/ optimistic'[t] # "pending"
  BY <1>1, <1>2 DEF About, Moved, ProgressInv
<1> QED
  BY <1>1, <1>2, <1>3 DEF Moved

\* BookingService and the callable transport add nothing to the platform's waiting:
\* if no request hangs (Answered), every call, of the sender's home screen and of the
\* cards, ends, although credentials are refused, calls and answers are lost, the app
\* is started anew and other calls come between.
THEOREM CallsEnd ==
  ASSUME Calls!CallsAssumption, NEW c \in Calls!Caller
  PROVE  Calls!Spec /\ Answered(c) => (call[c].at # "idle" ~> call[c].at = "idle")
<1> DEFINE Where(a) == ProgressInv /\ call[c].at = a
           R == Where("reading")
           S == Where("storing") \/ Where("checking")
           C == Where("called") /\ call[c].tries = 0
           D == Where("called") /\ call[c].tries = 1
           V == Where("served")
           I == call[c].at = "idle"
           N == call[c].at # "idle"
           Handle == Calls!Handle(c)
<1>1. Calls!Init => ProgressInv
  BY ProgressInit
<1>2. ProgressInv /\ [Calls!Next]_Calls!vars => ProgressInv'
  BY ProgressNext
<1>3. ProgressInv => R \/ S \/ C \/ D \/ V \/ I
  <2> SUFFICES ASSUME ProgressInv PROVE R \/ S \/ C \/ D \/ V \/ I
    OBVIOUS
  <2>1. PICK W : call \in [Calls!Caller -> Progress(W)]
    BY DEF ProgressInv
  <2>2. /\ call[c].at \in {"idle", "reading", "storing", "checking", "called", "served"}
        /\ call[c].tries \in 0..1
    BY <2>1 DEF Progress
  <2> QED
    BY <2>2
<1>4. ASSUME R \/ S \/ C \/ D \/ V, [Calls!Next]_Calls!vars
      PROVE  /\ R => (R' /\ ~Handle) \/ S' \/ I'
             /\ S => (S' /\ ~Handle) \/ C' \/ D' \/ I'
             /\ C => (C' /\ ~Handle) \/ D' \/ V' \/ I'
             /\ D => (D' /\ ~Handle) \/ V' \/ I'
             /\ V => (V' /\ ~Handle) \/ I'
  <2>1. ProgressInv /\ ProgressInv' /\ call[c].at # "idle"
    BY <1>2, <1>4
  <2>2. CASE call'[c] = call[c] /\ ~Calls!Handle(c)
    BY <2>1, <2>2
  <2>3. CASE call'[c].at = "idle"
    BY <2>3
  <2>4. CASE Became(c)
    BY <2>1, <2>4, CallGoes
  <2> QED
    BY <2>1, <2>2, <2>3, <2>4, CallStep, <1>4
<1>5. /\ R /\ [Calls!Next]_Calls!vars => R' \/ S' \/ I'
      /\ S /\ [Calls!Next]_Calls!vars => S' \/ C' \/ D' \/ I'
      /\ C /\ [Calls!Next]_Calls!vars => C' \/ D' \/ V' \/ I'
      /\ D /\ [Calls!Next]_Calls!vars => D' \/ V' \/ I'
      /\ V /\ [Calls!Next]_Calls!vars => V' \/ I'
      /\ R /\ [Calls!Next]_Calls!vars /\ <<Handle>>_Calls!vars => S' \/ I'
      /\ S /\ [Calls!Next]_Calls!vars /\ <<Handle>>_Calls!vars => C' \/ D' \/ I'
      /\ C /\ [Calls!Next]_Calls!vars /\ <<Handle>>_Calls!vars => D' \/ V' \/ I'
      /\ D /\ [Calls!Next]_Calls!vars /\ <<Handle>>_Calls!vars => V' \/ I'
      /\ V /\ [Calls!Next]_Calls!vars /\ <<Handle>>_Calls!vars => I'
  BY <1>4
<1>6. R \/ S \/ C \/ D \/ V => ~I
  OBVIOUS
<1>7. Answered(c) => []<>I \/ []<><<Handle>>_Calls!vars
  BY DEF Answered
<1> HIDE DEF R, S, C, D, V, I, N, Handle
<1>8. Calls!Spec /\ Answered(c) => (N ~> I)
  BY <1>1, <1>2, <1>3, <1>5, <1>6, <1>7, PTL DEF Calls!Spec
<1> QED
  BY <1>8 DEF N, I

\* home.tsx: a request that the screen shows as pending is one that was sent; and if
\* no request hangs (Answered), the screen ends the waiting for it, with the booking
\* or with an error, also when several presses about the match come between.
THEOREM RequestsAreSettled ==
  ASSUME Calls!CallsAssumption, NEW c \in Tap, NEW t \in Trip
  PROVE  Calls!Spec =>
           /\ []PendingIsAsked
           /\ Answered(c) => (About(c, t) ~> optimistic[t] # "pending")
<1> DEFINE C == ProgressInv /\ About(c, t) /\ call[c].at = "called" /\ call[c].tries = 0
           D == ProgressInv /\ About(c, t) /\ call[c].at = "called" /\ call[c].tries = 1
           V == ProgressInv /\ About(c, t) /\ call[c].at = "served"
           Q == optimistic[t] # "pending"
           I == call[c].at = "idle"
           A == About(c, t)
           Handle == Calls!Handle(c)
<1>1. Calls!Init => ProgressInv
  BY ProgressInit
<1>2. ProgressInv /\ [Calls!Next]_Calls!vars => ProgressInv'
  BY ProgressNext
<1>3. ProgressInv => PendingIsAsked
  BY DEF ProgressInv
<1>4. c \in Calls!Caller
  BY DEF Calls!Caller
<1>5. ProgressInv /\ A => C \/ D \/ V
  <2> SUFFICES ASSUME ProgressInv, A PROVE C \/ D \/ V
    OBVIOUS
  <2>1. PICK W : call \in [Calls!Caller -> Progress(W)]
    BY DEF ProgressInv
  <2>2. call[c].tries \in 0..1
    BY <1>4, <2>1 DEF Progress
  <2> QED
    BY <2>2 DEF About
<1>6. ASSUME C \/ D \/ V, [Calls!Next]_Calls!vars
      PROVE  /\ C => (C' /\ ~Handle) \/ D' \/ V' \/ Q'
             /\ D => (D' /\ ~Handle) \/ V' \/ Q'
             /\ V => (V' /\ ~Handle) \/ Q'
  <2>1. ProgressInv /\ ProgressInv' /\ call[c].at # "idle" /\ About(c, t)
    BY <1>2, <1>6
  <2>2. CASE call'[c] = call[c] /\ ~Calls!Handle(c)
    BY <2>1, <2>2 DEF About
  <2>3. CASE AllIdle
    BY <2>3 DEF AllIdle
  <2>4. CASE Became(c)
    <3>1. About(c, t)' \/ Q'
      BY <1>4, <2>1, <2>4, CallGoes
    <3>2. About(c, t)' => call'[c].at # "idle"
      BY DEF About
    <3> QED
      BY <1>4, <2>1, <2>4, <3>1, <3>2, CallGoes
  <2> QED
    BY <1>4, <1>6, <2>1, <2>2, <2>3, <2>4, CallStep
<1>7. /\ C /\ [Calls!Next]_Calls!vars => C' \/ D' \/ V' \/ Q'
      /\ D /\ [Calls!Next]_Calls!vars => D' \/ V' \/ Q'
      /\ V /\ [Calls!Next]_Calls!vars => V' \/ Q'
      /\ C /\ [Calls!Next]_Calls!vars /\ <<Handle>>_Calls!vars => D' \/ V' \/ Q'
      /\ D /\ [Calls!Next]_Calls!vars /\ <<Handle>>_Calls!vars => V' \/ Q'
      /\ V /\ [Calls!Next]_Calls!vars /\ <<Handle>>_Calls!vars => Q'
  BY <1>6
<1>8. C \/ D \/ V => ~I
  BY DEF About
<1>9. Answered(c) => []<>I \/ []<><<Handle>>_Calls!vars
  BY DEF Answered
<1>10. Calls!Spec => []PendingIsAsked
  BY <1>1, <1>2, <1>3, PTL DEF Calls!Spec
<1> HIDE DEF C, D, V, Q, I, A, Handle
<1>11. Calls!Spec /\ Answered(c) => (A ~> Q)
  BY <1>1, <1>2, <1>5, <1>7, <1>8, <1>9, PTL DEF Calls!Spec
<1> QED
  BY <1>10, <1>11 DEF A, Q

-----------------------------------------------------------------------------
(***************************************************************************)
(* The handoff agreement.                                                  *)
(***************************************************************************)
CodeKinds == {"contact", "receiver", "meeting"}

\* A form being saved has a part left to save.
SaveStates ==
  {Agreeing!Idle}
    \cup [step : {"read"}, left : Seq(CodeKinds) \ {<<>>}, own : Entries, meeting : Meetings]
    \cup [step : {"write"}, left : Seq(CodeKinds) \ {<<>>}, own : Entries, meeting : Meetings,
          view : Agreeing!View]

ConfirmStates ==
  {Agreeing!Idle}
    \cup [step : {"read"}, seen : Meetings \cup {Blank}]
    \cup [step : {"write"}, seen : Meetings \cup {Blank}, view : Agreeing!View]

ScreenState ==
  [meeting : Meetings \cup {Blank}, offered : BOOLEAN, verified : SUBSET Agreeing!CodeType,
   status : {"accepted", "in_transit", "delivered", "completed", "cancelled"}]

ClientTypes ==
  /\ screen \in [Agreeing!Participant -> ScreenState]
  /\ save \in [Agreeing!Participant -> SaveStates]
  /\ saves \in [Agreeing!Participant -> 0..MaxSaves]
  /\ confirm \in [Agreeing!Participant -> ConfirmStates]

DocumentTypes ==
  /\ status \in {"accepted", "in_transit", "delivered", "completed", "cancelled"}
  /\ doc \in Agreeing!Document

AgreementInv ==
  Agreeing!HandoffTypeOK /\ DocumentTypes /\ ClientTypes /\ Agreeing!OutcomeMirrored

LEMMA AgreementTypes == AgreementInv => Agreeing!TypeOK
<1> SUFFICES ASSUME AgreementInv PROVE Agreeing!TypeOK
  OBVIOUS
<1>1. \A p \in Agreeing!Participant : screen[p] \in ScreenState
  BY DEF AgreementInv, ClientTypes
<1>2. \A p \in Agreeing!Participant :
        \/ save[p] \in {Agreeing!Idle} \cup Agreeing!Saving
        \/ save[p].step = "write" /\ save[p].view \in Agreeing!View
  BY DEF AgreementInv, ClientTypes, SaveStates, Agreeing!Saving, CodeKinds
<1>3. \A p \in Agreeing!Participant :
        \/ confirm[p] = Agreeing!Idle
        \/ confirm[p].step = "read" /\ confirm[p].seen \in Meetings \cup {Blank}
        \/ confirm[p].step = "write" /\ confirm[p].view \in Agreeing!View
  BY DEF AgreementInv, ClientTypes, ConfirmStates
<1> QED
  BY <1>1, <1>2, <1>3 DEF AgreementInv, ClientTypes, DocumentTypes, ScreenState, Agreeing!TypeOK

LEMMA AgreementShown ==
  ASSUME Agreeing!AgreementAssumption, AgreementInv, NEW p \in Agreeing!Participant
  PROVE  Agreeing!Shown(p) \in ScreenState /\ Agreeing!Current \in Agreeing!View
<1>1. agreement[Booking] \in [Agreeing!CodeType -> Agreeing!Verification]
  BY DEF AgreementInv, Agreeing!AgreementAssumption, Agreeing!HandoffTypeOK
<1>2. doc \in Agreeing!Document /\ doc.meeting \in Meetings \cup {Blank}
  BY DEF AgreementInv, DocumentTypes, Agreeing!Document
<1>3. Agreeing!ConfirmOffered(p) \in BOOLEAN
  BY DEF Agreeing!ConfirmOffered
<1> QED
  BY <1>1, <1>2, <1>3 DEF AgreementInv, DocumentTypes, ScreenState, Agreeing!Shown,
                          Agreeing!Current, Agreeing!View

\* The server's steps keep what it knows of a code and what it shows alike.
LEMMA AgreementServer ==
  ASSUME Agreeing!AgreementAssumption, AgreementInv,
         \/ Agreeing!MoveOn
         \/ \E c \in Agreeing!CodeType : Agreeing!Issue(c) \/ Agreeing!Enter(c)
  PROVE  AgreementInv' /\ UNCHANGED doc
<1>1. UNCHANGED <<doc, screen, save, saves, confirm>> /\ DocumentTypes'
  BY DEF Agreeing!MoveOn, Agreeing!Issue, Agreeing!Enter, Agreeing!clientVars, AgreementInv,
         DocumentTypes
<1>2. ClientTypes'
  BY <1>1 DEF AgreementInv, ClientTypes
<1>3. Agreeing!HandoffTypeOK' /\ Agreeing!OutcomeMirrored'
  <2>1. CASE Agreeing!MoveOn
    BY <2>1 DEF Agreeing!MoveOn, Agreeing!handoffVars, AgreementInv, Agreeing!HandoffTypeOK,
                Agreeing!OutcomeMirrored
  <2>2. ASSUME NEW c \in Agreeing!CodeType, Agreeing!Issue(c) \/ Agreeing!Enter(c)
        PROVE  Agreeing!HandoffTypeOK' /\ Agreeing!OutcomeMirrored'
    <3>1. PICK s \in Agreeing!Secret, v \in Agreeing!Verification :
            /\ secrets' = [secrets EXCEPT ![Booking] = [secrets[Booking] EXCEPT ![c] = s]]
            /\ agreement' = [agreement EXCEPT ![Booking] = [agreement[Booking] EXCEPT ![c] = v]]
            /\ v.verified = s.verified
            /\ ~s.verified => v.failed = s.attempts
            /\ UNCHANGED handoffs
      <4> DEFINE old == secrets[Booking][c]
                 shown == agreement[Booking][c]
      <4>1. /\ old \in Agreeing!Secret /\ shown \in Agreeing!Verification
            /\ shown.verified = old.verified
            /\ Booking \in DOMAIN secrets /\ Booking \in DOMAIN agreement
            /\ c \in DOMAIN secrets[Booking] /\ c \in DOMAIN agreement[Booking]
        BY <2>2 DEF AgreementInv, Agreeing!AgreementAssumption,
                    Agreeing!HandoffTypeOK, Agreeing!OutcomeMirrored
      <4>0. 0 \in 0..MaxAttempts
        BY DEF Agreeing!AgreementAssumption
      <4>2. CASE Agreeing!Issue(c)
        <5> DEFINE s == [old EXCEPT !.issued = TRUE, !.usable = TRUE, !.attempts = 0]
                   v == [shown EXCEPT !.failed = 0]
        <5>1. /\ secrets' = [secrets EXCEPT ![Booking] = [secrets[Booking] EXCEPT ![c] = s]]
              /\ agreement' =
                   [agreement EXCEPT ![Booking] = [agreement[Booking] EXCEPT ![c] = v]]
              /\ UNCHANGED handoffs
          BY <4>1, <4>2 DEF Agreeing!Issue, Agreeing!IssueHandoffCode
        <5>2. /\ s \in Agreeing!Secret /\ v \in Agreeing!Verification
              /\ v.verified = s.verified /\ v.failed = s.attempts
          BY <4>0, <4>1 DEF Agreeing!Secret, Agreeing!Verification
        <5> QED
          BY <5>1, <5>2
      <4>3. CASE Agreeing!Enter(c)
        <5>1. PICK match \in BOOLEAN : Agreeing!VerifyHandoff(Booking, c, status, match)
          BY <4>3 DEF Agreeing!Enter
        <5>2. CASE match
          <6> DEFINE s == [old EXCEPT !.verified = TRUE, !.usable = FALSE]
                     v == [verified |-> TRUE, failed |-> 0]
          <6>1. /\ secrets' = [secrets EXCEPT ![Booking] = [secrets[Booking] EXCEPT ![c] = s]]
                /\ agreement' =
                     [agreement EXCEPT ![Booking] = [agreement[Booking] EXCEPT ![c] = v]]
                /\ UNCHANGED handoffs
            BY <4>1, <5>1, <5>2 DEF Agreeing!VerifyHandoff
          <6>2. /\ s \in Agreeing!Secret /\ v \in Agreeing!Verification
                /\ v.verified = s.verified /\ s.verified
            BY <4>0, <4>1 DEF Agreeing!Secret, Agreeing!Verification
          <6> QED
            BY <6>1, <6>2
        <5>3. CASE ~match
          <6> DEFINE s == [old EXCEPT !.attempts = old.attempts + 1]
                     v == [verified |-> FALSE, failed |-> old.attempts + 1]
          <6>1. /\ secrets' = [secrets EXCEPT ![Booking] = [secrets[Booking] EXCEPT ![c] = s]]
                /\ agreement' =
                     [agreement EXCEPT ![Booking] = [agreement[Booking] EXCEPT ![c] = v]]
                /\ UNCHANGED handoffs
                /\ ~old.verified /\ old.attempts < MaxAttempts
            BY <4>1, <5>1, <5>3 DEF Agreeing!VerifyHandoff, Agreeing!AttemptsLeft
          <6>2. old.attempts + 1 \in 0..MaxAttempts
            BY <4>1, <6>1 DEF Agreeing!Secret, Agreeing!AgreementAssumption
          <6>3. /\ s \in Agreeing!Secret /\ v \in Agreeing!Verification
                /\ v.verified = s.verified /\ v.failed = s.attempts
            BY <4>1, <6>1, <6>2 DEF Agreeing!Secret, Agreeing!Verification
          <6> QED
            BY <6>1, <6>3
        <5> QED
          BY <5>2, <5>3
      <4> QED
        BY <2>2, <4>2, <4>3
    <3>2. /\ secrets' \in [BookingId -> [Agreeing!CodeType -> Agreeing!Secret]]
          /\ secrets'[Booking][c] = s
          /\ \A d \in Agreeing!CodeType \ {c} : secrets'[Booking][d] = secrets[Booking][d]
      BY <3>1 DEF AgreementInv, Agreeing!AgreementAssumption,
                  Agreeing!HandoffTypeOK
    <3>3. /\ agreement' \in [BookingId -> [Agreeing!CodeType -> Agreeing!Verification]]
          /\ agreement'[Booking][c] = v
          /\ \A d \in Agreeing!CodeType \ {c} : agreement'[Booking][d] = agreement[Booking][d]
      BY <3>1 DEF AgreementInv, Agreeing!AgreementAssumption,
                  Agreeing!HandoffTypeOK
    <3>4. Agreeing!HandoffTypeOK'
      BY <3>1, <3>2, <3>3 DEF AgreementInv, Agreeing!HandoffTypeOK
    <3>5. Agreeing!OutcomeMirrored'
      BY <3>1, <3>2, <3>3 DEF AgreementInv, Agreeing!OutcomeMirrored
    <3> QED
      BY <3>4, <3>5
  <2> QED
    BY <2>1, <2>2
<1> QED
  BY <1>1, <1>2, <1>3 DEF AgreementInv

\* A save that the rules let through leaves the codes, and what is the other's,
\* as they are.
LEMMA AgreementSaved ==
  ASSUME Agreeing!AgreementAssumption, AgreementInv, NEW p \in Agreeing!Participant,
         NEW view \in Agreeing!View, Agreeing!SaveAgreement(p, view),
         UNCHANGED <<status, handoffs, secrets>>
  PROVE  /\ Agreeing!HandoffTypeOK' /\ DocumentTypes' /\ Agreeing!OutcomeMirrored'
         /\ \A part \in Agreeing!Part \ Agreeing!PartsOf(p) : doc'.own[part] = doc.own[part]
<1>1. agreement' = agreement
  <2>1. agreement = [agreement EXCEPT ![Booking] = agreement[Booking]]
    BY DEF AgreementInv, Agreeing!HandoffTypeOK
  <2> QED
    BY <2>1 DEF Agreeing!SaveAgreement, Agreeing!WriteAllowed
<1>2. /\ doc' \in Agreeing!Document
      /\ \A part \in Agreeing!Part \ Agreeing!PartsOf(p) : doc'.own[part] = doc.own[part]
  BY DEF Agreeing!SaveAgreement, Agreeing!WriteAllowed, Agreeing!View, AgreementInv,
         DocumentTypes
<1>3. Agreeing!HandoffTypeOK' /\ Agreeing!OutcomeMirrored'
  BY <1>1 DEF AgreementInv, Agreeing!HandoffTypeOK, Agreeing!OutcomeMirrored
<1> QED
  BY <1>2, <1>3 DEF AgreementInv, DocumentTypes

FullSave ==
  [step : {"write"}, left : Seq(CodeKinds) \ {<<>>}, own : Entries, meeting : Meetings,
   view : Agreeing!View]

\* What a save writes is a document.
LEMMA UpdatedDocument ==
  ASSUME NEW p \in Agreeing!Participant, NEW s \in FullSave
  PROVE  Agreeing!Updated(p, s) \in Agreeing!View
<1>1. /\ s.view \in Agreeing!View /\ s.own \in Entries /\ s.meeting \in Meetings
      /\ s.left \in Seq(CodeKinds) /\ s.left # <<>>
  BY DEF FullSave
<1>2. PICK d \in Agreeing!Document, codes \in [Agreeing!CodeType -> Agreeing!Verification] :
        s.view = [doc |-> d, codes |-> codes]
  BY <1>1 DEF Agreeing!View
<1>3. PICK own \in [Agreeing!Part -> Entries \cup {Blank}], m \in Meetings \cup {Blank},
           n \in Agreeing!Confirmation :
        d = [own |-> own, meeting |-> m, confirmation |-> n]
  BY DEF Agreeing!Document
<1>4. Head(s.left) \in CodeKinds
  BY <1>1
<1>5. CASE Head(s.left) = "contact"
  <2>1. Agreeing!Updated(p, s) = [s.view EXCEPT !.doc.own[p] = s.own]
    BY <1>5 DEF Agreeing!Updated
  <2>2. Agreeing!Updated(p, s) =
          [doc |-> [own |-> [own EXCEPT ![p] = s.own], meeting |-> m, confirmation |-> n],
           codes |-> codes]
    BY <1>2, <1>3, <2>1
  <2>3. [own EXCEPT ![p] = s.own] \in [Agreeing!Part -> Entries \cup {Blank}]
    BY <1>1
  <2> QED
    BY <2>2, <2>3 DEF Agreeing!View, Agreeing!Document
<1>6. CASE Head(s.left) = "receiver"
  <2>1. Agreeing!Updated(p, s) = [s.view EXCEPT !.doc.own["receiver"] = s.own]
    BY <1>6 DEF Agreeing!Updated
  <2>2. Agreeing!Updated(p, s) =
          [doc |-> [own |-> [own EXCEPT !["receiver"] = s.own], meeting |-> m,
                    confirmation |-> n],
           codes |-> codes]
    BY <1>2, <1>3, <2>1
  <2>3. [own EXCEPT !["receiver"] = s.own] \in [Agreeing!Part -> Entries \cup {Blank}]
    BY <1>1
  <2> QED
    BY <2>2, <2>3 DEF Agreeing!View, Agreeing!Document
<1>7. CASE Head(s.left) = "meeting"
  <2> DEFINE proposal == [status |-> "proposed", proposedBy |-> p, confirmedBy |-> Blank]
  <2>1. Agreeing!Updated(p, s) =
          [s.view EXCEPT !.doc.meeting = s.meeting, !.doc.confirmation = proposal]
    BY <1>7 DEF Agreeing!Updated
  <2>2. Agreeing!Updated(p, s) =
          [doc |-> [own |-> own, meeting |-> s.meeting, confirmation |-> proposal],
           codes |-> codes]
    <3> DEFINE w == [s.view EXCEPT !.doc.meeting = s.meeting]
    <3>1. w = [doc |-> [own |-> own, meeting |-> s.meeting, confirmation |-> n],
               codes |-> codes]
      BY <1>2, <1>3
    <3>2. Agreeing!Updated(p, s) = [w EXCEPT !.doc.confirmation = proposal]
      BY <2>1
    <3> HIDE DEF proposal, w
    <3> QED
      BY <3>1, <3>2
  <2>3. proposal \in Agreeing!Confirmation
    BY DEF Agreeing!Confirmation
  <2> QED
    BY <1>1, <2>2, <2>3 DEF Agreeing!View, Agreeing!Document
<1> QED
  BY <1>4, <1>5, <1>6, <1>7 DEF CodeKinds

LEMMA ConfirmedDocument ==
  ASSUME NEW p \in Agreeing!Participant, NEW view \in Agreeing!View
  PROVE  [view EXCEPT !.doc.confirmation.status = "confirmed",
                      !.doc.confirmation.confirmedBy = p] \in Agreeing!View
<1>1. PICK d \in Agreeing!Document, codes \in [Agreeing!CodeType -> Agreeing!Verification] :
        view = [doc |-> d, codes |-> codes]
  BY DEF Agreeing!View
<1>2. PICK own \in [Agreeing!Part -> Entries \cup {Blank}], m \in Meetings \cup {Blank},
           n \in Agreeing!Confirmation :
        d = [own |-> own, meeting |-> m, confirmation |-> n]
  BY DEF Agreeing!Document
<1> DEFINE k == [n EXCEPT !.status = "confirmed", !.confirmedBy = p]
<1>3. [view EXCEPT !.doc.confirmation.status = "confirmed", !.doc.confirmation.confirmedBy = p]
        = [doc |-> [own |-> own, meeting |-> m, confirmation |-> k], codes |-> codes]
  <2>1. view = [doc |-> [own |-> own, meeting |-> m, confirmation |-> n], codes |-> codes]
    BY <1>1, <1>2
  <2> DEFINE w == [view EXCEPT !.doc.confirmation.status = "confirmed"]
             h == [n EXCEPT !.status = "confirmed"]
  <2>2. w = [doc |-> [own |-> own, meeting |-> m, confirmation |-> h], codes |-> codes]
    BY <2>1
  <2>3. [h EXCEPT !.confirmedBy = p] = k
    OBVIOUS
  <2>4. [view EXCEPT !.doc.confirmation.status = "confirmed",
                     !.doc.confirmation.confirmedBy = p]
          = [w EXCEPT !.doc.confirmation.confirmedBy = p]
    OBVIOUS
  <2> HIDE DEF h, k, w
  <2>5. [w EXCEPT !.doc.confirmation.confirmedBy = p]
          = [doc |-> [own |-> own, meeting |-> m, confirmation |-> k], codes |-> codes]
    BY <2>2, <2>3
  <2> QED
    BY <2>4, <2>5
<1>4. k \in Agreeing!Confirmation
  BY DEF Agreeing!Confirmation
<1> HIDE DEF k
<1> QED
  BY <1>3, <1>4 DEF Agreeing!View, Agreeing!Document

\* A participant watches, or moves a save or a confirmation on.
LEMMA AgreementClient ==
  ASSUME Agreeing!AgreementAssumption, AgreementInv, NEW p \in Agreeing!Participant,
         \/ Agreeing!Watch(p) \/ Agreeing!StartSave(p) \/ Agreeing!ReadForSave(p)
         \/ Agreeing!StartConfirm(p) \/ Agreeing!ReadForConfirm(p)
  PROVE  AgreementInv' /\ UNCHANGED doc
<1>1. UNCHANGED <<status, doc, handoffs, secrets, agreement>>
  BY DEF Agreeing!Watch, Agreeing!StartSave, Agreeing!ReadForSave, Agreeing!StartConfirm,
         Agreeing!ReadForConfirm, Agreeing!handoffVars
<1>2. /\ screen[p] \in ScreenState /\ save[p] \in SaveStates /\ confirm[p] \in ConfirmStates
      /\ saves[p] \in 0..MaxSaves
  BY DEF AgreementInv, ClientTypes
<1>3. ClientTypes'
  <2>1. CASE Agreeing!Watch(p)
    <3>1. Agreeing!Shown(p) \in ScreenState
      BY AgreementShown
    <3> QED
      BY <2>1, <3>1 DEF Agreeing!Watch, AgreementInv, ClientTypes
  <2>2. CASE Agreeing!StartSave(p)
    <3>1. Agreeing!SavedParts(p) \in Seq(CodeKinds) \ {<<>>}
      BY DEF Agreeing!SavedParts, CodeKinds
    <3>2. PICK own \in Entries, meeting \in Meetings :
            save' = [save EXCEPT ![p] = [step |-> "read", left |-> Agreeing!SavedParts(p),
                                         own |-> own, meeting |-> meeting]]
      BY <2>2 DEF Agreeing!StartSave
    <3>3. [step |-> "read", left |-> Agreeing!SavedParts(p), own |-> own,
           meeting |-> meeting] \in SaveStates
      BY <3>1 DEF SaveStates
    <3>4. saves' \in [Agreeing!Participant -> 0..MaxSaves]
      <4>1. saves[p] + 1 \in 0..MaxSaves
        BY <1>2, <2>2 DEF Agreeing!StartSave, Agreeing!AgreementAssumption
      <4> QED
        BY <2>2, <4>1 DEF Agreeing!StartSave, AgreementInv, ClientTypes
    <3>5. UNCHANGED <<screen, confirm>>
      BY <2>2 DEF Agreeing!StartSave
    <3> QED
      BY <3>2, <3>3, <3>4, <3>5 DEF AgreementInv, ClientTypes
  <2>3. CASE Agreeing!ReadForSave(p)
    <3> DEFINE s == [step |-> "write", left |-> save[p].left, own |-> save[p].own,
                     meeting |-> save[p].meeting, view |-> Agreeing!Current]
    <3>1. save' = [save EXCEPT ![p] = s] /\ save[p].step = "read"
          /\ UNCHANGED <<screen, saves, confirm>>
      BY <2>3 DEF Agreeing!ReadForSave
    <3>2. /\ save[p].left \in Seq(CodeKinds) \ {<<>>} /\ save[p].own \in Entries
          /\ save[p].meeting \in Meetings
      BY <1>2, <3>1 DEF SaveStates, Agreeing!Idle
    <3>3. s \in SaveStates
      BY <3>2, AgreementShown DEF SaveStates
    <3> QED
      BY <3>1, <3>3 DEF AgreementInv, ClientTypes
  <2>4. CASE Agreeing!StartConfirm(p)
    <3>1. [step |-> "read", seen |-> screen[p].meeting] \in ConfirmStates
      BY <1>2 DEF ScreenState, ConfirmStates
    <3> QED
      BY <2>4, <3>1 DEF Agreeing!StartConfirm, AgreementInv, ClientTypes
  <2>5. CASE Agreeing!ReadForConfirm(p)
    <3> DEFINE s == [step |-> "write", seen |-> confirm[p].seen, view |-> Agreeing!Current]
    <3>1. confirm[p].step = "read" /\ UNCHANGED <<screen, save, saves>>
          /\ confirm' = [confirm EXCEPT ![p] = IF doc.confirmation.status = "confirmed"
                                               THEN Agreeing!Idle ELSE s]
      BY <2>5 DEF Agreeing!ReadForConfirm
    <3>2. confirm[p].seen \in Meetings \cup {Blank}
      BY <1>2, <3>1 DEF ConfirmStates, Agreeing!Idle
    <3>3. s \in ConfirmStates /\ Agreeing!Idle \in ConfirmStates
      BY <3>2, AgreementShown DEF ConfirmStates
    <3> QED
      BY <3>1, <3>3 DEF AgreementInv, ClientTypes
  <2> QED
    BY <2>1, <2>2, <2>3, <2>4, <2>5
<1>4. Agreeing!HandoffTypeOK' /\ DocumentTypes' /\ Agreeing!OutcomeMirrored'
  BY <1>1 DEF AgreementInv, Agreeing!HandoffTypeOK, DocumentTypes, Agreeing!OutcomeMirrored
<1> QED
  BY <1>1, <1>3, <1>4 DEF AgreementInv

\* The steps that write the document.
LEMMA AgreementWrites ==
  ASSUME Agreeing!AgreementAssumption, AgreementInv, NEW p \in Agreeing!Participant,
         Agreeing!WriteSave(p) \/ Agreeing!WriteConfirm(p)
  PROVE  /\ AgreementInv'
         /\ \A part \in Agreeing!Part \ Agreeing!PartsOf(p) : doc'.own[part] = doc.own[part]
         /\ \A q \in Agreeing!Participant \ {p} : UNCHANGED <<save[q], confirm[q]>>
<1>1. UNCHANGED <<status, screen, saves, handoffs, secrets>>
  BY DEF Agreeing!WriteSave, Agreeing!WriteConfirm
<1>2. save[p] \in SaveStates /\ confirm[p] \in ConfirmStates /\ Agreeing!Idle \in SaveStates
      /\ Agreeing!Idle \in ConfirmStates
  BY DEF AgreementInv, ClientTypes, SaveStates, ConfirmStates
<1>3. CASE Agreeing!WriteSave(p)
  <2> DEFINE view == Agreeing!Updated(p, save[p])
             left == Tail(save[p].left)
             next == [step |-> "read", left |-> left, own |-> save[p].own,
                      meeting |-> save[p].meeting]
  <2>1. /\ save[p].step = "write" /\ Agreeing!SaveAgreement(p, view) /\ UNCHANGED confirm
        /\ save' = [save EXCEPT ![p] = IF Agreeing!WriteAllowed(p, view) /\ left # <<>>
                                       THEN next ELSE Agreeing!Idle]
    BY <1>3 DEF Agreeing!WriteSave
  <2>2. save[p] \in FullSave
    BY <1>2, <2>1 DEF SaveStates, FullSave, Agreeing!Idle
  <2>3. view \in Agreeing!View
    BY <2>2, UpdatedDocument
  <2>4. left # <<>> => next \in SaveStates
    <3>1. /\ save[p].left \in Seq(CodeKinds) /\ save[p].left # <<>>
          /\ save[p].own \in Entries /\ save[p].meeting \in Meetings
      BY <2>2 DEF FullSave
    <3>2. left \in Seq(CodeKinds)
      BY <3>1
    <3> QED
      BY <3>1, <3>2 DEF SaveStates
  <2> HIDE DEF view, next, left
  <2>5. /\ save' \in [Agreeing!Participant -> SaveStates]
        /\ \A q \in Agreeing!Participant \ {p} : save'[q] = save[q]
    BY <1>2, <2>1, <2>4 DEF AgreementInv, ClientTypes
  <2>6. ClientTypes'
    BY <1>1, <2>1, <2>5 DEF AgreementInv, ClientTypes
  <2>7. /\ Agreeing!HandoffTypeOK' /\ DocumentTypes' /\ Agreeing!OutcomeMirrored'
        /\ \A part \in Agreeing!Part \ Agreeing!PartsOf(p) : doc'.own[part] = doc.own[part]
    BY <1>1, <2>1, <2>3, AgreementSaved
  <2> QED
    BY <2>1, <2>5, <2>6, <2>7 DEF AgreementInv
<1>4. CASE Agreeing!WriteConfirm(p)
  <2> DEFINE view == [confirm[p].view EXCEPT !.doc.confirmation.status = "confirmed",
                                             !.doc.confirmation.confirmedBy = p]
  <2>1. /\ confirm[p].step = "write" /\ Agreeing!SaveAgreement(p, view) /\ UNCHANGED save
        /\ confirm' = [confirm EXCEPT ![p] = Agreeing!Idle]
    BY <1>4 DEF Agreeing!WriteConfirm
  <2>2. confirm[p].view \in Agreeing!View
    BY <1>2, <2>1 DEF ConfirmStates, Agreeing!Idle
  <2>3. view \in Agreeing!View
    BY <2>2, ConfirmedDocument
  <2> HIDE DEF view
  <2>4. /\ confirm' \in [Agreeing!Participant -> ConfirmStates]
        /\ \A q \in Agreeing!Participant \ {p} : confirm'[q] = confirm[q]
    BY <1>2, <2>1 DEF AgreementInv, ClientTypes
  <2>5. ClientTypes'
    BY <1>1, <2>1, <2>4 DEF AgreementInv, ClientTypes
  <2>6. /\ Agreeing!HandoffTypeOK' /\ DocumentTypes' /\ Agreeing!OutcomeMirrored'
        /\ \A part \in Agreeing!Part \ Agreeing!PartsOf(p) : doc'.own[part] = doc.own[part]
    BY <1>1, <2>1, <2>3, AgreementSaved
  <2> QED
    BY <2>1, <2>4, <2>5, <2>6 DEF AgreementInv
<1> QED
  BY <1>3, <1>4

LEMMA AgreementStep ==
  ASSUME Agreeing!AgreementAssumption, AgreementInv, [Agreeing!Next]_Agreeing!vars
  PROVE  AgreementInv' /\ Agreeing!OtherPartsStay
<1>1. CASE UNCHANGED Agreeing!vars
  BY <1>1 DEF Agreeing!vars, Agreeing!handoffVars, AgreementInv, Agreeing!HandoffTypeOK,
              DocumentTypes, ClientTypes, Agreeing!OutcomeMirrored, Agreeing!OtherPartsStay
<1>2. CASE AgreementInv' /\ UNCHANGED doc
  BY <1>2 DEF Agreeing!OtherPartsStay
<1>3. ASSUME NEW p \in Agreeing!Participant, Agreeing!WriteSave(p) \/ Agreeing!WriteConfirm(p)
      PROVE  AgreementInv' /\ Agreeing!OtherPartsStay
  BY <1>3, AgreementWrites DEF Agreeing!OtherPartsStay
<1> QED
  BY <1>1, <1>2, <1>3, AgreementServer, AgreementClient DEF Agreeing!Next, Agreeing!Edit

LEMMA AgreementInit == Agreeing!AgreementAssumption /\ Agreeing!Init => AgreementInv
<1> SUFFICES ASSUME Agreeing!AgreementAssumption, Agreeing!Init PROVE AgreementInv
  OBVIOUS
<1>1. Booking \in BookingId /\ 0 \in 0..MaxSaves /\ 0 \in 0..MaxAttempts
  BY DEF Agreeing!AgreementAssumption
<1>2. Agreeing!NewSecret \in Agreeing!Secret /\ Agreeing!NewVerification \in Agreeing!Verification
  BY <1>1 DEF Agreeing!NewSecret, Agreeing!Secret, Agreeing!NewVerification,
              Agreeing!Verification
<1>3. Agreeing!HandoffTypeOK
  BY <1>1, <1>2 DEF Agreeing!Init, Agreeing!HandoffTypeOK
<1>4. Agreeing!OutcomeMirrored
  BY <1>1 DEF Agreeing!Init, Agreeing!OutcomeMirrored, Agreeing!NewSecret,
              Agreeing!NewVerification
<1>5. DocumentTypes
  BY DEF Agreeing!Init, DocumentTypes, Agreeing!Document, Agreeing!Confirmation
<1>6. \A p \in Agreeing!Participant : Agreeing!Shown(p) \in ScreenState
  <2>1. doc.meeting \in Meetings \cup {Blank}
    BY <1>5 DEF DocumentTypes, Agreeing!Document
  <2> QED
    BY <1>5, <2>1 DEF DocumentTypes, Agreeing!Shown, ScreenState, Agreeing!ConfirmOffered
<1>7. ClientTypes
  BY <1>1, <1>6 DEF Agreeing!Init, ClientTypes, SaveStates, ConfirmStates
<1> QED
  BY <1>3, <1>4, <1>5, <1>7 DEF AgreementInv

\* HandoffService and firestore.rules: although every save writes the
\* whole document back from an earlier reading, what the participants see of
\* the codes is what the server knows, and no save changes what belongs to the
\* other participant.
THEOREM AgreementIsKept ==
  ASSUME Agreeing!AgreementAssumption
  PROVE  Agreeing!Spec => [](Agreeing!TypeOK) /\ Agreeing!AgreementKept
<1>1. Agreeing!Init => AgreementInv
  BY AgreementInit
<1>2. AgreementInv /\ [Agreeing!Next]_Agreeing!vars =>
        AgreementInv' /\ [Agreeing!OtherPartsStay]_Agreeing!vars
  BY AgreementStep
<1>3. AgreementInv => Agreeing!TypeOK /\ Agreeing!OutcomeMirrored
  BY AgreementTypes DEF AgreementInv
<1> QED
  BY <1>1, <1>2, <1>3, PTL DEF Agreeing!Spec, Agreeing!AgreementKept

-----------------------------------------------------------------------------
(***************************************************************************)
(* Posting a shipment or a trip.                                           *)
(***************************************************************************)
\* The device's storage works, and the Send screen has read it before a form
\* can be filled in.
SubmissionHypothesis ==
  /\ Submission!SubmissionAssumption
  /\ ~StorageFails /\ ~SlowStorage

FullPost ==
  [at : {"saved", "looked", "sent", "acked"}, op : Submission!Op, form : Submission!Form,
   intent : Nat]

ScreenTypes ==
  /\ form \in Submission!Form \cup {Blank}
  /\ op \in Submission!Op \cup {Submission!NoOp}
  /\ banner \in {"none", "error", "saved", "recovered", "absent"}
  /\ errorType \in {"none", "definitive", "ambiguous"}
  /\ fresh \in Submission!Op /\ intent \in Nat

AttemptTypes ==
  /\ post \in {Submission!Idle} \cup FullPost
  /\ check \in Submission!Op \cup {Submission!NoOp} /\ quiet \in BOOLEAN
  /\ stored \in Submission!Op \cup {Submission!NoOp}
  /\ restoring \in Submission!Op \cup {Submission!NoOp}
  /\ last \in Submission!Op \cup {Submission!NoOp}
  /\ toldAbsent \subseteq [op : Submission!Op, quiet : BOOLEAN]

ServiceTypes ==
  /\ queue = {} \/ \E w \in Submission!Write : queue = {w}
  /\ listings \in [Submission!Op -> Submission!Listing \cup {Blank}]
  /\ restarts \in 0..MaxRestarts

\* Start `k` has a listing, or will perhaps get one, under operation `o`.
Started(o, k) ==
  \/ listings[o] # Blank /\ listings[o].intent = k
  \/ \E w \in queue : w.op = o /\ w.intent = k
  \/ post.at # "idle" /\ post.op = o /\ post.intent = k

\* A start has one operation; the present one, that which the device keeps.
OneStartOperation ==
  \A o \in Submission!Op, k \in Nat :
    Started(o, k) =>
      /\ k <= intent /\ (k = intent => stored = o)
      /\ \A p \in Submission!Op : Started(p, k) => p = o

\* The Send screen keeps the operation that the device keeps, or will have it
\* back; the Travel screen keeps none.
ScreenFollowsDevice ==
  /\ op = Submission!NoOp => restoring = Submission!NoOp
  /\ op # Submission!NoOp /\ stored # Submission!NoOp /\ restoring = Submission!NoOp => stored = op
  /\ restoring # Submission!NoOp =>
       /\ banner # "error" /\ check = Submission!NoOp /\ post.at = "idle"
       /\ stored = restoring
  /\ errorType = "definitive" /\ post.at = "idle" => stored = Submission!NoOp

\* There are operation ids left for what is under way.
IdsLeft ==
  /\ op # Submission!NoOp /\ (post.at # "idle" \/ check # Submission!NoOp) => fresh + 1 <= MaxOps
  /\ op # Submission!NoOp /\ post.at # "idle" /\ check # Submission!NoOp => fresh + 2 <= MaxOps
  /\ \A o \in {stored, op, restoring, post.op, check} : o <= fresh

\* As long as no attempt begins during a check, what is under way is about the
\* operation that the device keeps, and a check is offered only if it keeps one.
QuietKeeps ==
  quiet =>
    /\ post.at # "idle" => stored = post.op /\ check = Submission!NoOp
    /\ check # Submission!NoOp => stored = check
    /\ banner = "error" /\ errorType # "definitive" => stored # Submission!NoOp

\* The queue is lost with the app: it holds the write of the attempt.
QueueIsOfPost ==
  queue # {} =>
    /\ post.at = "sent"
    /\ queue = {[op |-> post.op, text |-> post.form.text, intent |-> post.intent]}

WrittenAsEntered ==
  post.at = "acked" => listings[post.op] # Blank /\ listings[post.op].text = post.form.text

\* An operation rightly called absent is gone: nothing will ever use it.
AbsentIsGone ==
  \A t \in toldAbsent :
    t.quiet => /\ listings[t.op] = Blank /\ t.op <= fresh
               /\ t.op \notin {stored, op, restoring, post.op, check}

SubmissionTypes == ScreenTypes /\ AttemptTypes /\ ServiceTypes

SubmissionInv ==
  /\ SubmissionTypes /\ OneStartOperation /\ ScreenFollowsDevice /\ IdsLeft /\ QuietKeeps
  /\ ~Persistent => QueueIsOfPost /\ WrittenAsEntered /\ AbsentIsGone

LEMMA SubmissionTypesRight == SubmissionTypes => Submission!TypeOK
<1> SUFFICES ASSUME SubmissionTypes PROVE Submission!TypeOK
  OBVIOUS
<1>1. /\ IsFiniteSet(queue) /\ Cardinality(queue) \in {0, 1} /\ queue \subseteq Submission!Write
  <2>1. CASE queue = {}
    BY <2>1, FS_EmptySet
  <2>2. CASE queue # {}
    <3>1. PICK w \in Submission!Write : queue = {w}
      BY <2>2 DEF SubmissionTypes, ServiceTypes
    <3> QED
      BY <3>1, FS_Singleton
  <2> QED
    BY <2>1, <2>2
<1>2. Submission!Cardinality(queue) <= 1
  BY <1>1 DEF Submission!Cardinality, Cardinality
<1> QED
  BY <1>1, <1>2 DEF SubmissionTypes, ScreenTypes, AttemptTypes, ServiceTypes, FullPost,
                    Submission!TypeOK

\* A start gets no second operation when it goes on under the one that the
\* device keeps, or when another start begins.
LEMMA OneStartKept ==
  ASSUME SubmissionInv,
         \/ /\ intent' = intent
            /\ stored # Submission!NoOp => stored' = stored
            /\ \A o \in Submission!Op, k \in Nat :
                 Started(o, k)' => Started(o, k) \/ (k = intent /\ o = stored')
         \/ /\ intent' = intent + 1
            /\ \A o \in Submission!Op, k \in Nat : Started(o, k)' => Started(o, k)
  PROVE  OneStartOperation'
<1>1. intent \in Nat /\ Submission!NoOp \notin Submission!Op
  BY DEF SubmissionInv, SubmissionTypes, ScreenTypes, Submission!NoOp, Submission!Op
<1>2. CASE /\ intent' = intent
           /\ stored # Submission!NoOp => stored' = stored
           /\ \A o \in Submission!Op, k \in Nat :
                Started(o, k)' => Started(o, k) \/ (k = intent /\ o = stored')
  <2>1. \A o \in Submission!Op, k \in Nat :
          Started(o, k)' => k <= intent' /\ (k = intent' => stored' = o)
    BY <1>1, <1>2 DEF SubmissionInv, OneStartOperation
  <2>2. \A o, p \in Submission!Op, k \in Nat : Started(o, k)' /\ Started(p, k)' => p = o
    <3> SUFFICES ASSUME NEW o \in Submission!Op, NEW p \in Submission!Op, NEW k \in Nat,
                        Started(o, k)', Started(p, k)'
                 PROVE  p = o
      OBVIOUS
    <3>1. CASE Started(o, k) /\ Started(p, k)
      BY <3>1 DEF SubmissionInv, OneStartOperation
    <3>2. CASE ~(Started(o, k) /\ Started(p, k))
      <4>1. k = intent'
        BY <1>2, <3>2
      <4> QED
        BY <2>1, <4>1
    <3> QED
      BY <3>1, <3>2
  <2> QED
    BY <2>1, <2>2 DEF OneStartOperation
<1>3. CASE /\ intent' = intent + 1
           /\ \A o \in Submission!Op, k \in Nat : Started(o, k)' => Started(o, k)
  BY <1>1, <1>3 DEF SubmissionInv, OneStartOperation
<1> QED
  BY <1>2, <1>3
LEMMA SubmissionInit == SubmissionHypothesis /\ Submission!Init => SubmissionInv
<1> SUFFICES ASSUME SubmissionHypothesis, Submission!Init PROVE SubmissionInv
  OBVIOUS
<1>1. /\ MaxOps \in Nat \ {0} /\ MaxRestarts \in Nat /\ 0 \in 0..MaxRestarts
     
      /\ 1 \in Submission!Op /\ 0 \notin Submission!Op
      /\ op \in {0, 1}
  BY DEF SubmissionHypothesis, Submission!SubmissionAssumption, Submission!Init, Submission!Op,
         Submission!NoOp
<1>2. /\ form = Blank /\ banner = "none" /\ errorType = "none" /\ fresh = 1
      /\ post.at = "idle" /\ post.op = 0 /\ post = Submission!Idle
      /\ check = 0 /\ quiet = TRUE /\ stored = 0 /\ restoring = 0 /\ queue = {}
      /\ listings = [o \in Submission!Op |-> Blank]
      /\ restarts = 0 /\ intent = 0 /\ last = 0 /\ toldAbsent = {}
  BY DEF Submission!Init, Submission!Idle, Submission!NoOp
<1>3. SubmissionTypes
  BY <1>1, <1>2 DEF SubmissionTypes, ScreenTypes, AttemptTypes, ServiceTypes, Submission!NoOp
<1>4. OneStartOperation
  BY <1>1, <1>2 DEF OneStartOperation, Started
<1>5. ScreenFollowsDevice /\ IdsLeft /\ QuietKeeps
  BY <1>1, <1>2 DEF ScreenFollowsDevice, IdsLeft, QuietKeeps, Submission!NoOp
<1>6. QueueIsOfPost /\ WrittenAsEntered /\ AbsentIsGone
  BY <1>2 DEF QueueIsOfPost, WrittenAsEntered, AbsentIsGone
<1> QED
  BY <1>3, <1>4, <1>5, <1>6 DEF SubmissionInv

LEMMA StoreWorks ==
  ASSUME SubmissionHypothesis, NEW o, Submission!Store(o)
  PROVE  stored' = o
BY DEF SubmissionHypothesis, Submission!Store

\* The facts about the types of the state that the steps below need.
LEMMA SubmissionState ==
  ASSUME SubmissionHypothesis, SubmissionInv
  PROVE  /\ MaxOps \in Nat \ {0} /\ Submission!NoOp = 0
         /\ Submission!Op = 1..MaxOps
         /\ fresh \in 1..MaxOps /\ intent \in Nat
         /\ {op, stored, restoring, check, last, post.op} \subseteq 0..MaxOps
         /\ post = Submission!Idle <=> post.at = "idle"
         /\ Submission!Idle.at = "idle" /\ Submission!Idle.op = 0
         /\ post.at = "idle" => post.op = 0
         /\ post.at # "idle" => post \in FullPost /\ post.op \in 1..MaxOps
<1>1. /\ MaxOps \in Nat \ {0} /\ Submission!NoOp = 0
      /\ Submission!Op = 1..MaxOps
  BY DEF SubmissionHypothesis, Submission!SubmissionAssumption, Submission!Op, Submission!NoOp
<1>2. Submission!Idle.at = "idle" /\ Submission!Idle.op = 0
  BY <1>1 DEF Submission!Idle
<1>3. \A p \in FullPost : p.at # "idle" /\ p.op \in 1..MaxOps
  BY <1>1 DEF FullPost
<1>4. /\ post \in {Submission!Idle} \cup FullPost
      /\ {op, stored, restoring, check, last} \subseteq Submission!Op \cup {Submission!NoOp}
      /\ fresh \in Submission!Op /\ intent \in Nat
  BY DEF SubmissionInv, SubmissionTypes, ScreenTypes, AttemptTypes
<1> QED
  BY <1>1, <1>2, <1>3, <1>4

\* What a screen that starts afresh does to its operation id.
LEMMA GenerateGives ==
  ASSUME SubmissionHypothesis, SubmissionInv, Submission!Generate,
         op # 0 => fresh + 1 <= MaxOps
  PROVE  /\ op' \in 0..MaxOps /\ fresh' \in 1..MaxOps /\ fresh' \in {fresh, fresh + 1}
         /\ op # 0 => op' = fresh + 1 /\ fresh' = fresh + 1
         /\ op = 0 => op' = op /\ fresh' = fresh
BY SubmissionState DEF Submission!Generate, Submission!KeepsOperation

\* An attempt that fails.
LEMMA FailKeeps ==
  ASSUME SubmissionHypothesis, SubmissionInv, NEW kind \in {"definitive", "ambiguous"},
         post.at # "idle", Submission!Fail(kind),
         queue' = {} \/ (queue' = queue /\ post.at # "sent"),
         UNCHANGED <<check, quiet, restoring, listings, restarts, toldAbsent>>
  PROVE  SubmissionInv'
<1>1. /\ post' = Submission!Idle /\ banner' = "error" /\ errorType' = kind
      /\ last' \in {last, post.op}
      /\ kind = "definitive" => stored' = Submission!NoOp /\ intent' = intent + 1
      /\ kind = "ambiguous" => stored' = stored /\ intent' = intent
      /\ form' = form /\ op' = op /\ fresh' = fresh
      /\ check' = check /\ quiet' = quiet /\ restoring' = restoring /\ listings' = listings
      /\ restarts' = restarts /\ toldAbsent' = toldAbsent
  <2>1. Submission!Store(Submission!NoOp) => stored' = Submission!NoOp
    BY StoreWorks
  <2> QED
    BY <2>1 DEF Submission!Fail
<1>2. post'.at = "idle" /\ post'.op = 0
  BY <1>1, SubmissionState
<1>3. SubmissionTypes'
  <2>1. ScreenTypes'
    BY <1>1 DEF SubmissionInv, SubmissionTypes, ScreenTypes
  <2>2. last' \in Submission!Op \cup {Submission!NoOp}
    BY <1>1, SubmissionState
  <2>3. AttemptTypes'
    BY <1>1, <2>2 DEF SubmissionInv, SubmissionTypes, AttemptTypes
  <2>4. ServiceTypes'
    BY <1>1 DEF SubmissionInv, SubmissionTypes, ServiceTypes
  <2> QED
    BY <2>1, <2>3, <2>4 DEF SubmissionTypes
<1>4. OneStartOperation'
  <2>1. \A o \in Submission!Op, k \in Nat : Started(o, k)' => Started(o, k)
    BY <1>1, <1>2 DEF Started
  <2> QED
    BY <1>1, <2>1, OneStartKept
<1>5. ScreenFollowsDevice'
  BY <1>1, <1>2 DEF SubmissionInv, ScreenFollowsDevice
<1>6. IdsLeft'
  BY <1>1, <1>2, SubmissionState DEF SubmissionInv, IdsLeft
<1>7. QuietKeeps'
  BY <1>1, <1>2, SubmissionState DEF SubmissionInv, QuietKeeps
<1>8. ASSUME ~Persistent PROVE QueueIsOfPost' /\ WrittenAsEntered' /\ AbsentIsGone'
  <2>1. queue' = {}
    BY <1>8 DEF SubmissionInv, QueueIsOfPost
  <2>2. \A t \in toldAbsent : t.op # 0
    BY SubmissionState DEF SubmissionInv, SubmissionTypes, AttemptTypes
  <2>3. AbsentIsGone'
    BY <1>1, <1>2, <1>8, <2>2, SubmissionState DEF SubmissionInv, AbsentIsGone
  <2> QED
    BY <1>2, <2>1, <2>3 DEF QueueIsOfPost, WrittenAsEntered
<1> QED
  BY <1>3, <1>4, <1>5, <1>6, <1>7, <1>8 DEF SubmissionInv

\* An attempt that succeeds.
LEMMA SucceedKeeps ==
  ASSUME SubmissionHypothesis, SubmissionInv, post.at \in {"saved", "looked", "acked"},
         Submission!Succeed,
         UNCHANGED <<check, quiet, restoring, queue, listings, restarts, toldAbsent>>
  PROVE  SubmissionInv'
<1>1. /\ post' = Submission!Idle /\ banner' = "saved" /\ errorType' = "none"
      /\ last' = 0 /\ stored' = 0 /\ intent' = intent + 1 /\ form' = Blank
      /\ check' = check /\ quiet' = quiet /\ restoring' = restoring /\ listings' = listings
      /\ queue' = queue /\ restarts' = restarts /\ toldAbsent' = toldAbsent
      /\ Submission!Generate
  BY StoreWorks, SubmissionState DEF Submission!Succeed, Submission!StartAfresh
<1>2. post'.at = "idle" /\ post'.op = 0 /\ restoring = 0
  BY <1>1, SubmissionState DEF SubmissionInv, ScreenFollowsDevice
<1>3. /\ op # 0 => fresh + 1 <= MaxOps
      /\ op # 0 /\ check # 0 => fresh + 2 <= MaxOps
  BY SubmissionState DEF SubmissionInv, IdsLeft
<1>4. /\ op' \in 0..MaxOps /\ fresh' \in 1..MaxOps /\ fresh' \in {fresh, fresh + 1}
      /\ op # 0 => op' = fresh + 1 /\ fresh' = fresh + 1
      /\ op = 0 => op' = op /\ fresh' = fresh
  BY <1>1, <1>3, GenerateGives
<1>5. SubmissionTypes'
  <2>1. op' \in Submission!Op \cup {Submission!NoOp} /\ fresh' \in Submission!Op
    BY <1>4, SubmissionState
  <2>2. ScreenTypes'
    BY <1>1, <2>1, SubmissionState DEF ScreenTypes
  <2>3. AttemptTypes'
    BY <1>1, SubmissionState DEF SubmissionInv, SubmissionTypes, AttemptTypes
  <2>4. ServiceTypes'
    BY <1>1 DEF SubmissionInv, SubmissionTypes, ServiceTypes
  <2> QED
    BY <2>2, <2>3, <2>4 DEF SubmissionTypes
<1>6. OneStartOperation'
  <2>1. \A o \in Submission!Op, k \in Nat : Started(o, k)' => Started(o, k)
    BY <1>1, <1>2 DEF Started
  <2> QED
    BY <1>1, <2>1, OneStartKept
<1>7. ScreenFollowsDevice'
  BY <1>1, <1>2, <1>4, SubmissionState DEF SubmissionInv, ScreenFollowsDevice
<1>8. IdsLeft'
  BY <1>1, <1>2, <1>3, <1>4, SubmissionState DEF SubmissionInv, IdsLeft
<1>9. QuietKeeps'
  BY <1>1, <1>2, SubmissionState DEF SubmissionInv, QuietKeeps
<1>10. ASSUME ~Persistent PROVE QueueIsOfPost' /\ WrittenAsEntered' /\ AbsentIsGone'
  <2>1. queue' = {}
    BY <1>1, <1>10 DEF SubmissionInv, QueueIsOfPost
  <2>2. \A t \in toldAbsent : t.op \in 1..MaxOps
    BY SubmissionState DEF SubmissionInv, SubmissionTypes, AttemptTypes
  <2>3. AbsentIsGone'
    BY <1>1, <1>2, <1>4, <1>10, <2>2, SubmissionState DEF SubmissionInv, AbsentIsGone
  <2> QED
    BY <1>2, <2>1, <2>3 DEF QueueIsOfPost, WrittenAsEntered
<1> QED
  BY <1>5, <1>6, <1>7, <1>8, <1>9, <1>10 DEF SubmissionInv

\* Typing, and reading the kept operation back: no attempt, no listing and no
\* number changes.
LEMMA ScreenOnlyKeeps ==
  ASSUME SubmissionHypothesis, SubmissionInv,
         (\E f \in Submission!Form : Submission!Type(f)) \/ Submission!Restore
  PROVE  SubmissionInv'
<1>1. /\ form' \in Submission!Form \cup {Blank} /\ banner' \in {banner, "none"}
      /\ \/ op' = op /\ restoring' = restoring
         \/ restoring # 0 /\ op' = restoring /\ restoring' = 0
      /\ errorType' = errorType /\ fresh' = fresh /\ intent' = intent /\ post' = post
      /\ check' = check /\ quiet' = quiet /\ stored' = stored /\ last' = last
      /\ toldAbsent' = toldAbsent /\ queue' = queue /\ listings' = listings
      /\ restarts' = restarts
  BY SubmissionState
     DEF Submission!Type, Submission!Restore, SubmissionInv, SubmissionTypes, ScreenTypes
<1>2. SubmissionTypes'
  <2>1. /\ op' \in Submission!Op \cup {Submission!NoOp}
        /\ restoring' \in Submission!Op \cup {Submission!NoOp}
    BY <1>1, SubmissionState
  <2>2. ScreenTypes'
    BY <1>1, <2>1 DEF SubmissionInv, SubmissionTypes, ScreenTypes
  <2>3. AttemptTypes'
    BY <1>1, <2>1 DEF SubmissionInv, SubmissionTypes, AttemptTypes
  <2>4. ServiceTypes'
    BY <1>1 DEF SubmissionInv, SubmissionTypes, ServiceTypes
  <2> QED
    BY <2>2, <2>3, <2>4 DEF SubmissionTypes
<1>3. OneStartOperation'
  <2>1. \A o \in Submission!Op, k \in Nat : Started(o, k)' => Started(o, k)
    BY <1>1 DEF Started
  <2> QED
    BY <1>1, <2>1, OneStartKept
<1>4. ScreenFollowsDevice'
  BY <1>1, SubmissionState DEF SubmissionInv, ScreenFollowsDevice
<1>5. IdsLeft'
  BY <1>1, SubmissionState DEF SubmissionInv, ScreenFollowsDevice, IdsLeft
<1>6. QuietKeeps'
  BY <1>1 DEF SubmissionInv, QuietKeeps
<1>7. ASSUME ~Persistent PROVE QueueIsOfPost' /\ WrittenAsEntered' /\ AbsentIsGone'
  <2>1. QueueIsOfPost' /\ WrittenAsEntered'
    BY <1>1, <1>7 DEF SubmissionInv, QueueIsOfPost, WrittenAsEntered
  <2>2. \A t \in toldAbsent : t.op \in 1..MaxOps
    BY SubmissionState DEF SubmissionInv, SubmissionTypes, AttemptTypes
  <2>3. AbsentIsGone'
    BY <1>1, <1>7, <2>2, SubmissionState DEF SubmissionInv, AbsentIsGone
  <2> QED
    BY <2>1, <2>3
<1> QED
  BY <1>2, <1>3, <1>4, <1>5, <1>6, <1>7 DEF SubmissionInv

\* The owner discards an invalid attempt: the device keeps none.
LEMMA DiscardKeeps ==
  ASSUME SubmissionHypothesis, SubmissionInv, Submission!Discard
  PROVE  SubmissionInv'
<1>1. /\ post' = post /\ banner' = "none" /\ errorType' = "none"
      /\ last' = last /\ stored' = stored /\ intent' = intent + 1 /\ form' = Blank
      /\ check' = check /\ quiet' = quiet /\ restoring' = restoring /\ listings' = listings
      /\ queue' = queue /\ restarts' = restarts /\ toldAbsent' = toldAbsent
      /\ Submission!Generate /\ fresh + 2 <= MaxOps
  BY DEF Submission!Discard, Submission!StartAfresh, Submission!Room
<1>2. post.at = "idle" /\ post.op = 0 /\ restoring = 0 /\ stored = 0
  BY SubmissionState
     DEF SubmissionInv, ScreenFollowsDevice, Submission!Discard, Submission!Saving
<1>4. /\ op' \in 0..MaxOps /\ fresh' \in 1..MaxOps /\ fresh' \in {fresh, fresh + 1}
      /\ op # 0 => op' = fresh + 1 /\ fresh' = fresh + 1
      /\ op = 0 => op' = op /\ fresh' = fresh
  BY <1>1, GenerateGives, SubmissionState
<1>5. SubmissionTypes'
  <2>1. op' \in Submission!Op \cup {Submission!NoOp} /\ fresh' \in Submission!Op
    BY <1>4, SubmissionState
  <2>2. ScreenTypes'
    BY <1>1, <2>1, SubmissionState DEF ScreenTypes
  <2>3. AttemptTypes'
    BY <1>1, SubmissionState DEF SubmissionInv, SubmissionTypes, AttemptTypes
  <2>4. ServiceTypes'
    BY <1>1 DEF SubmissionInv, SubmissionTypes, ServiceTypes
  <2> QED
    BY <2>2, <2>3, <2>4 DEF SubmissionTypes
<1>6. OneStartOperation'
  <2>1. \A o \in Submission!Op, k \in Nat : Started(o, k)' => Started(o, k)
    BY <1>1 DEF Started
  <2> QED
    BY <1>1, <2>1, OneStartKept
<1>7. ScreenFollowsDevice'
  BY <1>1, <1>2, <1>4, SubmissionState DEF SubmissionInv, ScreenFollowsDevice
<1>8. IdsLeft'
  BY <1>1, <1>2, <1>4, SubmissionState DEF SubmissionInv, IdsLeft
<1>9. QuietKeeps'
  BY <1>1, <1>2 DEF SubmissionInv, QuietKeeps
<1>10. ASSUME ~Persistent PROVE QueueIsOfPost' /\ WrittenAsEntered' /\ AbsentIsGone'
  <2>1. QueueIsOfPost' /\ WrittenAsEntered'
    BY <1>1, <1>10 DEF SubmissionInv, QueueIsOfPost, WrittenAsEntered
  <2>2. \A t \in toldAbsent : t.op \in 1..MaxOps
    BY SubmissionState DEF SubmissionInv, SubmissionTypes, AttemptTypes
  <2>3. AbsentIsGone'
    BY <1>1, <1>2, <1>4, <1>10, <2>2, SubmissionState DEF SubmissionInv, AbsentIsGone
  <2> QED
    BY <2>1, <2>3
<1> QED
  BY <1>5, <1>6, <1>7, <1>8, <1>9, <1>10 DEF SubmissionInv

\* An attempt that goes on: it was looked up, or handed over.
LEMMA AttemptGoesOn ==
  ASSUME SubmissionHypothesis, SubmissionInv, NEW at \in {"looked", "sent"},
         post.at = (IF at = "looked" THEN "saved" ELSE "looked"),
         post' = [post EXCEPT !.at = at],
         queue' = IF at = "looked" THEN queue
                  ELSE {[op |-> post.op, text |-> post.form.text, intent |-> post.intent]},
         UNCHANGED <<form, op, banner, errorType, fresh, intent, stored, last, check, quiet,
                     restoring, listings, restarts, toldAbsent>>
  PROVE  SubmissionInv'
<1>1. PICK o \in Submission!Op, f \in Submission!Form, k \in Nat :
        post = [at |-> post.at, op |-> o, form |-> f, intent |-> k]
  BY SubmissionState DEF FullPost
<1>2. /\ post' = [at |-> at, op |-> o, form |-> f, intent |-> k]
      /\ post'.at = at /\ post'.op = o /\ post.op = o /\ post'.form = f /\ post.form = f
      /\ post'.intent = k /\ post.intent = k /\ post.at # "idle" /\ at # "idle"
      /\ post' \in FullPost /\ f.text \in Texts
  BY <1>1 DEF FullPost, Submission!Form
<1>3. SubmissionTypes'
  <2>1. ScreenTypes' /\ AttemptTypes'
    BY <1>2 DEF SubmissionInv, SubmissionTypes, ScreenTypes, AttemptTypes
  <2>2. queue' = queue \/ \E w \in Submission!Write : queue' = {w}
    BY <1>2 DEF Submission!Write
  <2>3. ServiceTypes'
    BY <2>2 DEF SubmissionInv, SubmissionTypes, ServiceTypes
  <2> QED
    BY <2>1, <2>3 DEF SubmissionTypes
<1>4. OneStartOperation'
  <2>1. \A p \in Submission!Op, n \in Nat : Started(p, n)' => Started(p, n)
    BY <1>2 DEF Started
  <2> QED
    BY <2>1, OneStartKept
<1>5. ScreenFollowsDevice' /\ IdsLeft' /\ QuietKeeps'
  BY <1>2 DEF SubmissionInv, ScreenFollowsDevice, IdsLeft, QuietKeeps
<1>6. ASSUME ~Persistent PROVE QueueIsOfPost' /\ WrittenAsEntered' /\ AbsentIsGone'
  BY <1>2, <1>6 DEF SubmissionInv, QueueIsOfPost, WrittenAsEntered, AbsentIsGone
<1> QED
  BY <1>3, <1>4, <1>5, <1>6 DEF SubmissionInv

\* The lookups, the reading back, and what goes wrong with them.
LEMMA LookingKeeps ==
  ASSUME SubmissionHypothesis, SubmissionInv,
         \/ Submission!LookUp \/ Submission!HandOver \/ Submission!ReadBack
         \/ Submission!Refuse \/ Submission!Unreachable
  PROVE  SubmissionInv'
<1>1. CASE Submission!LookUp
  <2>1. post.at = "saved" /\ UNCHANGED <<check, quiet, restoring, queue, listings, restarts, toldAbsent>>
    BY <1>1 DEF Submission!LookUp
  <2>2. CASE listings[post.op] # Blank
    <3>1. Submission!Succeed \/ Submission!Fail("definitive")
      BY <1>1, <2>2 DEF Submission!LookUp, Submission!TakeExisting
    <3> QED
      BY <2>1, <3>1, FailKeeps, SucceedKeeps
  <2>3. CASE listings[post.op] = Blank /\ ~MissingReadable
    <3>1. Submission!Fail("definitive")
      BY <1>1, <2>3 DEF Submission!LookUp
    <3> QED
      BY <2>1, <3>1, FailKeeps
  <2>4. CASE listings[post.op] = Blank /\ MissingReadable
    <3>1. post' = [post EXCEPT !.at = "looked"]
          /\ UNCHANGED <<form, op, banner, errorType, fresh, intent, stored, last>>
      BY <1>1, <2>4 DEF Submission!LookUp, Submission!screenVars
    <3> QED
      BY <2>1, <3>1, AttemptGoesOn
  <2> QED
    BY <2>2, <2>3, <2>4
<1>2. CASE Submission!HandOver
  <2> DEFINE local == {w \in queue : w.op = post.op}
             found == IF local # {} THEN CHOOSE w \in local : TRUE ELSE listings[post.op]
  <2>1. post.at = "looked" /\ UNCHANGED <<check, quiet, restoring, listings, restarts, toldAbsent>>
    BY <1>2 DEF Submission!HandOver
  <2>2. CASE found # Blank
    <3>1. (Submission!Succeed \/ Submission!Fail("definitive")) /\ queue' = queue
      BY <1>2, <2>2 DEF Submission!HandOver, Submission!TakeExisting
    <3> QED
      BY <2>1, <3>1, FailKeeps, SucceedKeeps
  <2>3. CASE found = Blank
    <3>1. /\ queue' = {[op |-> post.op, text |-> post.form.text, intent |-> post.intent]}
          /\ post' = [post EXCEPT !.at = "sent"]
          /\ UNCHANGED <<form, op, banner, errorType, fresh, intent, stored, last>>
      BY <1>2, <2>3 DEF Submission!HandOver, Submission!screenVars
    <3> QED
      BY <2>1, <3>1, AttemptGoesOn
  <2> QED
    BY <2>2, <2>3
<1>3. CASE Submission!ReadBack
  BY <1>3, SucceedKeeps DEF Submission!ReadBack
<1>4. CASE Submission!Refuse
  BY <1>4, FailKeeps DEF Submission!Refuse
<1>5. CASE Submission!Unreachable
  BY <1>5, FailKeeps DEF Submission!Unreachable
<1> QED
  BY <1>1, <1>2, <1>3, <1>4, <1>5

\* The server takes a write, and creates its listing.
LEMMA CreateKeeps ==
  ASSUME SubmissionHypothesis, SubmissionInv, NEW w \in queue,
         listings[w.op] = Blank, queue' = {},
         listings' = [listings EXCEPT ![w.op] = [text |-> w.text, intent |-> w.intent]],
         IF post.at = "sent" /\ post.op = w.op
         THEN post' = [post EXCEPT !.at = "acked"] ELSE post' = post,
         UNCHANGED <<form, op, banner, errorType, fresh, intent, stored, last, check, quiet,
                     restoring, restarts, toldAbsent>>
  PROVE  SubmissionInv'
<1>1. /\ w \in Submission!Write /\ w.op \in Submission!Op /\ w.text \in Texts /\ w.intent \in Nat
      /\ listings \in [Submission!Op -> Submission!Listing \cup {Blank}]
  BY DEF SubmissionInv, SubmissionTypes, ServiceTypes, Submission!Write
<1> DEFINE new == [text |-> w.text, intent |-> w.intent]
<1>2. new \in Submission!Listing /\ new.text = w.text /\ new.intent = w.intent /\ new # Blank
  BY <1>1 DEF Submission!Listing, SubmissionHypothesis, Submission!SubmissionAssumption
<1>3. /\ listings'[w.op] = new
      /\ \A o \in Submission!Op : o # w.op => listings'[o] = listings[o]
      /\ listings' \in [Submission!Op -> Submission!Listing \cup {Blank}]
  <2> HIDE DEF new
  <2>1. listings' = [listings EXCEPT ![w.op] = new]
    BY DEF new
  <2> QED
    BY <1>1, <1>2, <2>1
<1> HIDE DEF new
<1>4. /\ post'.op = post.op /\ post'.form = post.form /\ post'.intent = post.intent
      /\ post'.at = "idle" <=> post.at = "idle"
      /\ post' \in {Submission!Idle} \cup FullPost
      /\ post'.at = "acked" => post.at \in {"sent", "acked"}
  <2>1. CASE post.at = "sent"
    <3>1. PICK o \in Submission!Op, f \in Submission!Form, k \in Nat :
            post = [at |-> post.at, op |-> o, form |-> f, intent |-> k]
      BY <2>1, SubmissionState DEF FullPost
    <3>2. /\ post' \in {[at |-> "acked", op |-> o, form |-> f, intent |-> k], post}
          /\ post.op = o /\ post.form = f /\ post.intent = k
      BY <3>1
    <3> QED
      BY <2>1, <3>1, <3>2, SubmissionState DEF FullPost
  <2>2. CASE post.at # "sent"
    BY <2>2 DEF SubmissionInv, SubmissionTypes, AttemptTypes
  <2> QED
    BY <2>1, <2>2
<1>5. SubmissionTypes'
  BY <1>3, <1>4 DEF SubmissionInv, SubmissionTypes, ScreenTypes, AttemptTypes, ServiceTypes
<1>6. OneStartOperation'
  <2>1. ASSUME NEW o \in Submission!Op, NEW k \in Nat, Started(o, k)' PROVE Started(o, k)
    <3>1. CASE listings'[o] # Blank /\ listings'[o].intent = k
      BY <1>2, <1>3, <3>1 DEF Started
    <3>2. CASE post'.at # "idle" /\ post'.op = o /\ post'.intent = k
      BY <1>4, <3>2 DEF Started
    <3> QED
      BY <2>1, <3>1, <3>2 DEF Started
  <2> QED
    BY <2>1, OneStartKept
<1>7. ScreenFollowsDevice' /\ IdsLeft' /\ QuietKeeps'
  BY <1>4 DEF SubmissionInv, ScreenFollowsDevice, IdsLeft, QuietKeeps
<1>8. ASSUME ~Persistent PROVE QueueIsOfPost' /\ WrittenAsEntered' /\ AbsentIsGone'
  <2>1. post.at = "sent" /\ w.op = post.op /\ w.text = post.form.text
    BY <1>8 DEF SubmissionInv, QueueIsOfPost
  <2>2. WrittenAsEntered'
    BY <1>2, <1>3, <1>4, <2>1 DEF WrittenAsEntered
  <2>3. \A t \in toldAbsent : t.op \in Submission!Op
    BY DEF SubmissionInv, SubmissionTypes, AttemptTypes
  <2>4. AbsentIsGone'
    BY <1>3, <1>4, <1>8, <2>1, <2>3 DEF SubmissionInv, AbsentIsGone
  <2> QED
    BY <2>2, <2>4 DEF QueueIsOfPost
<1> QED
  BY <1>5, <1>6, <1>7, <1>8 DEF SubmissionInv

\* The server takes a write whose listing is there already.
LEMMA DuplicateKeeps ==
  ASSUME SubmissionHypothesis, SubmissionInv, queue' = {},
         UNCHANGED <<post, listings, form, op, banner, errorType, fresh, intent, stored, last,
                     check, quiet, restoring, restarts, toldAbsent>>
  PROVE  SubmissionInv'
<1>1. SubmissionTypes'
  BY DEF SubmissionInv, SubmissionTypes, ScreenTypes, AttemptTypes, ServiceTypes
<1>2. OneStartOperation'
  <2>1. \A p \in Submission!Op, n \in Nat : Started(p, n)' => Started(p, n)
    BY DEF Started
  <2> QED
    BY <2>1, OneStartKept
<1>3. ScreenFollowsDevice' /\ IdsLeft' /\ QuietKeeps'
  BY DEF SubmissionInv, ScreenFollowsDevice, IdsLeft, QuietKeeps
<1>4. ASSUME ~Persistent PROVE QueueIsOfPost' /\ WrittenAsEntered' /\ AbsentIsGone'
  BY <1>4 DEF SubmissionInv, QueueIsOfPost, WrittenAsEntered, AbsentIsGone
<1> QED
  BY <1>1, <1>2, <1>3, <1>4 DEF SubmissionInv

LEMMA DeliverKeeps ==
  ASSUME SubmissionHypothesis, SubmissionInv, Submission!Deliver
  PROVE  SubmissionInv'
<1>1. PICK w \in queue :
        /\ queue' = {}
        /\ IF listings[w.op] = Blank
           THEN /\ listings' = [listings EXCEPT ![w.op] = [text |-> w.text, intent |-> w.intent]]
                /\ IF post.at = "sent" /\ post.op = w.op
                   THEN post' = [post EXCEPT !.at = "acked"] ELSE UNCHANGED post
                /\ UNCHANGED <<form, op, banner, errorType, fresh, intent, stored, last>>
           ELSE /\ UNCHANGED listings
                /\ IF post.at = "sent" /\ post.op = w.op
                   THEN Submission!Fail("definitive")
                   ELSE UNCHANGED <<post, form, op, banner, errorType, fresh, intent, stored,
                                    last>>
        /\ UNCHANGED <<check, quiet, restoring, restarts, toldAbsent>>
  BY DEF Submission!Deliver, Submission!screenVars
<1>2. CASE listings[w.op] = Blank
  BY <1>1, <1>2, CreateKeeps
<1>3. CASE listings[w.op] # Blank /\ post.at = "sent" /\ post.op = w.op
  BY <1>1, <1>3, FailKeeps
<1>4. CASE listings[w.op] # Blank /\ ~(post.at = "sent" /\ post.op = w.op)
  BY <1>1, <1>4, DuplicateKeeps
<1> QED
  BY <1>2, <1>3, <1>4

\* A check that gets no answer.
LEMMA NoAnswerKeeps ==
  ASSUME SubmissionHypothesis, SubmissionInv, Submission!NoAnswer
  PROVE  SubmissionInv'
<1>1. /\ check # 0 /\ check' = 0 /\ banner' = "error"
      /\ UNCHANGED <<form, op, errorType, post, quiet, stored, restoring, fresh, queue, listings,
                     restarts, intent, last, toldAbsent>>
  BY SubmissionState DEF Submission!NoAnswer, Submission!Checking
<1>2. SubmissionTypes'
  BY <1>1, SubmissionState
     DEF SubmissionInv, SubmissionTypes, ScreenTypes, AttemptTypes, ServiceTypes
<1>3. OneStartOperation'
  <2>1. \A p \in Submission!Op, n \in Nat : Started(p, n)' => Started(p, n)
    BY <1>1 DEF Started
  <2> QED
    BY <1>1, <2>1, OneStartKept
<1>4. ScreenFollowsDevice' /\ IdsLeft' /\ QuietKeeps'
  BY <1>1, SubmissionState DEF SubmissionInv, ScreenFollowsDevice, IdsLeft, QuietKeeps
<1>5. ASSUME ~Persistent PROVE QueueIsOfPost' /\ WrittenAsEntered' /\ AbsentIsGone'
  <2>1. QueueIsOfPost' /\ WrittenAsEntered'
    BY <1>1, <1>5 DEF SubmissionInv, QueueIsOfPost, WrittenAsEntered
  <2>2. \A t \in toldAbsent : t.op \in 1..MaxOps
    BY SubmissionState DEF SubmissionInv, SubmissionTypes, AttemptTypes
  <2>3. AbsentIsGone'
    BY <1>1, <1>5, <2>2 DEF SubmissionInv, AbsentIsGone
  <2> QED
    BY <2>1, <2>3
<1> QED
  BY <1>2, <1>3, <1>4, <1>5 DEF SubmissionInv

\* A start that a check ends: by an answer, or because nothing is kept.
LEMMA CheckEndKeeps ==
  ASSUME SubmissionHypothesis, SubmissionInv, NEW b \in {"recovered", "absent"},
         NEW o \in Submission!Op \cup {Submission!NoOp},
         Submission!StartAfresh(b), restoring = 0,
         stored' = 0, check' = 0, last' = 0,
         check # 0 \/ fresh + 2 <= MaxOps,
         toldAbsent' = toldAbsent \/ Submission!Told(o),
         quiet => /\ o = check /\ check # 0
                  /\ listings[o] = Blank \/ toldAbsent' = toldAbsent,
         UNCHANGED <<post, quiet, restoring, queue, listings, restarts>>
  PROVE  SubmissionInv'
<1>1. /\ banner' = b /\ errorType' = "none" /\ intent' = intent + 1 /\ form' = Blank
      /\ Submission!Generate
  BY DEF Submission!StartAfresh
<1>2. /\ op # 0 => fresh + 1 <= MaxOps
      /\ op # 0 /\ post.at # "idle" => fresh + 2 <= MaxOps
  BY SubmissionState DEF SubmissionInv, IdsLeft
<1>3. /\ op' \in 0..MaxOps /\ fresh' \in 1..MaxOps /\ fresh' \in {fresh, fresh + 1}
      /\ op # 0 => op' = fresh + 1 /\ fresh' = fresh + 1
      /\ op = 0 => op' = op /\ fresh' = fresh
  BY <1>1, <1>2, GenerateGives
<1>4. \A t \in toldAbsent' : t \in toldAbsent \/ (o # 0 /\ t = [op |-> o, quiet |-> quiet]
                                                 /\ (quiet => listings[o] = Blank))
  BY SubmissionState DEF Submission!Told
<1>5. SubmissionTypes'
  <2>1. op' \in Submission!Op \cup {Submission!NoOp} /\ fresh' \in Submission!Op
    BY <1>3, SubmissionState
  <2>2. ScreenTypes'
    BY <1>1, <2>1, SubmissionState DEF ScreenTypes
  <2>3. toldAbsent' \subseteq [op : Submission!Op, quiet : BOOLEAN]
    BY <1>4, SubmissionState DEF SubmissionInv, SubmissionTypes, AttemptTypes
  <2>4. AttemptTypes'
    BY <2>3, SubmissionState DEF SubmissionInv, SubmissionTypes, AttemptTypes
  <2>5. ServiceTypes'
    BY DEF SubmissionInv, SubmissionTypes, ServiceTypes
  <2> QED
    BY <2>2, <2>4, <2>5 DEF SubmissionTypes
<1>6. OneStartOperation'
  <2>1. \A p \in Submission!Op, k \in Nat : Started(p, k)' => Started(p, k)
    BY DEF Started
  <2> QED
    BY <1>1, <2>1, OneStartKept
<1>7. ScreenFollowsDevice'
  BY <1>1, <1>3, SubmissionState DEF SubmissionInv, ScreenFollowsDevice
<1>8. IdsLeft'
  BY <1>2, <1>3, SubmissionState DEF SubmissionInv, IdsLeft
<1>9. QuietKeeps'
  BY <1>1, SubmissionState DEF SubmissionInv, QuietKeeps
<1>10. ASSUME ~Persistent PROVE QueueIsOfPost' /\ WrittenAsEntered' /\ AbsentIsGone'
  <2>1. QueueIsOfPost' /\ WrittenAsEntered'
    BY <1>10 DEF SubmissionInv, QueueIsOfPost, WrittenAsEntered
  <2>2. \A t \in toldAbsent : t.op \in 1..MaxOps
    BY SubmissionState DEF SubmissionInv, SubmissionTypes, AttemptTypes
  <2>3. ASSUME NEW t \in toldAbsent', t.quiet
        PROVE  /\ listings[t.op] = Blank /\ t.op <= fresh'
               /\ t.op \notin {0, op', restoring, post.op}
    <3>1. CASE t \in toldAbsent
      BY <1>3, <1>10, <2>2, <2>3, <3>1, SubmissionState DEF SubmissionInv, AbsentIsGone
    <3>2. CASE t \notin toldAbsent
      <4>1. t.op = o /\ o # 0 /\ listings[o] = Blank /\ quiet /\ o = check
        BY <1>4, <2>3, <3>2
      <4>2. post.at = "idle" /\ post.op = 0 /\ check <= fresh
        BY <4>1, SubmissionState DEF SubmissionInv, QuietKeeps, IdsLeft
      <4> QED
        BY <1>3, <4>1, <4>2, SubmissionState
    <3> QED
      BY <3>1, <3>2
  <2>4. AbsentIsGone'
    BY <2>3 DEF AbsentIsGone
  <2> QED
    BY <2>1, <2>4
<1> QED
  BY <1>5, <1>6, <1>7, <1>8, <1>9, <1>10 DEF SubmissionInv

LEMMA AnswerKeeps ==
  ASSUME SubmissionHypothesis, SubmissionInv, Submission!Answer
  PROVE  SubmissionInv'
<1>1. /\ check # 0 /\ check' = 0 /\ stored' = 0 /\ last' = 0
      /\ UNCHANGED <<post, quiet, restoring, queue, listings, restarts>>
  BY StoreWorks, SubmissionState DEF Submission!Answer, Submission!Checking
<1>2. restoring = 0 /\ check \in Submission!Op \cup {Submission!NoOp}
  BY <1>1, SubmissionState DEF SubmissionInv, ScreenFollowsDevice
<1>3. CASE listings[check] # Blank
  BY <1>1, <1>2, <1>3, CheckEndKeeps DEF Submission!Answer
<1>4. CASE listings[check] = Blank
  BY <1>1, <1>2, <1>4, CheckEndKeeps DEF Submission!Answer
<1> QED
  BY <1>3, <1>4

\* A check begins; where the device keeps no operation, it ends at once.
LEMMA CheckStatusKeeps ==
  ASSUME SubmissionHypothesis, SubmissionInv, Submission!CheckStatus
  PROVE  SubmissionInv'
<1>1. /\ banner = "error" /\ errorType # "definitive" /\ post.at = "idle" /\ check = 0
      /\ fresh + 2 <= MaxOps /\ restoring = 0
      /\ UNCHANGED <<post, quiet, stored, restoring, queue, listings, restarts>>
  BY SubmissionState
     DEF SubmissionInv, ScreenFollowsDevice, Submission!CheckStatus, Submission!Checking,
         Submission!Saving, Submission!Room
<1>2. CASE stored = 0
  <2>1. ~quiet
    BY <1>1, <1>2, SubmissionState DEF SubmissionInv, QuietKeeps
  <2>2. /\ Submission!StartAfresh("absent") /\ Submission!Told(last) /\ last' = 0
        /\ check' = 0 /\ stored' = 0
    BY <1>1, <1>2, SubmissionState DEF Submission!CheckStatus
  <2>3. last \in Submission!Op \cup {Submission!NoOp}
    BY SubmissionState
  <2> QED
    BY <1>1, <2>1, <2>2, <2>3, CheckEndKeeps
<1>3. CASE stored # 0
  <2>1. /\ check' = stored
        /\ UNCHANGED <<form, op, banner, errorType, fresh, intent, toldAbsent, last>>
    BY <1>3, SubmissionState DEF Submission!CheckStatus, Submission!screenVars
  <2>2. SubmissionTypes'
    BY <1>1, <2>1 DEF SubmissionInv, SubmissionTypes, ScreenTypes, AttemptTypes, ServiceTypes
  <2>3. OneStartOperation'
    <3>1. \A p \in Submission!Op, n \in Nat : Started(p, n)' => Started(p, n)
      BY <1>1 DEF Started
    <3> QED
      BY <1>1, <2>1, <3>1, OneStartKept
  <2>4. ScreenFollowsDevice'
    BY <1>1, <2>1, SubmissionState DEF SubmissionInv, ScreenFollowsDevice
  <2>5. IdsLeft'
    BY <1>1, <2>1, SubmissionState DEF SubmissionInv, IdsLeft
  <2>6. QuietKeeps'
    BY <1>1, <1>3, <2>1, SubmissionState DEF SubmissionInv, QuietKeeps
  <2>7. ASSUME ~Persistent PROVE QueueIsOfPost' /\ WrittenAsEntered' /\ AbsentIsGone'
    BY <1>1, <2>1, <2>7 DEF SubmissionInv, QueueIsOfPost, WrittenAsEntered, AbsentIsGone
  <2> QED
    BY <2>2, <2>3, <2>4, <2>5, <2>6, <2>7 DEF SubmissionInv
<1> QED
  BY <1>2, <1>3

\* The app is closed and opened again.
LEMMA RestartKeeps ==
  ASSUME SubmissionHypothesis, SubmissionInv, Submission!Restart
  PROVE  SubmissionInv'
<1>1. /\ post' = Submission!Idle /\ check' = 0 /\ form' = Blank /\ banner' = "none"
      /\ errorType' = "none" /\ Submission!Generate /\ fresh + 2 <= MaxOps
      /\ restoring' = (IF op # 0 THEN stored ELSE 0)
      /\ queue' = (IF Persistent THEN queue ELSE {})
      /\ last' \in {post.op, last} /\ restarts < MaxRestarts /\ restarts' = restarts + 1
      /\ UNCHANGED <<quiet, stored, listings, intent, toldAbsent>>
  BY SubmissionState DEF Submission!Restart, Submission!Room, Submission!KeepsOperation
<1>2. post'.at = "idle" /\ post'.op = 0
  BY <1>1, SubmissionState
<1>3. /\ op' \in 0..MaxOps /\ fresh' \in 1..MaxOps /\ fresh' \in {fresh, fresh + 1}
      /\ op # 0 => op' = fresh + 1 /\ fresh' = fresh + 1
      /\ op = 0 => op' = op /\ fresh' = fresh
  BY <1>1, SubmissionState, GenerateGives
<1>4. SubmissionTypes'
  <2>1. op' \in Submission!Op \cup {Submission!NoOp} /\ fresh' \in Submission!Op
    BY <1>3, SubmissionState
  <2>2. ScreenTypes'
    BY <1>1, <2>1, SubmissionState DEF ScreenTypes
  <2>3. AttemptTypes'
    BY <1>1, SubmissionState DEF SubmissionInv, SubmissionTypes, AttemptTypes
  <2>4. MaxRestarts \in Nat /\ restarts' \in 0..MaxRestarts
    BY <1>1 DEF SubmissionInv, SubmissionTypes, ServiceTypes, SubmissionHypothesis,
                Submission!SubmissionAssumption
  <2>5. ServiceTypes'
    BY <1>1, <2>4 DEF SubmissionInv, SubmissionTypes, ServiceTypes
  <2> QED
    BY <2>2, <2>3, <2>5 DEF SubmissionTypes
<1>5. OneStartOperation'
  <2>1. \A p \in Submission!Op, k \in Nat : Started(p, k)' => Started(p, k)
    BY <1>1, <1>2 DEF Started
  <2> QED
    BY <1>1, <2>1, OneStartKept
<1>6. ScreenFollowsDevice'
  BY <1>1, <1>2, <1>3, SubmissionState DEF SubmissionInv, ScreenFollowsDevice
<1>7. IdsLeft' /\ QuietKeeps'
  BY <1>1, <1>2, <1>3, SubmissionState DEF SubmissionInv, IdsLeft, QuietKeeps
<1>8. ASSUME ~Persistent PROVE QueueIsOfPost' /\ WrittenAsEntered' /\ AbsentIsGone'
  <2>1. QueueIsOfPost' /\ WrittenAsEntered'
    BY <1>1, <1>2, <1>8 DEF QueueIsOfPost, WrittenAsEntered
  <2>2. \A t \in toldAbsent : t.op \in 1..MaxOps
    BY SubmissionState DEF SubmissionInv, SubmissionTypes, AttemptTypes
  <2>3. AbsentIsGone'
    BY <1>1, <1>2, <1>3, <1>8, <2>2, SubmissionState DEF SubmissionInv, AbsentIsGone
  <2> QED
    BY <2>1, <2>3
<1> QED
  BY <1>4, <1>5, <1>6, <1>7, <1>8 DEF SubmissionInv

\* An attempt begins, under the operation that the device keeps if it keeps
\* one: Send's, once it has been read back, is that one.
LEMMA PostKeeps ==
  ASSUME SubmissionHypothesis, SubmissionInv, Submission!Post
  PROVE  SubmissionInv'
<1>1. /\ post.at = "idle" /\ post.op = 0 /\ fresh + 2 <= MaxOps /\ restoring = 0
      /\ form \in Submission!Form /\ quiet' = (quiet /\ check = 0)
      /\ UNCHANGED <<form, op, check, restoring, queue, listings, restarts, last, toldAbsent>>
  BY SubmissionState
     DEF SubmissionInv, SubmissionTypes, ScreenTypes, ScreenFollowsDevice, SubmissionHypothesis,
         Submission!Post, Submission!Entered, Submission!Checking, Submission!Saving,
         Submission!Room
<1>2. PICK o \in Submission!Operations :
        /\ fresh' = IF o > fresh THEN o ELSE fresh
        /\ IF form.text \in TooLong
           THEN /\ banner' = "error" /\ errorType' = "definitive"
                /\ Submission!Store(Submission!NoOp) /\ intent' = intent + 1
                /\ UNCHANGED post
           ELSE /\ post' = [at |-> "saved", op |-> o, form |-> form, intent |-> intent]
                /\ banner' = "none"
                /\ Submission!Store(o)
                /\ UNCHANGED <<errorType, intent>>
  BY DEF Submission!Post
<1>3. /\ o \in Submission!Op /\ fresh' \in Submission!Op
      /\ stored # 0 => o = stored
      /\ op # 0 => o = op /\ fresh' = fresh
      /\ o \in {op, stored} \/ o = fresh + 1
      /\ o <= fresh' /\ fresh' \in {fresh, fresh + 1}
  BY <1>1, <1>2, SubmissionState
     DEF SubmissionInv, ScreenFollowsDevice, IdsLeft, Submission!Operations
<1>5. CASE form.text \in TooLong
  <2>1. /\ banner' = "error" /\ errorType' = "definitive" /\ stored' = 0
        /\ intent' = intent + 1 /\ post' = post
    BY <1>2, <1>5, StoreWorks, SubmissionState
  <2>2. SubmissionTypes'
    <3>1. ScreenTypes'
      BY <1>1, <1>3, <2>1, SubmissionState DEF SubmissionInv, SubmissionTypes, ScreenTypes
    <3>2. AttemptTypes'
      BY <1>1, <2>1, SubmissionState DEF SubmissionInv, SubmissionTypes, AttemptTypes
    <3>3. ServiceTypes'
      BY <1>1 DEF SubmissionInv, SubmissionTypes, ServiceTypes
    <3> QED
      BY <3>1, <3>2, <3>3 DEF SubmissionTypes
  <2>3. OneStartOperation'
    <3>1. \A p \in Submission!Op, k \in Nat : Started(p, k)' => Started(p, k)
      BY <1>1, <2>1 DEF Started
    <3> QED
      BY <2>1, <3>1, OneStartKept
  <2>4. ScreenFollowsDevice'
    BY <1>1, <2>1, SubmissionState DEF SubmissionInv, ScreenFollowsDevice
  <2>5. IdsLeft'
    BY <1>1, <1>3, <2>1, SubmissionState DEF SubmissionInv, IdsLeft
  <2>6. QuietKeeps'
    BY <1>1, <2>1, SubmissionState DEF QuietKeeps
  <2>7. ASSUME ~Persistent PROVE QueueIsOfPost' /\ WrittenAsEntered' /\ AbsentIsGone'
    <3>1. QueueIsOfPost' /\ WrittenAsEntered'
      BY <1>1, <2>1, <2>7 DEF SubmissionInv, QueueIsOfPost, WrittenAsEntered
    <3>2. \A t \in toldAbsent : t.op \in 1..MaxOps
      BY SubmissionState DEF SubmissionInv, SubmissionTypes, AttemptTypes
    <3>3. AbsentIsGone'
      BY <1>1, <1>3, <2>1, <2>7, <3>2, SubmissionState DEF SubmissionInv, AbsentIsGone
    <3> QED
      BY <3>1, <3>3
  <2> QED
    BY <2>2, <2>3, <2>4, <2>5, <2>6, <2>7 DEF SubmissionInv
<1>6. CASE form.text \notin TooLong
  <2>1. /\ post' = [at |-> "saved", op |-> o, form |-> form, intent |-> intent]
        /\ banner' = "none" /\ stored' = o /\ errorType' = errorType /\ intent' = intent
    BY <1>2, <1>6, StoreWorks
  <2>2. /\ post'.at = "saved" /\ post'.op = o /\ post'.intent = intent /\ post' \in FullPost
    BY <1>1, <1>3, <2>1, SubmissionState DEF FullPost
  <2>3. SubmissionTypes'
    <3>1. ScreenTypes'
      BY <1>1, <1>3, <2>1 DEF SubmissionInv, SubmissionTypes, ScreenTypes
    <3>2. AttemptTypes'
      BY <1>1, <1>3, <2>1, <2>2 DEF SubmissionInv, SubmissionTypes, AttemptTypes
    <3>3. ServiceTypes'
      BY <1>1 DEF SubmissionInv, SubmissionTypes, ServiceTypes
    <3> QED
      BY <3>1, <3>2, <3>3 DEF SubmissionTypes
  <2>4. OneStartOperation'
    <3>1. \A p \in Submission!Op, k \in Nat :
            Started(p, k)' => Started(p, k) \/ (k = intent /\ p = stored')
      BY <1>1, <2>1, <2>2 DEF Started
    <3>2. stored # Submission!NoOp => stored' = stored
      BY <1>3, <2>1, SubmissionState
    <3> QED
      BY <2>1, <3>1, <3>2, OneStartKept
  <2>5. ScreenFollowsDevice'
    BY <1>1, <1>3, <2>1, <2>2, SubmissionState DEF SubmissionInv, ScreenFollowsDevice
  <2>6. IdsLeft'
    BY <1>1, <1>3, <2>1, <2>2, SubmissionState DEF SubmissionInv, IdsLeft
  <2>7. QuietKeeps'
    BY <1>1, <2>1, <2>2, SubmissionState DEF QuietKeeps
  <2>8. ASSUME ~Persistent PROVE QueueIsOfPost' /\ WrittenAsEntered' /\ AbsentIsGone'
    <3>1. QueueIsOfPost' /\ WrittenAsEntered'
      BY <1>1, <2>2, <2>8 DEF SubmissionInv, QueueIsOfPost, WrittenAsEntered
    <3>2. \A t \in toldAbsent : t.op \in 1..MaxOps
      BY SubmissionState DEF SubmissionInv, SubmissionTypes, AttemptTypes
    <3>3. AbsentIsGone'
      BY <1>1, <1>3, <2>1, <2>2, <2>8, <3>2, SubmissionState DEF SubmissionInv, AbsentIsGone
    <3> QED
      BY <3>1, <3>3
  <2> QED
    BY <2>3, <2>4, <2>5, <2>6, <2>7, <2>8 DEF SubmissionInv
<1> QED
  BY <1>5, <1>6

LEMMA SubmissionStep ==
  ASSUME SubmissionHypothesis, SubmissionInv, [Submission!Next]_Submission!vars
  PROVE  SubmissionInv'
<1>1. CASE (\E f \in Submission!Form : Submission!Type(f)) \/ Submission!Restore
  BY <1>1, ScreenOnlyKeeps
<1>2. CASE Submission!Post
  BY <1>2, PostKeeps
<1>3. CASE \/ Submission!LookUp \/ Submission!HandOver \/ Submission!ReadBack
           \/ Submission!Refuse \/ Submission!Unreachable
  BY <1>3, LookingKeeps
<1>4. CASE Submission!Deliver
  BY <1>4, DeliverKeeps
<1>5. CASE Submission!CheckStatus \/ Submission!Answer \/ Submission!NoAnswer
  BY <1>5, CheckStatusKeeps, AnswerKeeps, NoAnswerKeeps
<1>6. CASE Submission!Discard \/ Submission!Restart
  BY <1>6, DiscardKeeps, RestartKeeps
<1>7. CASE UNCHANGED Submission!vars
  <2>1. UNCHANGED <<form, op, banner, errorType, post, check, quiet, stored, restoring, fresh,
                    queue, listings, restarts, intent, last, toldAbsent>>
    BY <1>7 DEF Submission!vars
  <2>2. SubmissionTypes'
    BY <2>1 DEF SubmissionInv, SubmissionTypes, ScreenTypes, AttemptTypes, ServiceTypes
  <2>3. OneStartOperation'
    BY <2>1 DEF SubmissionInv, OneStartOperation, Started
  <2>4. ScreenFollowsDevice' /\ IdsLeft' /\ QuietKeeps'
    BY <2>1 DEF SubmissionInv, ScreenFollowsDevice, IdsLeft, QuietKeeps
  <2>5. ~Persistent => QueueIsOfPost' /\ WrittenAsEntered' /\ AbsentIsGone'
    BY <2>1 DEF SubmissionInv, QueueIsOfPost, WrittenAsEntered, AbsentIsGone
  <2> QED
    BY <2>2, <2>3, <2>4, <2>5 DEF SubmissionInv
<1> QED
  BY <1>1, <1>2, <1>3, <1>4, <1>5, <1>6, <1>7 DEF Submission!Next

\* What the invariant says of the listings.
LEMMA SubmissionGives ==
  ASSUME SubmissionHypothesis, SubmissionInv
  PROVE  /\ Submission!TypeOK /\ Submission!OneListingPerStart
         /\ ~Persistent => Submission!QuietCheckIsRight
<1>1. Submission!TypeOK
  BY SubmissionTypesRight DEF SubmissionInv
<1>2. ASSUME NEW a \in Submission!Op, NEW b \in Submission!Op, listings[a] # Blank,
             listings[b] # Blank, listings[a].intent = listings[b].intent
      PROVE  a = b
  <2> DEFINE k == listings[a].intent
  <2>1. k \in Nat
    BY <1>2 DEF SubmissionInv, SubmissionTypes, ServiceTypes, Submission!Listing
  <2>2. Started(a, k) /\ Started(b, k)
    BY <1>2 DEF Started
  <2> QED
    BY <2>1, <2>2 DEF SubmissionInv, OneStartOperation
<1>3. ~Persistent => Submission!QuietCheckIsRight
  BY DEF SubmissionInv, AbsentIsGone, Submission!QuietCheckIsRight
<1> QED
  BY <1>1, <1>2, <1>3 DEF Submission!OneListingPerStart

\* An attempt that goes on has not ended.
LEMMA GoingOnIsNoEnd ==
  ASSUME SubmissionHypothesis, SubmissionInv, post.at # "idle",
         NEW at \in {"looked", "sent", "acked"}, post' = [post EXCEPT !.at = at]
  PROVE  post' # Submission!Idle
<1>1. PICK o \in Submission!Op, f \in Submission!Form, k \in Nat :
        post = [at |-> post.at, op |-> o, form |-> f, intent |-> k]
  BY SubmissionState DEF FullPost
<1>2. post' = [at |-> at, op |-> o, form |-> f, intent |-> k]
  BY <1>1
<1>3. post'.at = at
  BY <1>2
<1> QED
  BY <1>3, SubmissionState

\* What is reported as saved was found, or has been written, as it was entered.
LEMMA SavedAsEntered ==
  ASSUME SubmissionHypothesis, SubmissionInv, ~Persistent, [Submission!Next]_Submission!vars
  PROVE  [Submission!AsEntered]_Submission!vars
<1> SUFFICES ASSUME Submission!Next, post.at # "idle", banner' = "saved",
                    post' = Submission!Idle
             PROVE  listings[post.op] # Blank /\ listings[post.op].text = post.form.text
  BY DEF Submission!AsEntered
<1>1. post' # post
  BY SubmissionState
<1>2. \A kind : ~Submission!Fail(kind)
  BY DEF Submission!Fail
<1>3. Submission!LookUp \/ Submission!HandOver \/ Submission!ReadBack
  <2>1. ~Submission!Post
    BY DEF Submission!Post, Submission!Saving
  <2>2. ~Submission!Deliver
    <3> SUFFICES ASSUME NEW w \in queue,
                        IF post.at = "sent" /\ post.op = w.op
                        THEN post' = [post EXCEPT !.at = "acked"] ELSE UNCHANGED post
                 PROVE  FALSE
      BY <1>1, <1>2 DEF Submission!Deliver
    <3> QED
      BY <1>1, GoingOnIsNoEnd
  <2>3. ~Submission!Refuse /\ ~Submission!Unreachable
    BY <1>2 DEF Submission!Refuse, Submission!Unreachable
  <2>4. ~Submission!CheckStatus /\ ~Submission!Answer /\ ~Submission!NoAnswer
        /\ ~Submission!Discard /\ ~Submission!Restore
        /\ ~(\E f \in Submission!Form : Submission!Type(f))
    BY <1>1 DEF Submission!CheckStatus, Submission!Answer, Submission!NoAnswer,
                Submission!Discard, Submission!Restore, Submission!Type
  <2>5. ~Submission!Restart
    BY DEF Submission!Restart
  <2> QED
    BY <2>1, <2>2, <2>3, <2>4, <2>5 DEF Submission!Next
<1>4. CASE Submission!LookUp
  <2>1. post.at = "saved"
    BY <1>4 DEF Submission!LookUp
  <2>2. listings[post.op] = Blank => post' = [post EXCEPT !.at = "looked"]
    BY <1>2, <1>4 DEF Submission!LookUp
  <2>3. listings[post.op] # Blank
    BY <2>1, <2>2, GoingOnIsNoEnd
  <2>4. Submission!Matches(listings[post.op], TRUE)
    BY <1>2, <1>4, <2>3 DEF Submission!LookUp, Submission!TakeExisting
  <2> QED
    BY <2>3, <2>4 DEF Submission!Matches
<1>5. CASE Submission!HandOver
  <2>1. queue = {} /\ post.at = "looked"
    BY <1>5 DEF Submission!HandOver, SubmissionInv, QueueIsOfPost
  <2>2. {w \in queue : w.op = post.op} = {}
    BY <2>1
  <2>3. listings[post.op] = Blank => post' = [post EXCEPT !.at = "sent"]
    BY <1>5, <2>2 DEF Submission!HandOver
  <2>4. listings[post.op] # Blank
    BY <2>1, <2>3, GoingOnIsNoEnd
  <2>5. Submission!Matches(listings[post.op], FALSE)
    BY <1>2, <1>5, <2>2, <2>4 DEF Submission!HandOver, Submission!TakeExisting
  <2> QED
    BY <2>4, <2>5 DEF Submission!Matches
<1>6. CASE Submission!ReadBack
  BY <1>6 DEF Submission!ReadBack, SubmissionInv, WrittenAsEntered
<1> QED
  BY <1>3, <1>4, <1>5, <1>6

\* Whether or not the owner may read a missing listing, and whether or not the
\* queue of writes outlives the app: however often an attempt is retried, at
\* most one listing comes of a start (ShipmentService.create,
\* TripService.create).
THEOREM OneListingOfAStart ==
  ASSUME SubmissionHypothesis
  PROVE  Submission!Spec => [](Submission!TypeOK /\ Submission!OneListingPerStart)
<1>1. Submission!Init => SubmissionInv
  BY SubmissionInit
<1>2. SubmissionInv /\ [Submission!Next]_Submission!vars => SubmissionInv'
  BY SubmissionStep
<1>3. SubmissionInv => Submission!TypeOK /\ Submission!OneListingPerStart
  BY SubmissionGives
<1> QED
  BY <1>1, <1>2, <1>3, PTL DEF Submission!Spec

\* Where the queue of writes is lost with the app, the status check is also
\* right as long as no attempt begins while it runs, and what is reported as
\* saved is on the server as it was entered (ShipmentService.create,
\* reconcilePendingOperation).
THEOREM ListingsComeOnce ==
  ASSUME SubmissionHypothesis, ~Persistent
  PROVE  Submission!Spec => Submission!ListedOnce
<1>1. Submission!Init => SubmissionInv
  BY SubmissionInit
<1>2. SubmissionInv /\ [Submission!Next]_Submission!vars =>
        SubmissionInv' /\ [Submission!AsEntered]_Submission!vars
  BY SubmissionStep, SavedAsEntered
<1>3. SubmissionInv => Submission!OneListingPerStart /\ Submission!QuietCheckIsRight
  BY SubmissionGives
<1> QED
  BY <1>1, <1>2, <1>3, PTL DEF Submission!Spec, Submission!ListedOnce

-----------------------------------------------------------------------------
(***************************************************************************)
(* The notifications of a booking's history.                               *)
(***************************************************************************)
Entry ==
  [status : {"pending", "accepted", "declined", "cancelled", "in_transit", "delivered",
             "completed"}, by : {"sender", "traveler"}]

\* A history of the server begins with the sender's request, and goes on by
\* steps that a party may take.
PossibleHistory(h) ==
  /\ h \in Seq(Entry) /\ h # <<>>
  /\ h[1] = [status |-> "pending", by |-> "sender"]
  /\ \A i \in 2..Len(h) : <<h[i - 1].status, h[i].status, h[i].by>> \in Events!Step

\* What a reconciliation has been through is in the notifications.
EventsInv ==
  /\ PossibleHistory(history)
  /\ scan = Events!NoScan \/ PossibleHistory(scan.read)
  /\ scan.left \subseteq DOMAIN scan.read
  /\ \A i \in DOMAIN scan.read \ scan.left :
       Events!NotificationOf(scan.read, i) \in notifications

LEMMA StepsTaken ==
  ASSUME NEW from, NEW to, NEW by, <<from, to, by>> \in Events!Step
  PROVE  /\ [status |-> to, by |-> by] \in Entry
         /\ \/ from = "pending" /\ to \in {"accepted", "declined"} /\ by = "traveler"
            \/ from = "pending" /\ to = "cancelled" /\ by = "sender"
            \/ from = "accepted" /\ to = "cancelled" /\ by \in {"sender", "traveler"}
            \/ from = "accepted" /\ to = "in_transit" /\ by = "traveler"
            \/ from = "in_transit" /\ to = "delivered" /\ by = "traveler"
            \/ from = "delivered" /\ to = "completed" /\ by = "sender"
<1>1. \/ from = "pending" /\ to \in {"accepted", "declined"} /\ by = "traveler"
      \/ from = "pending" /\ to = "cancelled" /\ by = "sender"
      \/ from = "accepted" /\ to = "cancelled" /\ by \in {"sender", "traveler"}
      \/ from = "accepted" /\ to = "in_transit" /\ by = "traveler"
      \/ from = "in_transit" /\ to = "delivered" /\ by = "traveler"
      \/ from = "delivered" /\ to = "completed" /\ by = "sender"
  BY DEF Events!Step
<1> QED
  BY <1>1 DEF Entry

\* Each event of a possible history implies the party who took the step, and
\* goes to the other.
LEMMA EntriesAreValid ==
  ASSUME NEW h, PossibleHistory(h), NEW i \in DOMAIN h
  PROVE  Events!ValidEntry(h, i) /\ Events!NotificationOf(h, i).to # h[i].by
<1>1. Events!Other("sender") = "traveler" /\ Events!Other("traveler") = "sender"
  <2>1. \A p \in Events!Party : p # "sender" <=> p = "traveler"
    BY DEF Events!Party
  <2> QED
    BY <2>1 DEF Events!Other, Events!Party
<1>2. i \in 1..Len(h) /\ DOMAIN h = 1..Len(h) /\ Len(h) \in Nat
  BY DEF PossibleHistory
<1>3. CASE i = 1
  <2>1. Events!NotificationOf(h, i).to = "traveler" /\ h[i].by = "sender"
    BY <1>3 DEF PossibleHistory, Events!NotificationOf
  <2> QED
    BY <1>1, <2>1 DEF Events!ValidEntry
<1>4. CASE i # 1
  <2> DEFINE from == h[i - 1].status
             to == Events!NotificationOf(h, i).to
  <2>1. i \in 2..Len(h)
    BY <1>2, <1>4
  <2>2. <<from, h[i].status, h[i].by>> \in Events!Step
    BY <2>1 DEF PossibleHistory
  <2>3. to = Events!Recipient(from, h[i])
    BY <1>4 DEF Events!NotificationOf
  <2> DEFINE end == h[i].status
             by == h[i].by
  <2>4. to = IF from = "accepted" /\ end = "cancelled"
             THEN IF by = "traveler" THEN "sender" ELSE "traveler"
             ELSE IF end \in {"completed", "cancelled"} THEN "traveler" ELSE "sender"
    BY <2>3 DEF Events!Recipient
  <2> HIDE DEF from, to, end, by
  <2>5. \/ from = "pending" /\ end \in {"accepted", "declined"} /\ by = "traveler"
        \/ from = "pending" /\ end = "cancelled" /\ by = "sender"
        \/ from = "accepted" /\ end = "cancelled" /\ by \in {"sender", "traveler"}
        \/ from = "accepted" /\ end = "in_transit" /\ by = "traveler"
        \/ from = "in_transit" /\ end = "delivered" /\ by = "traveler"
        \/ from = "delivered" /\ end = "completed" /\ by = "sender"
    BY <2>2, StepsTaken DEF end, by
  <2>6. \/ to = "sender" /\ by = "traveler"
        \/ to = "traveler" /\ by = "sender"
    BY <2>4, <2>5
  <2> QED
    BY <1>1, <2>6 DEF Events!ValidEntry, to, by
<1> QED
  BY <1>3, <1>4

LEMMA EventsInit == Events!Init => EventsInv
<1> SUFFICES ASSUME Events!Init PROVE EventsInv
  OBVIOUS
<1> DEFINE first == [status |-> "pending", by |-> "sender"]
<1>1. history = <<first>> /\ scan = [read |-> <<>>, left |-> {}]
  BY DEF Events!Init, Events!NoScan
<1>2. first \in Entry
  BY DEF Entry
<1> HIDE DEF first
<1>3. PossibleHistory(history)
  BY <1>1, <1>2 DEF PossibleHistory, first
<1> QED
  BY <1>1, <1>3 DEF EventsInv, Events!NoScan

LEMMA EventsStep ==
  ASSUME EventsInv, [Events!Next]_Events!vars
  PROVE  EventsInv'
<1>1. ASSUME NEW to, NEW by, Events!MoveBooking(to, by) PROVE EventsInv'
  <2> DEFINE entry == [status |-> to, by |-> by]
             n == Len(history)
  <2>1. /\ <<history[n].status, to, by>> \in Events!Step
        /\ history' = Append(history, entry) /\ UNCHANGED <<notifications, scan>>
    BY <1>1 DEF Events!MoveBooking
  <2>2. entry.status = to /\ entry.by = by
    OBVIOUS
  <2>3. entry \in Entry
    BY <2>1, StepsTaken
  <2>4. /\ history \in Seq(Entry) /\ history # <<>>
        /\ n \in Nat \ {0}
    BY DEF EventsInv, PossibleHistory
  <2> HIDE DEF entry
  <2>5. /\ history' \in Seq(Entry) /\ Len(history') = n + 1
        /\ history'[n + 1] = entry /\ \A i \in 1..n : history'[i] = history[i]
    BY <2>1, <2>3, <2>4
  <2>6. \A i \in 2..Len(history') :
          <<history'[i - 1].status, history'[i].status, history'[i].by>> \in Events!Step
    <3> SUFFICES ASSUME NEW i \in 2..n + 1
                 PROVE  <<history'[i - 1].status, history'[i].status, history'[i].by>>
                          \in Events!Step
      BY <2>5
    <3>1. CASE i = n + 1
      <4>1. i - 1 = n /\ n \in 1..n
        BY <2>4, <3>1
      <4>2. history'[i - 1] = history[n] /\ history'[i] = entry
        BY <2>5, <3>1, <4>1
      <4> QED
        BY <2>1, <2>2, <4>2
    <3>2. CASE i # n + 1
      <4>1. i \in 2..n /\ i - 1 \in 1..n /\ i \in 1..n
        BY <2>4, <3>2
      <4>2. history'[i - 1] = history[i - 1] /\ history'[i] = history[i]
        BY <2>5, <4>1
      <4> QED
        BY <4>1, <4>2 DEF EventsInv, PossibleHistory
    <3> QED
      BY <3>1, <3>2
  <2>7. PossibleHistory(history')
    BY <2>4, <2>5, <2>6 DEF EventsInv, PossibleHistory
  <2> QED
    BY <2>1, <2>7 DEF EventsInv, PossibleHistory
<1>2. ASSUME NEW i, Events!HandleTrigger(i) PROVE EventsInv'
  BY <1>2 DEF EventsInv, PossibleHistory, Events!HandleTrigger, Events!Materialized
<1>3. ASSUME NEW i, Events!SwallowFailure(i) PROVE EventsInv'
  BY <1>3 DEF EventsInv, PossibleHistory, Events!SwallowFailure
<1>4. CASE Events!StartReconciliation
  <2>1. /\ scan' = [read |-> history, left |-> DOMAIN history]
        /\ UNCHANGED <<history, notifications>>
    BY <1>4 DEF Events!StartReconciliation
  <2>2. scan'.read = history /\ scan'.left = DOMAIN history
    BY <2>1
  <2>3. PossibleHistory(scan'.read)
    BY <2>2 DEF EventsInv
  <2> QED
    BY <2>1, <2>2, <2>3 DEF EventsInv, PossibleHistory
<1>5. CASE Events!ReconcileEntry
  <2>1. PICK i \in scan.left :
          /\ notifications' = Events!Materialized(scan.read, i)
          /\ scan' = [scan EXCEPT !.left = @ \ {i}]
          /\ UNCHANGED history
    BY <1>5 DEF Events!ReconcileEntry
  <2>2. scan # Events!NoScan
    BY <2>1 DEF Events!NoScan
  <2>3. scan'.read = scan.read /\ scan'.left = scan.left \ {i}
    BY <2>1
  <2>4. i \in DOMAIN scan.read /\ PossibleHistory(scan.read)
    BY <2>1, <2>2 DEF EventsInv
  <2>5. Events!NotificationOf(scan.read, i) \in notifications'
    BY <2>1, <2>4, EntriesAreValid DEF Events!Materialized
  <2>6. notifications \subseteq notifications'
    BY <2>1 DEF Events!Materialized
  <2>7. PossibleHistory(scan'.read)
    BY <2>3, <2>4
  <2> QED
    BY <2>1, <2>3, <2>5, <2>6, <2>7 DEF EventsInv, PossibleHistory
<1>6. CASE Events!AbortReconciliation
  BY <1>6 DEF EventsInv, PossibleHistory, Events!AbortReconciliation, Events!NoScan
<1>7. CASE UNCHANGED Events!vars
  BY <1>7 DEF EventsInv, PossibleHistory, Events!vars
<1> QED
  BY <1>1, <1>2, <1>3, <1>4, <1>5, <1>6, <1>7 DEF Events!Next

\* A reconciliation that has gone through what it read leaves no step of it
\* untold, however many triggers failed or ran twice
\* (reconcileBookingLifecycleNotifications).
THEOREM ReconciliationIsComplete == Events!Spec => []Events!ReconciledAll
<1>1. EventsInv => Events!ReconciledAll
  <2> SUFFICES ASSUME EventsInv, scan.left = {}, NEW i \in DOMAIN scan.read
               PROVE  \E n \in notifications :
                        n = Events!NotificationOf(scan.read, i) /\ n.to # scan.read[i].by
    BY DEF Events!ReconciledAll
  <2>1. scan # Events!NoScan
    BY DEF Events!NoScan
  <2>2. PossibleHistory(scan.read)
    BY <2>1 DEF EventsInv
  <2>3. Events!NotificationOf(scan.read, i) \in notifications
    BY DEF EventsInv
  <2> QED
    BY <2>2, <2>3, EntriesAreValid
<1> QED
  BY <1>1, EventsInit, EventsStep, PTL DEF Events!Spec

-----------------------------------------------------------------------------
(***************************************************************************)
(* Recommendations.                                                        *)
(***************************************************************************)
LEMMA DiscoveryCounts ==
  ASSUME NEW S
  PROVE  /\ Discovery!Cardinality(S) = Cardinality(S)
         /\ Discovery!IsFiniteSet(S) = IsFiniteSet(S)
BY DEF Discovery!Cardinality, Cardinality, Discovery!IsFiniteSet, IsFiniteSet

\* A result with the numbers that it is ranked by
Rankable(r) == r.total \in Int /\ r.route \in Int /\ r.trip \in DOMAIN Journeys

\* Results come by their total, then by the route, the departure and the trip.
LEMMA PrecedesIs ==
  ASSUME NEW l, NEW r
  PROVE  Discovery!Precedes(l, r) <=>
           \/ -l.total < -r.total
           \/ -l.total = -r.total /\ -l.route < -r.route
           \/ /\ -l.total = -r.total /\ -l.route = -r.route
              /\ Journeys[l.trip].departure < Journeys[r.trip].departure
           \/ /\ -l.total = -r.total /\ -l.route = -r.route
              /\ Journeys[l.trip].departure = Journeys[r.trip].departure
              /\ l.trip < r.trip
<1> DEFINE key(x) == <<-x.total, -x.route, Journeys[x.trip].departure, x.trip>>
           Before(n) == key(l)[n] < key(r)[n] /\ \A k \in 1..n - 1 : key(l)[k] = key(r)[k]
<1>1. Discovery!Precedes(l, r) <=> \E n \in 1..4 : Before(n)
  BY DEF Discovery!Precedes
<1>2. (\E n \in 1..4 : Before(n)) <=> Before(1) \/ Before(2) \/ Before(3) \/ Before(4)
  <2> HIDE DEF Before
  <2> QED
    OBVIOUS
<1>3. Before(1) <=> -l.total < -r.total
  OBVIOUS
<1>4. Before(2) <=> -l.route < -r.route /\ -l.total = -r.total
  OBVIOUS
<1>5. Before(3) <=> /\ Journeys[l.trip].departure < Journeys[r.trip].departure
                    /\ -l.total = -r.total /\ -l.route = -r.route
  OBVIOUS
<1>6. Before(4) <=> /\ l.trip < r.trip /\ -l.total = -r.total /\ -l.route = -r.route
                    /\ Journeys[l.trip].departure = Journeys[r.trip].departure
  OBVIOUS
<1> HIDE DEF Before
<1> QED
  BY <1>1, <1>2, <1>3, <1>4, <1>5, <1>6

LEMMA Ordered ==
  ASSUME Discovery!MatchDiscoveryAssumption,
         NEW x, NEW y, NEW z, Rankable(x), Rankable(y), Rankable(z)
  PROVE  /\ ~Discovery!Precedes(x, x)
         /\ Discovery!Precedes(x, y) /\ Discovery!Precedes(y, z) => Discovery!Precedes(x, z)
         /\ x.trip # y.trip => Discovery!Precedes(x, y) \/ Discovery!Precedes(y, x)
<1>1. ASSUME NEW r, Rankable(r)
      PROVE  /\ r.total \in Int /\ r.route \in Int /\ r.trip \in Int
             /\ Journeys[r.trip].departure \in Int
  BY <1>1 DEF Rankable, Discovery!MatchDiscoveryAssumption
<1> QED
  BY <1>1, PrecedesIs

\* The first n of a set of results in their order: what is left out comes
\* after all of them, and nothing is left out while there is room.
LEMMA BestAreFirst ==
  ASSUME Discovery!MatchDiscoveryAssumption, NEW S, IsFiniteSet(S), NEW n \in Nat,
         \A r \in S : Rankable(r),
         \A x, y \in S : x.trip = y.trip => x = y
  PROVE  LET best == Discovery!Best(S, n) IN
         /\ Len(best) \in Nat /\ Len(best) <= n
         /\ \A k \in 1..Len(best) : best[k] \in S
         /\ \A r \in S : \/ \E k \in 1..Len(best) : best[k] = r
                         \/ /\ Len(best) = n
                            /\ \A k \in 1..Len(best) : Discovery!Precedes(best[k], r)
<1> DEFINE Before(r) == {x \in S : Discovery!Precedes(x, r)}
           place == [r \in S |-> Cardinality(Before(r)) + 1]
           c == Cardinality(S)
           m == IF n < c THEN n ELSE c
<1>1. c \in Nat
  BY FS_CardinalityType
<1>2. ASSUME NEW r \in S
      PROVE  /\ IsFiniteSet(Before(r)) /\ Cardinality(Before(r)) \in Nat
             /\ Cardinality(Before(r)) < c
  <2>1. Before(r) \subseteq S /\ r \notin Before(r)
    BY Ordered
  <2> HIDE DEF Before
  <2> QED
    BY <2>1, FS_Subset, FS_CardinalityType
<1>3. ASSUME NEW x \in S, NEW y \in S, Discovery!Precedes(x, y) PROVE place[x] < place[y]
  <2>1. Before(x) \subseteq Before(y) /\ x \in Before(y) /\ x \notin Before(x)
    BY <1>3, Ordered
  <2>2. IsFiniteSet(Before(y))
    BY <1>2
  <2>3. /\ place[x] = Cardinality(Before(x)) + 1 /\ Cardinality(Before(x)) \in Nat
        /\ place[y] = Cardinality(Before(y)) + 1 /\ Cardinality(Before(y)) \in Nat
    <3>1. Cardinality(Before(x)) \in Nat /\ Cardinality(Before(y)) \in Nat
      BY <1>2
    <3> HIDE DEF Before
    <3> QED
      BY <3>1
  <2> HIDE DEF Before, place
  <2>4. /\ Cardinality(Before(x)) <= Cardinality(Before(y))
        /\ Cardinality(Before(x)) # Cardinality(Before(y))
    <3>1. Before(x) \in SUBSET Before(y) /\ Before(x) # Before(y)
      BY <2>1
    <3> QED
      BY <2>2, <3>1, FS_Subset
  <2> QED
    BY <2>3, <2>4
<1>4. place \in [S -> 1..c]
  <2>1. ASSUME NEW r \in S PROVE Cardinality(Before(r)) + 1 \in 1..c
    <3>1. Cardinality(Before(r)) \in Nat /\ Cardinality(Before(r)) < c
      BY <1>2
    <3> HIDE DEF Before, c
    <3> QED
      BY <1>1, <3>1
  <2> HIDE DEF Before, c
  <2> QED
    BY <2>1
<1>5. ASSUME NEW x \in S, NEW y \in S, x # y PROVE place[x] # place[y]
  <2>1. Discovery!Precedes(x, y) \/ Discovery!Precedes(y, x)
    BY <1>5, Ordered
  <2>2. place[x] \in Int /\ place[y] \in Int
    BY <1>4
  <2> HIDE DEF place
  <2> QED
    BY <1>3, <2>1, <2>2
<1>6. place \in Injection(S, 1..c)
  <2> HIDE DEF place
  <2> QED
    BY <1>4, <1>5 DEF Injection, IsInjective
<1>7. place \in Surjection(S, 1..c)
  <2>1. IsFiniteSet(1..c) /\ Cardinality(1..c) = c
    BY <1>1, FS_Interval
  <2> HIDE DEF place, c
  <2> QED
    BY <1>6, <2>1, FS_Injection DEF c
<1>8. ASSUME NEW k \in 1..c PROVE \E r \in S : place[r] = k
  BY <1>7 DEF Surjection
<1>9. Discovery!Best(S, n) = [k \in 1..m |-> CHOOSE r \in S : place[r] = k]
  <2> DEFINE spot(r) == Discovery!Cardinality({x \in S : Discovery!Precedes(x, r)}) + 1
  <2>1. Discovery!Best(S, n) =
          [k \in 1..Discovery!Least(n, Discovery!Cardinality(S)) |->
             CHOOSE r \in S : spot(r) = k]
    BY DEF Discovery!Best
  <2>2. Discovery!Least(n, Discovery!Cardinality(S)) = m
    BY DiscoveryCounts DEF Discovery!Least
  <2>3. ASSUME NEW r \in S PROVE spot(r) = place[r]
    <3>1. Discovery!Cardinality(Before(r)) = Cardinality(Before(r))
      BY DiscoveryCounts
    <3>2. spot(r) = Discovery!Cardinality(Before(r)) + 1
      OBVIOUS
    <3>3. place[r] = Cardinality(Before(r)) + 1
      OBVIOUS
    <3> HIDE DEF Before, place, spot
    <3> QED
      BY <3>1, <3>2, <3>3
  <2> HIDE DEF place, spot
  <2>4. \A k : (CHOOSE r \in S : spot(r) = k) = (CHOOSE r \in S : place[r] = k)
    <3>1. ASSUME NEW k
          PROVE  (CHOOSE r : r \in S /\ spot(r) = k) = (CHOOSE r : r \in S /\ place[r] = k)
      <4>1. \A r : (r \in S /\ spot(r) = k) = (r \in S /\ place[r] = k)
        BY <2>3
      <4> QED
        BY <4>1
    <3> QED
      BY <3>1
  <2> HIDE DEF m
  <2>5. \A D : [k \in D |-> CHOOSE r \in S : spot(r) = k]
              = [k \in D |-> CHOOSE r \in S : place[r] = k]
    <3> DEFINE spotted(k) == CHOOSE r \in S : spot(r) = k
               placed(k) == CHOOSE r \in S : place[r] = k
    <3>1. \A k : spotted(k) = placed(k)
      BY <2>4
    <3> HIDE DEF spotted, placed
    <3>2. ASSUME NEW D PROVE [k \in D |-> spotted(k)] = [k \in D |-> placed(k)]
      BY <3>1
    <3> QED
      BY <3>2 DEF spotted, placed
  <2>6. Discovery!Best(S, n) = [k \in 1..m |-> CHOOSE r \in S : spot(r) = k]
    BY <2>1, <2>2
  <2> QED
    BY <2>5, <2>6
<1>10. m \in Nat /\ m <= n /\ m <= c
  BY <1>1
<1> DEFINE best == [k \in 1..m |-> CHOOSE r \in S : place[r] = k]
<1> HIDE DEF place, c, m
<1>11. Len(best) = m
  BY <1>10
<1>12. ASSUME NEW k \in 1..m PROVE best[k] \in S /\ place[best[k]] = k
  <2>1. \E r \in S : place[r] = k
    BY <1>1, <1>8, <1>10
  <2>2. best[k] = CHOOSE r \in S : place[r] = k
    OBVIOUS
  <2> QED
    BY <2>1, <2>2, Zenon
<1> HIDE DEF best
<1>13. ASSUME NEW r \in S, ~\E k \in 1..m : best[k] = r
       PROVE  m = n /\ \A k \in 1..m : Discovery!Precedes(best[k], r)
  <2>1. place[r] \in 1..c
    BY <1>4
  <2>2. place[r] \notin 1..m
    BY <1>5, <1>12, <1>13
  <2>3. place[r] > m /\ m # c
    BY <1>1, <1>10, <2>1, <2>2
  <2>4. ASSUME NEW k \in 1..m PROVE Discovery!Precedes(best[k], r)
    <3>1. best[k] \in S /\ place[best[k]] = k /\ place[best[k]] < place[r]
      BY <1>10, <1>12, <2>1, <2>3
    <3>2. best[k] # r
      BY <3>1, <2>1
    <3>3. Discovery!Precedes(best[k], r) \/ Discovery!Precedes(r, best[k])
      BY <3>1, <3>2, Ordered
    <3>4. Discovery!Precedes(r, best[k]) => place[r] < place[best[k]]
      BY <1>3, <3>1
    <3> QED
      BY <1>1, <2>1, <3>1, <3>3, <3>4
  <2> QED
    BY <2>3, <2>4 DEF m
<1> QED
  BY <1>9, <1>10, <1>11, <1>12, <1>13 DEF best

\* What a choice of the card asks for
LEMMA FilterOf ==
  ASSUME Discovery!MatchDiscoveryAssumption, NEW c \in CardChoices
  PROVE  LET f == Discovery!createMatchFilter(c) IN
         /\ f.eligibleOnly = c.eligibleOnly /\ f.minimumScore = c.minimumScore
         /\ f.maximumResults = c.maximumResults /\ f.maximumResults \in Nat
         /\ f.requireIdentityVerification = c.verifiedOnly /\ f.maximumTimingGapDays = 14
<1>1. c.maximumResults \in Nat
  BY DEF Discovery!MatchDiscoveryAssumption
<1> QED
  BY <1>1 DEF Discovery!createMatchFilter, Discovery!defaultMatchFilter

\* The evidence of a query
LEMMA EvidenceOf ==
  ASSUME Discovery!MatchDiscoveryAssumption, NEW q \in Discovery!Query,
         NEW t \in DOMAIN Journeys
  PROVE  LET e == q.evidence[Journeys[t].owner] IN
         e.trust \in Int /\ e.completed \in Int /\ e.identity = Discovery!Hidden
<1>1. Journeys[t].owner \in Discovery!Travelers
  BY DEF Discovery!Travelers
<1>2. q.evidence[Journeys[t].owner] \in EvidenceSet \cup {Discovery!NoEvidence}
  BY <1>1 DEF Discovery!Query
<1> QED
  BY <1>2 DEF Discovery!MatchDiscoveryAssumption, Discovery!NoEvidence, Discovery!Unknown

LEMMA ResultsRank ==
  ASSUME Discovery!MatchDiscoveryAssumption, NEW q \in Discovery!Query,
         NEW s \in DOMAIN Shipments, NEW t \in DOMAIN Journeys
  PROVE  LET r == Discovery!Result(q, s, t) IN
         Rankable(r) /\ r.shipment = s /\ r.trip = t
<1> DEFINE a == Shipments[s]
           b == Journeys[t]
           e == q.evidence[b.owner]
           f == q.filter
<1>1. /\ a.window.start \in Int /\ a.window.end \in Int
      /\ b.departure \in Int /\ b.arrival \in Int
  BY DEF Discovery!MatchDiscoveryAssumption
<1>2. e.trust \in Int /\ e.completed \in Int
  BY EvidenceOf
<1>3. f.maximumTimingGapDays = 14
  BY FilterOf DEF Discovery!Query
<1> HIDE DEF a, b, e, f
<1>4. Discovery!RoutePoints(a, b) \in Int
  <2> DEFINE of(k, p) == IF k \in Discovery!Differing(a, b) THEN 0 ELSE p
  <2>1. Discovery!RoutePoints(a, b) = of("originCountry", 5) + of("originCity", 8)
               + of("destinationCountry", 5) + of("destinationCity", 7)
    BY DEF Discovery!RoutePoints
  <2> QED
    BY <2>1
<1>5. Discovery!TimingPoints(a, b, f) \in Int
  <2>1. Discovery!GapDays(a, b) \in Int
    BY <1>1 DEF Discovery!GapDays, Discovery!Greatest
  <2>2. Discovery!GapPoints(Discovery!GapDays(a, b), 14) \in Int
    <3>1. \A g \in Int : (g * 8) \div 14 \in Int
      OBVIOUS
    <3> QED
      BY <2>1, <3>1 DEF Discovery!GapPoints, Discovery!Greatest
  <2> QED
    BY <1>3, <2>2 DEF Discovery!TimingPoints
<1>6. Discovery!TrustPoints(e) \in Int
  <2>1. Discovery!Clamp(e.trust, 0, Discovery!FullTrust) \in Int
    BY <1>2 DEF Discovery!Clamp, Discovery!Greatest, Discovery!Least, Discovery!FullTrust
  <2>2. \A x \in Int : Discovery!Rounded(15 * x, Discovery!FullTrust) \in Int
    BY DEF Discovery!Rounded, Discovery!FullTrust
  <2> QED
    BY <2>1, <2>2 DEF Discovery!TrustPoints
<1>7. /\ Discovery!CapacityPoints(a, b) \in Int /\ Discovery!PackagePoints(a, f) \in Int
      /\ Discovery!IdentityPoints(e) \in Int /\ Discovery!HistoryPoints(e) \in Int
  BY DEF Discovery!CapacityPoints, Discovery!PackagePoints, Discovery!IdentityPoints,
         Discovery!HistoryPoints
<1>8. LET m == Discovery!scoreMatch(a, b, e, f) IN
      /\ m.factors.route = Discovery!RoutePoints(a, b)
      /\ m.total = Discovery!RoutePoints(a, b) + Discovery!TimingPoints(a, b, f)
           + Discovery!CapacityPoints(a, b) + Discovery!PackagePoints(a, f)
           + Discovery!TrustPoints(e) + Discovery!IdentityPoints(e) + Discovery!HistoryPoints(e)
  BY DEF Discovery!scoreMatch, Discovery!Factors
<1>9. LET m == Discovery!scoreMatch(a, b, e, f) IN m.total \in Int /\ m.factors.route \in Int
  BY <1>4, <1>5, <1>6, <1>7, <1>8
<1>10. LET r == Discovery!Result(q, s, t)
           m == Discovery!scoreMatch(a, b, e, f) IN
       /\ r.total = m.total /\ r.route = m.factors.route /\ r.shipment = s /\ r.trip = t
  BY DEF Discovery!Result, a, b, e, f
<1> QED
  BY <1>9, <1>10 DEF Rankable

\* What is eligible for a viewer who asks for verified travelers: nothing, as
\* nobody else's verification is shown.
LEMMA NobodyIsVerified ==
  ASSUME Discovery!MatchDiscoveryAssumption, NEW q \in Discovery!Query,
         NEW s, NEW t \in DOMAIN Journeys, q.filter.requireIdentityVerification
  PROVE  ~Discovery!Result(q, s, t).eligible
<1> DEFINE e == q.evidence[Journeys[t].owner]
<1>1. e.identity = Discovery!Hidden
  BY EvidenceOf
<1>2. Discovery!Result(q, s, t).eligible
        = ~Discovery!Blocked(Shipments[s], Journeys[t], e, q.filter)
  BY DEF Discovery!Result, Discovery!scoreMatch
<1> HIDE DEF e
<1>3. Discovery!IdentityBlocks(e, q.filter)
  BY <1>1 DEF Discovery!IdentityBlocks, Discovery!Hidden
<1> QED
  BY <1>2, <1>3 DEF Discovery!Blocked

\* What is found for a query: of each of its shipments what passes the filter
\* and comes first.
LEMMA FoundIsBest ==
  ASSUME Discovery!MatchDiscoveryAssumption, NEW q \in Discovery!Query
  PROVE  LET found == Discovery!findMatchesForShipments(q)
             most == q.filter.maximumResults IN
         /\ DOMAIN found = q.shipments
         /\ \A s \in q.shipments :
              /\ Len(found[s]) \in Nat /\ Len(found[s]) <= most
              /\ \A k \in 1..Len(found[s]) : found[s][k] \in Discovery!Passing(q)
         /\ \A r \in Discovery!Passing(q) :
              /\ r.shipment \in q.shipments
              /\ \/ \E k \in 1..Len(found[r.shipment]) : found[r.shipment][k] = r
                 \/ /\ Len(found[r.shipment]) = most
                    /\ \A k \in 1..Len(found[r.shipment]) :
                         Discovery!Precedes(found[r.shipment][k], r)
<1> DEFINE found == Discovery!findMatchesForShipments(q)
           most == q.filter.maximumResults
           Of(s) == {r \in Discovery!Passing(q) : r.shipment = s}
<1>1. /\ q.shipments \subseteq DOMAIN Shipments /\ q.trips \subseteq DOMAIN Journeys
      /\ most \in Nat
  BY FilterOf DEF Discovery!Query
<1>2. ASSUME NEW r \in Discovery!Passing(q)
      PROVE  \E s \in q.shipments, t \in q.trips : r = Discovery!Result(q, s, t)
  BY DEF Discovery!Passing
<1>3. ASSUME NEW r \in Discovery!Passing(q)
      PROVE  /\ Rankable(r) /\ r.shipment \in q.shipments /\ r.trip \in q.trips
             /\ r = Discovery!Result(q, r.shipment, r.trip)
  <2>1. PICK s \in q.shipments, t \in q.trips : r = Discovery!Result(q, s, t)
    BY <1>2
  <2> QED
    BY <1>1, <2>1, ResultsRank
<1>4. ASSUME NEW s \in q.shipments
      PROVE  /\ IsFiniteSet(Of(s)) /\ \A r \in Of(s) : Rankable(r)
             /\ \A x, y \in Of(s) : x.trip = y.trip => x = y
  <2> DEFINE all == [t \in q.trips |-> Discovery!Result(q, s, t)]
  <2>1. IsFiniteSet(q.trips)
    <3>1. IsFiniteSet(DOMAIN Journeys)
      BY DiscoveryCounts DEF Discovery!MatchDiscoveryAssumption
    <3> QED
      BY <1>1, <3>1, FS_Subset
  <2>2. all \in Surjection(q.trips, {all[t] : t \in q.trips})
    BY DEF Surjection
  <2>3. IsFiniteSet({all[t] : t \in q.trips})
    <3> HIDE DEF all
    <3> QED
      BY <2>1, <2>2, FS_Surjection
  <2>4. Of(s) \subseteq {all[t] : t \in q.trips}
    <3>1. ASSUME NEW r \in Of(s) PROVE r.trip \in q.trips /\ r = all[r.trip]
      BY <1>3
    <3> HIDE DEF all, Of
    <3> QED
      BY <3>1
  <2>5. IsFiniteSet(Of(s))
    <3> HIDE DEF all, Of
    <3> QED
      BY <2>3, <2>4, FS_Subset
  <2>6. ASSUME NEW x \in Of(s), NEW y \in Of(s), x.trip = y.trip PROVE x = y
    <3>1. /\ x = Discovery!Result(q, s, x.trip) /\ y = Discovery!Result(q, s, y.trip)
      BY <1>3
    <3> QED
      BY <2>6, <3>1
  <2> QED
    BY <1>3, <2>5, <2>6
<1>5. /\ DOMAIN found = q.shipments
      /\ \A s \in q.shipments : found[s] = Discovery!Best(Of(s), most)
  BY DEF Discovery!findMatchesForShipments
<1>6. ASSUME NEW r \in Discovery!Passing(q) PROVE r \in Of(r.shipment)
  OBVIOUS
<1>7. \A s : Of(s) \subseteq Discovery!Passing(q)
  OBVIOUS
<1> HIDE DEF found, most, Of
<1>8. ASSUME NEW s \in q.shipments
      PROVE  /\ Len(found[s]) \in Nat /\ Len(found[s]) <= most
             /\ \A k \in 1..Len(found[s]) : found[s][k] \in Of(s)
             /\ \A r \in Of(s) : \/ \E k \in 1..Len(found[s]) : found[s][k] = r
                                 \/ /\ Len(found[s]) = most
                                    /\ \A k \in 1..Len(found[s]) :
                                         Discovery!Precedes(found[s][k], r)
  <2>1. found[s] = Discovery!Best(Of(s), most)
    BY <1>5
  <2>2. /\ IsFiniteSet(Of(s)) /\ \A r \in Of(s) : Rankable(r)
        /\ \A x, y \in Of(s) : x.trip = y.trip => x = y
    BY <1>4
  <2> DEFINE best == Discovery!Best(Of(s), most)
  <2>3. /\ Len(best) \in Nat /\ Len(best) <= most
        /\ \A k \in 1..Len(best) : best[k] \in Of(s)
        /\ \A r \in Of(s) : \/ \E k \in 1..Len(best) : best[k] = r
                            \/ /\ Len(best) = most
                               /\ \A k \in 1..Len(best) : Discovery!Precedes(best[k], r)
    BY <1>1, <2>2, BestAreFirst
  <2> HIDE DEF best
  <2> QED
    BY <2>1, <2>3 DEF best
<1> QED
  BY <1>3, <1>5, <1>6, <1>7, <1>8 DEF found, most

\* What the screen shows is the answer to its active query, which was asked
\* with the filters displayed, for the shipments on the screen.
DiscoveryInv ==
  /\ Discovery!TypeOK /\ Discovery!LoadingTellsQuery
  /\ queries \in Seq(Discovery!Query)
  /\ listLoading => current = 0
  /\ current # 0 =>
       /\ queries[current].filter = Discovery!createMatchFilter(filters)
       /\ queries[current].shipments = owned
       /\ queries[current].step = "done" =>
            failed \/ matches = Discovery!findMatchesForShipments(queries[current])

LEMMA DiscoveryStart ==
  ASSUME Discovery!MatchDiscoveryAssumption, Discovery!Init
  PROVE  DiscoveryInv
<1>1. /\ queries = <<>> /\ current = 0 /\ matches = <<>>
      /\ listLoading = TRUE /\ loading = FALSE /\ failed = FALSE
      /\ Len(queries) = 0 /\ DOMAIN matches = {}
  BY DEF Discovery!Init
<1>2. evidence \in [Discovery!Travelers -> EvidenceSet]
  BY DEF Discovery!Init
<1>3. connection \in DOMAIN Discovery!Freshness
  BY DEF Discovery!Init, Discovery!Freshness
<1>4. MaxQueries \in Nat /\ DefaultChoice \in CardChoices
  BY DEF Discovery!MatchDiscoveryAssumption
<1>5. /\ listed \subseteq DOMAIN Journeys /\ known \subseteq DOMAIN Journeys
      /\ owned \subseteq DOMAIN Shipments /\ filters \in CardChoices
  BY <1>4 DEF Discovery!Init
<1>6. current \in 0..Len(queries) /\ Len(queries) <= MaxQueries /\ 1..Len(queries) = {}
  BY <1>1, <1>4
<1>7. Discovery!TypeOK
  BY <1>1, <1>2, <1>3, <1>5, <1>6 DEF Discovery!TypeOK
<1> QED
  BY <1>1, <1>7 DEF DiscoveryInv, Discovery!LoadingTellsQuery

\* The state and its query, where a step begins
LEMMA DiscoveryState ==
  ASSUME DiscoveryInv
  PROVE  /\ listed \subseteq DOMAIN Journeys /\ known \subseteq DOMAIN Journeys
         /\ connection \in DOMAIN Discovery!Freshness
         /\ evidence \in [Discovery!Travelers -> EvidenceSet]
         /\ owned \subseteq DOMAIN Shipments /\ filters \in CardChoices
         /\ listLoading \in BOOLEAN /\ loading \in BOOLEAN /\ failed \in BOOLEAN
         /\ queries \in Seq(Discovery!Query) /\ Len(queries) \in Nat
         /\ Len(queries) <= MaxQueries
         /\ current \in 0..Len(queries) /\ \A n \in 1..Len(queries) : queries[n] \in Discovery!Query
         /\ DOMAIN matches \subseteq DOMAIN Shipments /\ ~(loading /\ failed)
BY DEF DiscoveryInv, Discovery!TypeOK

\* The effect of the screen leaves a state in order, whatever was there.
LEMMA EffectKeeps ==
  ASSUME Discovery!MatchDiscoveryAssumption, DiscoveryInv,
         NEW S \in SUBSET DOMAIN Shipments, NEW c \in CardChoices,
         Discovery!Effect(S, c), owned' = S, filters' = c, ~listLoading',
         UNCHANGED Discovery!world, listLoading' \in BOOLEAN
  PROVE  DiscoveryInv'
<1>1. /\ queries \in Seq(Discovery!Query) /\ Len(queries) \in Nat /\ Len(queries) <= MaxQueries
      /\ DOMAIN matches \subseteq DOMAIN Shipments
      /\ connection \in DOMAIN Discovery!Freshness /\ MaxQueries \in Nat
  BY DiscoveryState DEF Discovery!MatchDiscoveryAssumption
<1>2. /\ listed' \subseteq DOMAIN Journeys /\ known' \subseteq DOMAIN Journeys
      /\ connection' \in DOMAIN Discovery!Freshness
      /\ evidence' \in [Discovery!Travelers -> EvidenceSet]
      /\ owned' \subseteq DOMAIN Shipments /\ filters' \in CardChoices
      /\ listLoading' \in BOOLEAN
  BY DiscoveryState DEF Discovery!world
<1>3. CASE S = {}
  <2>1. /\ current' = 0 /\ DOMAIN matches' = {} /\ loading' = FALSE /\ failed' = FALSE
        /\ queries' = queries
    BY <1>3 DEF Discovery!Effect
  <2>2. /\ queries' \in Seq(Discovery!Query) /\ current' \in 0..Len(queries')
        /\ Len(queries') <= MaxQueries
        /\ \A n \in 1..Len(queries') : queries'[n] \in Discovery!Query
    BY <1>1, <2>1
  <2>3. Discovery!TypeOK'
    BY <1>2, <2>1, <2>2 DEF Discovery!TypeOK
  <2> QED
    BY <2>1, <2>2, <2>3 DEF DiscoveryInv, Discovery!LoadingTellsQuery
<1>4. CASE S # {}
  <2> DEFINE q == [shipments |-> S, filter |-> Discovery!createMatchFilter(c),
                   label |-> Discovery!Freshness[connection], step |-> "listings",
                   trips |-> {}, cached |-> FALSE,
                   evidence |-> [u \in Discovery!Travelers |-> Discovery!NoEvidence]]
  <2>1. /\ Len(queries) < MaxQueries /\ queries' = Append(queries, q)
        /\ current' = Len(queries) + 1 /\ loading' = TRUE /\ failed' = FALSE
        /\ matches' = matches
    BY <1>4 DEF Discovery!Effect, Discovery!Ask
  <2>2. q \in Discovery!Query
    <3>1. Discovery!Freshness[connection] \in {"live", "cached", "unknown"}
      BY <1>1 DEF Discovery!Freshness
    <3> QED
      BY <3>1 DEF Discovery!Query
  <2>3. q.shipments = S /\ q.filter = Discovery!createMatchFilter(c) /\ q.step = "listings"
    OBVIOUS
  <2> HIDE DEF q
  <2>4. /\ queries' \in Seq(Discovery!Query) /\ Len(queries') = Len(queries) + 1
        /\ queries'[current'] = q
        /\ \A n \in 1..Len(queries') : queries'[n] \in Discovery!Query
    BY <1>1, <2>1, <2>2
  <2>5. current' \in 0..Len(queries') /\ current' # 0 /\ Len(queries') <= MaxQueries
    BY <1>1, <2>1, <2>4
  <2>6. Discovery!TypeOK'
    BY <1>1, <1>2, <2>1, <2>4, <2>5 DEF Discovery!TypeOK
  <2> QED
    BY <2>1, <2>3, <2>4, <2>5, <2>6 DEF DiscoveryInv, Discovery!LoadingTellsQuery
<1> QED
  BY <1>3, <1>4

\* A step that does not touch the active query
LEMMA ElsewhereKeeps ==
  ASSUME DiscoveryInv, Discovery!TypeOK', queries' \in Seq(Discovery!Query),
         UNCHANGED <<owned, listLoading, filters, current, matches, loading, failed>>,
         current # 0 => queries'[current] = queries[current]
  PROVE  DiscoveryInv'
BY DEF DiscoveryInv, Discovery!LoadingTellsQuery

\* An answer, or a step towards one, of the n-th query
LEMMA AnswerStands ==
  ASSUME Discovery!MatchDiscoveryAssumption, DiscoveryInv,
         NEW n \in 1..Len(queries), Discovery!Answers(n)
  PROVE  DiscoveryInv'
<1>1. /\ queries \in Seq(Discovery!Query) /\ Len(queries) \in Nat /\ current \in Nat
      /\ current <= Len(queries) /\ queries[n] \in Discovery!Query
  BY DiscoveryState
<1>2. ASSUME NEW q \in Discovery!Query, queries' = [queries EXCEPT ![n] = q]
      PROVE  /\ queries' \in Seq(Discovery!Query) /\ Len(queries') = Len(queries)
             /\ queries'[n] = q /\ \A k \in 1..Len(queries) : k # n => queries'[k] = queries[k]
             /\ \A k \in 1..Len(queries) : queries'[k] \in Discovery!Query
  BY <1>1, <1>2
<1>4. CASE Discovery!ReadListings(n)
  <2> DEFINE cached == connection = "offline"
             read == IF cached THEN known ELSE listed
             q == [queries[n] EXCEPT !.step = "evidence", !.trips = read, !.cached = cached]
  <2>1. /\ queries[n].step = "listings"
        /\ queries' = [queries EXCEPT ![n].step = "evidence", ![n].trips = read,
                                      ![n].cached = cached]
        /\ known' = read
        /\ UNCHANGED <<listed, connection, evidence, owned, listLoading, filters, current,
                       matches, loading, failed, changes>>
    BY <1>4 DEF Discovery!ReadListings
  <2>2. read \in SUBSET DOMAIN Journeys
    BY DiscoveryState
  <2>3. queries' = [queries EXCEPT ![n] = q]
    BY <1>1, <2>1
  <2>4. q \in Discovery!Query
    BY <1>1, <2>2 DEF Discovery!Query
  <2>5. /\ q.filter = queries[n].filter /\ q.shipments = queries[n].shipments
        /\ q.step # "done" /\ queries[n].step # "done"
    BY <1>1, <2>1 DEF Discovery!Query
  <2> HIDE DEF q, read
  <2>6. Discovery!TypeOK'
    BY <1>1, <1>2, <2>1, <2>2, <2>3, <2>4, DiscoveryState DEF Discovery!TypeOK
  <2>7. CASE n = current
    BY <1>1, <1>2, <2>1, <2>3, <2>4, <2>5, <2>6, <2>7, DiscoveryState
       DEF DiscoveryInv, Discovery!LoadingTellsQuery
  <2>8. CASE n # current
    <3>1. /\ queries' \in Seq(Discovery!Query)
          /\ current # 0 => queries'[current] = queries[current]
      BY <1>1, <1>2, <2>3, <2>4, <2>8
    <3> QED
      BY <2>1, <2>6, <3>1, ElsewhereKeeps
  <2> QED
    BY <2>7, <2>8
<1>5. CASE Discovery!Fail(n)
  <2> DEFINE q == [queries[n] EXCEPT !.step = "done"]
  <2>1. /\ queries[n].step = "listings"
        /\ queries' = [queries EXCEPT ![n].step = "done"]
        /\ IF n = current THEN failed' = TRUE /\ loading' = FALSE
           ELSE UNCHANGED <<failed, loading>>
        /\ UNCHANGED <<listed, known, connection, evidence, owned, listLoading, filters, current,
                       matches, changes>>
    BY <1>5 DEF Discovery!Fail, Discovery!world
  <2>3. queries' = [queries EXCEPT ![n] = q]
    BY <1>1, <2>1
  <2>4. q \in Discovery!Query
    BY <1>1 DEF Discovery!Query
  <2>5. /\ q.filter = queries[n].filter /\ q.shipments = queries[n].shipments
        /\ q.step = "done"
    BY <1>1 DEF Discovery!Query
  <2> HIDE DEF q
  <2>6. Discovery!TypeOK'
    BY <1>1, <1>2, <2>1, <2>3, <2>4, DiscoveryState DEF Discovery!TypeOK
  <2>7. CASE n = current
    BY <1>1, <1>2, <2>1, <2>3, <2>4, <2>5, <2>6, <2>7, DiscoveryState
       DEF DiscoveryInv, Discovery!LoadingTellsQuery
  <2>8. CASE n # current
    <3>1. /\ queries' \in Seq(Discovery!Query)
          /\ current # 0 => queries'[current] = queries[current]
      BY <1>1, <1>2, <2>3, <2>4, <2>8
    <3> QED
      BY <2>1, <2>6, <2>8, <3>1, ElsewhereKeeps
  <2> QED
    BY <2>7, <2>8
<1>6. ASSUME NEW hidden \in SUBSET Discovery!Travelers, Discovery!Settle(n, hidden)
      PROVE  DiscoveryInv'
  <2> DEFINE seen == [u \in Discovery!Travelers |->
                        IF u \in hidden THEN Discovery!NoEvidence ELSE evidence[u]]
             q == [queries[n] EXCEPT !.step = "done", !.evidence = seen]
  <2>1. /\ queries[n].step = "evidence"
        /\ queries' = [queries EXCEPT ![n].step = "done", ![n].evidence = seen]
        /\ IF n = current
           THEN /\ matches' = Discovery!findMatchesForShipments(queries'[n])
                /\ loading' = FALSE
           ELSE UNCHANGED <<matches, loading>>
        /\ UNCHANGED <<listed, known, connection, evidence, owned, listLoading, filters, current,
                       failed, changes>>
    BY <1>6 DEF Discovery!Settle, Discovery!world
  <2>2. seen \in [Discovery!Travelers -> EvidenceSet \cup {Discovery!NoEvidence}]
    BY DiscoveryState
  <2>3. queries' = [queries EXCEPT ![n] = q]
    BY <1>1, <2>1
  <2>4. q \in Discovery!Query
    BY <1>1, <2>2 DEF Discovery!Query
  <2>5. /\ q.filter = queries[n].filter /\ q.shipments = queries[n].shipments
        /\ q.step = "done" /\ q.shipments \subseteq DOMAIN Shipments
    BY <1>1 DEF Discovery!Query
  <2> HIDE DEF q, seen
  <2>6. n = current => DOMAIN matches' = q.shipments
    BY <1>2, <2>1, <2>3, <2>4, FoundIsBest
  <2>7. Discovery!TypeOK'
    <3>1. DOMAIN matches' \subseteq DOMAIN Shipments
      BY <2>1, <2>5, <2>6, DiscoveryState
    <3> QED
      BY <1>1, <1>2, <2>1, <2>3, <2>4, <3>1, DiscoveryState DEF Discovery!TypeOK
  <2>8. CASE n = current
    BY <1>1, <1>2, <2>1, <2>3, <2>4, <2>5, <2>7, <2>8, DiscoveryState
       DEF DiscoveryInv, Discovery!LoadingTellsQuery
  <2>9. CASE n # current
    <3>1. /\ queries' \in Seq(Discovery!Query)
          /\ current # 0 => queries'[current] = queries[current]
      BY <1>1, <1>2, <2>3, <2>4, <2>9
    <3> QED
      BY <2>1, <2>7, <2>9, <3>1, ElsewhereKeeps
  <2> QED
    BY <2>8, <2>9
<1> QED
  BY <1>4, <1>5, <1>6 DEF Discovery!Answers

LEMMA DiscoveryStep ==
  ASSUME Discovery!MatchDiscoveryAssumption, DiscoveryInv, [Discovery!Next]_Discovery!vars
  PROVE  DiscoveryInv'
<1>0. /\ listed \subseteq DOMAIN Journeys /\ known \subseteq DOMAIN Journeys
      /\ connection \in DOMAIN Discovery!Freshness
      /\ evidence \in [Discovery!Travelers -> EvidenceSet]
      /\ owned \subseteq DOMAIN Shipments /\ filters \in CardChoices
      /\ queries \in Seq(Discovery!Query)
  BY DiscoveryState
<1>1. ASSUME NEW S \in SUBSET DOMAIN Shipments, Discovery!Deliver(S) PROVE DiscoveryInv'
  BY <1>0, <1>1, EffectKeeps DEF Discovery!Deliver
<1>2. CASE Discovery!WatchFails
  BY <1>0, <1>2, EffectKeeps DEF Discovery!WatchFails
<1>3. CASE Discovery!Retry
  <2>1. /\ Discovery!Effect(owned, filters) /\ listLoading' = FALSE
        /\ UNCHANGED <<Discovery!world, owned, filters>>
    BY <1>3, DiscoveryState DEF Discovery!Retry
  <2> QED
    BY <1>0, <2>1, EffectKeeps
<1>4. CASE Discovery!RetryList
  <2>1. /\ listLoading' = TRUE /\ current' = 0
        /\ UNCHANGED <<listed, known, connection, evidence, owned, filters, queries, matches,
                       loading, failed>>
    BY <1>4 DEF Discovery!RetryList, Discovery!world
  <2> QED
    BY <2>1, DiscoveryState DEF DiscoveryInv, Discovery!TypeOK, Discovery!LoadingTellsQuery
<1>5. ASSUME NEW c \in CardChoices, Discovery!Apply(c) PROVE DiscoveryInv'
  <2>1. CASE listLoading
    <3>1. /\ current' = 0 /\ filters' = c
          /\ UNCHANGED <<listed, known, connection, evidence, owned, listLoading, queries,
                         matches, loading, failed>>
      BY <1>5, <2>1 DEF Discovery!Apply, Discovery!world
    <3> QED
      BY <2>1, <3>1, DiscoveryState DEF DiscoveryInv, Discovery!TypeOK, Discovery!LoadingTellsQuery
  <2>2. CASE ~listLoading
    <3>1. /\ Discovery!Effect(owned, c) /\ filters' = c /\ listLoading' = FALSE
          /\ UNCHANGED <<Discovery!world, owned>>
      BY <1>5, <2>2, DiscoveryState DEF Discovery!Apply
    <3> QED
      BY <1>0, <3>1, EffectKeeps
  <2> QED
    BY <2>1, <2>2
<1>6. ASSUME NEW n \in 1..Len(queries), Discovery!Answers(n) PROVE DiscoveryInv'
  BY <1>6, AnswerStands
<1>7. CASE Discovery!World
  <2>1. /\ UNCHANGED <<known, owned, listLoading, filters, queries, current, matches, loading,
                       failed>>
        /\ \/ \E t \in DOMAIN Journeys :
                 /\ listed' = IF t \in listed THEN listed \ {t} ELSE listed \cup {t}
                 /\ UNCHANGED <<connection, evidence>>
           \/ \E c \in DOMAIN Discovery!Freshness \ {connection} :
                 connection' = c /\ UNCHANGED <<listed, evidence>>
           \/ \E u \in Discovery!Travelers, e \in EvidenceSet :
                 /\ evidence' = [evidence EXCEPT ![u] = e]
                 /\ UNCHANGED <<listed, connection>>
    BY <1>7 DEF Discovery!World
  <2>2. /\ listed' \subseteq DOMAIN Journeys /\ connection' \in DOMAIN Discovery!Freshness
        /\ evidence' \in [Discovery!Travelers -> EvidenceSet]
    BY <1>0, <2>1
  <2>3. Discovery!TypeOK'
    BY <2>1, <2>2, DiscoveryState DEF Discovery!TypeOK
  <2> QED
    BY <1>0, <2>1, <2>3, ElsewhereKeeps
<1>8. CASE UNCHANGED Discovery!vars
  <2>1. Discovery!TypeOK'
    BY <1>8, DiscoveryState DEF Discovery!TypeOK, Discovery!vars, Discovery!world
  <2> QED
    BY <1>0, <1>8, <2>1, ElsewhereKeeps DEF Discovery!vars
<1> QED
  BY <1>1, <1>2, <1>3, <1>4, <1>5, <1>6, <1>7, <1>8 DEF Discovery!Next

LEMMA ShownIsBest ==
  ASSUME Discovery!MatchDiscoveryAssumption, DiscoveryInv
  PROVE  Discovery!ShownIsAsFiltered /\ Discovery!CapKeepsTheBest
<1> SUFFICES ASSUME Discovery!Settled
             PROVE  Discovery!ShownIsAsFiltered /\ Discovery!CapKeepsTheBest
  BY DEF Discovery!ShownIsAsFiltered, Discovery!CapKeepsTheBest
<1> DEFINE q == queries[current]
           f == q.filter
<1>1. /\ current # 0 /\ ~loading /\ ~failed /\ ~listLoading
      /\ q \in Discovery!Query /\ filters \in CardChoices
  BY DiscoveryState DEF Discovery!Settled, DiscoveryInv
<1>2. q.step = "done"
  BY <1>1 DEF DiscoveryInv, Discovery!LoadingTellsQuery
<1>3. /\ matches = Discovery!findMatchesForShipments(q)
      /\ f = Discovery!createMatchFilter(filters) /\ q.shipments = owned
  BY <1>1, <1>2 DEF DiscoveryInv
<1>4. /\ f.eligibleOnly = filters.eligibleOnly /\ f.minimumScore = filters.minimumScore
      /\ f.maximumResults = filters.maximumResults
      /\ f.requireIdentityVerification = filters.verifiedOnly
  BY <1>1, <1>3, FilterOf
<1> HIDE DEF q
<1>5. /\ DOMAIN matches = owned
      /\ \A s \in owned :
           /\ Len(matches[s]) \in Nat /\ Len(matches[s]) <= filters.maximumResults
           /\ \A k \in 1..Len(matches[s]) : matches[s][k] \in Discovery!Passing(q)
      /\ \A r \in Discovery!Passing(q) :
           /\ r.shipment \in owned
           /\ \/ \E k \in 1..Len(matches[r.shipment]) : matches[r.shipment][k] = r
              \/ /\ Len(matches[r.shipment]) = filters.maximumResults
                 /\ \A k \in 1..Len(matches[r.shipment]) :
                      Discovery!Precedes(matches[r.shipment][k], r)
  BY <1>1, <1>3, <1>4, FoundIsBest
<1>6. ASSUME NEW r \in Discovery!Passing(q)
      PROVE  /\ filters.eligibleOnly => r.eligible
             /\ r.total >= filters.minimumScore
             /\ filters.verifiedOnly /\ filters.eligibleOnly => FALSE
  <2>1. /\ f.eligibleOnly => r.eligible
        /\ r.total >= f.minimumScore
        /\ \E s \in q.shipments, t \in q.trips : r = Discovery!Result(q, s, t)
    BY DEF Discovery!Passing
  <2>2. q.trips \subseteq DOMAIN Journeys
    BY <1>1 DEF Discovery!Query
  <2>3. f.requireIdentityVerification => ~r.eligible
    BY <1>1, <2>1, <2>2, NobodyIsVerified
  <2> QED
    BY <1>4, <2>1, <2>3
<1>7. Discovery!ShownIsAsFiltered
  BY <1>5, <1>6 DEF Discovery!ShownIsAsFiltered
<1>8. Discovery!CapKeepsTheBest
  BY <1>5 DEF Discovery!CapKeepsTheBest, q
<1> QED
  BY <1>7, <1>8

\* The recommendations on the screen are the answer to what it asked last: as
\* filtered, and of each shipment the first ones (findMatchesForShipments).
THEOREM RecommendationsAnswer ==
  ASSUME Discovery!MatchDiscoveryAssumption
  PROVE  Discovery!Spec => [](/\ Discovery!TypeOK /\ Discovery!LoadingTellsQuery
                              /\ Discovery!ShownIsAsFiltered /\ Discovery!CapKeepsTheBest)
<1>1. Discovery!Init => DiscoveryInv
  BY DiscoveryStart
<1>2. DiscoveryInv /\ [Discovery!Next]_Discovery!vars => DiscoveryInv'
  BY DiscoveryStep
<1>3. DiscoveryInv => /\ Discovery!TypeOK /\ Discovery!LoadingTellsQuery
                      /\ Discovery!ShownIsAsFiltered /\ Discovery!CapKeepsTheBest
  BY ShownIsBest DEF DiscoveryInv
<1> QED
  BY <1>1, <1>2, <1>3, PTL DEF Discovery!Spec

-----------------------------------------------------------------------------
(***************************************************************************)
(* The score of a pair, and the trust in its traveler.                     *)
(***************************************************************************)
\* A set of numbers that has 0, and with each number the next, has them all.
LEMMA NumbersFollow ==
  ASSUME NEW S, 0 \in S, \A n \in Nat : n \in S => n + 1 \in S
  PROVE  Nat \subseteq S
<1> SUFFICES ASSUME NEW m \in Nat, m \notin S PROVE FALSE
  OBVIOUS
<1> DEFINE T == {0..n : n \in Nat \ S}
           R == StrictSubsetOrdering(Nat)
<1>1. IsWellFoundedOn(R, FiniteSubsetsOf(Nat))
  BY FS_StrictSubsetOrderingWellFounded
<1>2. T \subseteq FiniteSubsetsOf(Nat)
  <2>1. ASSUME NEW n \in Nat PROVE 0..n \in SUBSET Nat /\ IsFiniteSet(0..n)
    BY FS_Interval
  <2> QED
    BY <2>1 DEF FiniteSubsetsOf
<1>3. PICK I \in T : \A J \in T : <<J, I>> \notin R
  <2>1. T # {}
    OBVIOUS
  <2> QED
    BY <1>1, <1>2, <2>1, WFMin
<1>4. PICK n \in Nat \ S : I = 0..n
  BY <1>3
<1>5. n - 1 \in Nat \ S
  OBVIOUS
<1>6. 0..(n - 1) \in T
  BY <1>5
<1>7. /\ 0..(n - 1) \in SUBSET Nat /\ 0..n \in SUBSET Nat
      /\ 0..(n - 1) \subseteq 0..n /\ 0..(n - 1) # 0..n
  BY <1>4, <1>5
<1>8. <<0..(n - 1), 0..n>> \in R
  BY <1>7 DEF StrictSubsetOrdering
<1> QED
  BY <1>3, <1>4, <1>6, <1>8

\* What sums up a sequence of numbers from its front is there, and a number.
SumsUp(f, r, n) ==
  f \in [0..n -> Nat] /\ \A i \in 0..n : f[i] = IF i = 0 THEN 0 ELSE r[i] + f[i - 1]

LEMMA SumsExist ==
  ASSUME NEW r \in Seq(Nat)
  PROVE  \E f : SumsUp(f, r, Len(r))
<1> DEFINE S == {n \in Nat : n <= Len(r) => \E f : SumsUp(f, r, n)}
<1>1. 0 \in S
  <2>1. SumsUp([i \in 0..0 |-> 0], r, 0)
    BY DEF SumsUp
  <2> QED
    BY <2>1
<1>2. ASSUME NEW n \in Nat, n \in S PROVE n + 1 \in S
  <2> SUFFICES ASSUME n + 1 <= Len(r) PROVE \E f : SumsUp(f, r, n + 1)
    OBVIOUS
  <2>1. n <= Len(r) /\ n + 1 \in 1..Len(r) /\ r[n + 1] \in Nat
    OBVIOUS
  <2>2. PICK f : SumsUp(f, r, n)
    BY <1>2, <2>1
  <2> DEFINE g == [i \in 0..(n + 1) |-> IF i = n + 1 THEN r[n + 1] + f[n] ELSE f[i]]
  <2>3. g \in [0..(n + 1) -> Nat]
    BY <2>1, <2>2 DEF SumsUp
  <2>4. ASSUME NEW i \in 0..(n + 1) PROVE g[i] = IF i = 0 THEN 0 ELSE r[i] + g[i - 1]
    <3>1. CASE i = n + 1
      <4>1. g[i] = r[n + 1] + f[n] /\ g[i - 1] = f[n]
        BY <3>1
      <4> QED
        BY <3>1, <4>1
    <3>2. CASE i \in 0..n
      <4>1. g[i] = f[i] /\ (i # 0 => g[i - 1] = f[i - 1])
        BY <3>2
      <4> QED
        BY <2>2, <3>2, <4>1 DEF SumsUp
    <3> QED
      BY <3>1, <3>2
  <2> QED
    BY <2>3, <2>4 DEF SumsUp
<1>3. Len(r) \in Nat
  OBVIOUS
<1>4. Len(r) \in S
  <2> HIDE DEF S
  <2> QED
    BY <1>1, <1>2, <1>3, NumbersFollow
<1> QED
  BY <1>4

LEMMA SumIsNumber ==
  ASSUME NEW r \in Seq(Nat), NEW sum,
         sum = CHOOSE g : g = [n \in 0..Len(r) |-> IF n = 0 THEN 0 ELSE r[n] + g[n - 1]]
  PROVE  sum[Len(r)] \in Nat
<1>1. PICK f : SumsUp(f, r, Len(r))
  BY SumsExist
<1>2. f = [n \in 0..Len(r) |-> IF n = 0 THEN 0 ELSE r[n] + f[n - 1]]
  BY <1>1 DEF SumsUp
<1>3. sum = [n \in 0..Len(r) |-> IF n = 0 THEN 0 ELSE r[n] + sum[n - 1]]
  BY <1>2, Zenon
<1>4. Len(r) \in Nat
  OBVIOUS
<1>5. sum[0] = 0 /\ \A n \in Nat : n + 1 <= Len(r) => sum[n + 1] = r[n + 1] + sum[n]
  <2>1. ASSUME NEW n \in 0..Len(r) PROVE sum[n] = IF n = 0 THEN 0 ELSE r[n] + sum[n - 1]
    BY <1>3
  <2>2. ASSUME NEW n \in Nat, n + 1 <= Len(r) PROVE sum[n + 1] = r[n + 1] + sum[n]
    <3>1. n + 1 \in 0..Len(r) /\ n + 1 # 0 /\ (n + 1) - 1 = n
      BY <1>4, <2>2
    <3> QED
      BY <2>1, <3>1
  <2> QED
    BY <1>4, <2>1, <2>2
<1> DEFINE U == {n \in Nat : n <= Len(r) => sum[n] \in Nat}
<1>6. 0 \in U
  BY <1>5
<1>7. ASSUME NEW n \in Nat, n \in U PROVE n + 1 \in U
  <2> SUFFICES ASSUME n + 1 <= Len(r) PROVE sum[n + 1] \in Nat
    OBVIOUS
  <2>1. sum[n] \in Nat /\ sum[n + 1] = r[n + 1] + sum[n]
    BY <1>4, <1>5, <1>7
  <2>2. r[n + 1] \in Nat
    BY <1>4
  <2> QED
    BY <2>1, <2>2
<1>8. Len(r) \in U
  <2> HIDE DEF U
  <2> QED
    BY <1>4, <1>6, <1>7, NumbersFollow
<1> QED
  BY <1>4, <1>8

\* The average of ratings is at least 1, or that of none is unknown.
LEMMA AverageOf ==
  ASSUME Pair!PairEvidenceAssumption, NEW r \in Seq(Stars)
  PROVE  /\ Pair!Average(r) \in Int
         /\ r = <<>> => Pair!Average(r) = Pair!Unknown
         /\ r # <<>> => Pair!Average(r) >= 0
<1>1. r \in Seq(Nat) /\ Len(r) \in Nat
  <2>1. Stars \subseteq Nat
    <3>1. Stars \subseteq 100..500
      BY DEF Pair!PairEvidenceAssumption
    <3> QED
      BY <3>1
  <2>2. r \in [1..Len(r) -> Stars] /\ Len(r) \in Nat
    OBVIOUS
  <2>3. r \in [1..Len(r) -> Nat]
    BY <2>1, <2>2
  <2> QED
    BY <2>2, <2>3
<1> DEFINE sum == CHOOSE g : g = [n \in 0..Len(r) |-> IF n = 0 THEN 0 ELSE r[n] + g[n - 1]]
<1>2. sum[Len(r)] \in Nat
  BY <1>1, SumIsNumber
<1>3. Pair!Average(r) =
        IF r = <<>> THEN Pair!Unknown ELSE Pair!Rounded(sum[Len(r)], Len(r))
  BY DEF Pair!Average
<1> HIDE DEF sum
<1>4. CASE r # <<>>
  <2>1. Len(r) > 0
    BY <1>4
  <2>2. \A x \in Nat, y \in Nat : y > 0 => (2 * x + y) \div (2 * y) \in Nat
    OBVIOUS
  <2>3. Pair!Rounded(sum[Len(r)], Len(r)) \in Nat
    BY <1>1, <1>2, <2>1, <2>2 DEF Pair!Rounded
  <2> QED
    BY <1>3, <1>4, <2>3
<1> QED
  BY <1>3, <1>4 DEF Pair!Unknown

\* What a reader is told of a traveler: without an average there are no reviews.
Told ==
  {i \in [completed : Nat, cancelled : Nat, average : Int, reviewed : Nat, age : {0},
           level : {"none"}] :
     IF i.reviewed = 0 THEN i.average = Pair!Unknown ELSE i.average >= 0}

PairInv ==
  /\ Pair!TypeOK /\ ratings \in Seq(Stars)
  /\ reputation # Pair!NoRecord =>
       \E i \in Told :
         reputation = [average |-> i.average, reviewed |-> i.reviewed,
                       completed |-> i.completed, cancelled |-> i.cancelled]

LEMMA ToldParts ==
  ASSUME NEW i \in Told
  PROVE  /\ i.completed \in Nat /\ i.cancelled \in Nat /\ i.average \in Int /\ i.reviewed \in Nat
         /\ i.age = 0 /\ i.level = "none"
         /\ i.reviewed = 0 => i.average = -1
         /\ i.reviewed # 0 => i.average >= 0
BY DEF Told, Pair!Unknown

\* Trust grows with deliveries and ratings and stays within its hundred.
LEMMA TrustGrows ==
  ASSUME NEW i \in Told, NEW j \in Told
  PROVE  /\ Pair!calculate(i) \in 0..Pair!FullTrust
         /\ Pair!BetterInputs(i, j) => Pair!calculate(i) >= Pair!calculate(j)
<1> DEFINE done(k) == Pair!Clamp(k.completed, 0, 10)
           gone(k) == Pair!Clamp(k.cancelled, 0, 5)
           stars(k) == Pair!Clamp(k.average, 100, 500)
           sum(k) == 400 * done(k) + Pair!CancellationPoints(k) + Pair!ReviewPoints(k)
<1>1. ASSUME NEW k \in Told
      PROVE  done(k) \in 0..10 /\ gone(k) \in 0..5 /\ stars(k) \in 100..500
  <2>1. k.completed \in Nat /\ k.cancelled \in Nat /\ k.average \in Int
    BY ToldParts
  <2> QED
    BY <2>1 DEF Pair!Clamp, Pair!Least, Pair!Greatest
<1>2. ASSUME NEW k \in Told
      PROVE  /\ Pair!CancellationPoints(k) = -(500 * gone(k))
             /\ k.reviewed > 0 => Pair!ReviewPoints(k) = 5 * stars(k)
             /\ k.reviewed = 0 => Pair!ReviewPoints(k) = 0
  BY <1>1, ToldParts DEF Pair!CancellationPoints, Pair!ReviewPoints
<1>3. ASSUME NEW k \in Told
      PROVE  sum(k) \in Int /\ Pair!calculate(k) = Pair!Clamp(sum(k), 0, Pair!FullTrust)
  <2>1. sum(k) \in Int
    <3>1. /\ done(k) \in 0..10 /\ gone(k) \in 0..5 /\ stars(k) \in 100..500
          /\ Pair!CancellationPoints(k) = -(500 * gone(k))
          /\ Pair!ReviewPoints(k) = 0 \/ Pair!ReviewPoints(k) = 5 * stars(k)
      BY <1>1, <1>2, <1>3, ToldParts
    <3> HIDE DEF done, gone, stars
    <3>2. /\ 400 * done(k) \in Int /\ Pair!CancellationPoints(k) \in Int
          /\ Pair!ReviewPoints(k) \in Int
      BY <3>1
    <3>3. \A x, y, z \in Int : x + y + z \in Int
      OBVIOUS
    <3> QED
      BY <3>2, <3>3
  <2>2. Pair!Rounded(1500 * Pair!Clamp(k.age, 0, 365), 365) = 0
    <3>1. Pair!Clamp(k.age, 0, 365) = 0
      BY ToldParts DEF Pair!Clamp, Pair!Least, Pair!Greatest
    <3> QED
      BY <3>1 DEF Pair!Rounded
  <2>3. Pair!LevelPoints[k.level] = 0
    BY ToldParts DEF Pair!LevelPoints
  <2>4. Pair!calculate(k) =
          Pair!Clamp(sum(k) + Pair!Rounded(1500 * Pair!Clamp(k.age, 0, 365), 365)
                     + Pair!LevelPoints[k.level], 0, Pair!FullTrust)
    BY DEF Pair!calculate
  <2> HIDE DEF sum
  <2> QED
    BY <2>1, <2>2, <2>3, <2>4
<1>4. ASSUME Pair!BetterInputs(i, j) PROVE sum(i) >= sum(j)
  <2>1. /\ i.completed \in Nat /\ i.cancelled \in Nat /\ i.average \in Int /\ i.reviewed \in Nat
        /\ j.completed \in Nat /\ j.cancelled \in Nat /\ j.average \in Int /\ j.reviewed \in Nat
        /\ i.reviewed = 0 => i.average = -1
        /\ j.reviewed # 0 => j.average >= 0
        /\ i.completed >= j.completed /\ i.cancelled <= j.cancelled
        /\ j.average = -1 \/ i.average >= j.average
    BY <1>4, ToldParts DEF Pair!BetterInputs, Pair!Unknown
  <2>2. done(i) >= done(j) /\ gone(i) <= gone(j)
    BY <2>1 DEF Pair!Clamp, Pair!Least, Pair!Greatest
  <2>3. j.reviewed > 0 => i.reviewed > 0 /\ stars(i) >= stars(j)
    BY <2>1 DEF Pair!Clamp, Pair!Least, Pair!Greatest
  <2>4. /\ done(i) \in 0..10 /\ gone(i) \in 0..5 /\ stars(i) \in 100..500
        /\ done(j) \in 0..10 /\ gone(j) \in 0..5 /\ stars(j) \in 100..500
        /\ Pair!CancellationPoints(i) = -(500 * gone(i))
        /\ Pair!CancellationPoints(j) = -(500 * gone(j))
        /\ i.reviewed > 0 => Pair!ReviewPoints(i) = 5 * stars(i)
        /\ i.reviewed = 0 => Pair!ReviewPoints(i) = 0
        /\ j.reviewed > 0 => Pair!ReviewPoints(j) = 5 * stars(j)
        /\ j.reviewed = 0 => Pair!ReviewPoints(j) = 0
    BY <1>1, <1>2
  <2> HIDE DEF done, gone, stars
  <2>5. Pair!ReviewPoints(i) >= Pair!ReviewPoints(j) /\ Pair!ReviewPoints(i) \in Int
        /\ Pair!ReviewPoints(j) \in Int
    <3>1. CASE j.reviewed > 0
      <4>1. /\ Pair!ReviewPoints(i) = 5 * stars(i) /\ Pair!ReviewPoints(j) = 5 * stars(j)
            /\ stars(i) \in Int /\ stars(j) \in Int /\ stars(i) >= stars(j)
        BY <2>3, <2>4, <3>1
      <4> QED
        BY <4>1
    <3>2. CASE j.reviewed = 0
      BY <2>1, <2>4, <3>2
    <3> QED
      BY <2>1, <3>1, <3>2
  <2> QED
    BY <2>2, <2>4, <2>5
<1> HIDE DEF sum
<1>5. Pair!FullTrust \in Nat
  BY DEF Pair!FullTrust
<1>6. /\ sum(i) \in Int /\ Pair!calculate(i) = Pair!Clamp(sum(i), 0, Pair!FullTrust)
      /\ sum(j) \in Int /\ Pair!calculate(j) = Pair!Clamp(sum(j), 0, Pair!FullTrust)
  BY <1>3
<1>7. Pair!Clamp(sum(i), 0, Pair!FullTrust) \in 0..Pair!FullTrust
  BY <1>5, <1>6 DEF Pair!Clamp, Pair!Least, Pair!Greatest
<1>8. sum(i) >= sum(j) =>
        Pair!Clamp(sum(i), 0, Pair!FullTrust) >= Pair!Clamp(sum(j), 0, Pair!FullTrust)
  BY <1>5, <1>6 DEF Pair!Clamp, Pair!Least, Pair!Greatest
<1> QED
  BY <1>4, <1>6, <1>7, <1>8

LEMMA ReaderIsTold ==
  ASSUME Pair!PairEvidenceAssumption, PairInv
  PROVE  Pair!VisibleInputs \in Told
<1>1. /\ Len(ratings) \in Nat /\ (Len(ratings) = 0 <=> ratings = <<>>)
      /\ Pair!Average(ratings) \in Int
      /\ IF Len(ratings) = 0 THEN Pair!Average(ratings) = Pair!Unknown ELSE Pair!Average(ratings) >= 0
  BY AverageOf DEF PairInv
<1>2. CASE reputation = Pair!NoRecord
  BY <1>1, <1>2 DEF Told, Pair!VisibleInputs, Pair!Inputs
<1>3. CASE reputation # Pair!NoRecord
  <2>1. PICK i \in Told :
          reputation = [average |-> i.average, reviewed |-> i.reviewed,
                        completed |-> i.completed, cancelled |-> i.cancelled]
    BY <1>3 DEF PairInv
  <2> QED
    BY <1>1, <1>3, <2>1 DEF Told, Pair!VisibleInputs, Pair!Inputs
<1> QED
  BY <1>2, <1>3

\* What is recalculated is what would be told.
LEMMA RecordOf ==
  ASSUME Pair!PairEvidenceAssumption, PairInv
  PROVE  /\ \E i \in Told : Pair!Recalculated =
               [average |-> i.average, reviewed |-> i.reviewed,
                completed |-> i.completed, cancelled |-> i.cancelled]
         /\ Pair!Recalculated # Pair!NoRecord
         /\ Pair!Recalculated.completed = deliveries.completed
         /\ Pair!Recalculated.reviewed = Len(ratings)
<1>1. /\ Len(ratings) \in Nat /\ (Len(ratings) = 0 <=> ratings = <<>>)
      /\ Pair!Average(ratings) \in Int
      /\ IF Len(ratings) = 0 THEN Pair!Average(ratings) = Pair!Unknown ELSE Pair!Average(ratings) >= 0
  BY AverageOf DEF PairInv
<1>2. deliveries.completed \in Nat /\ deliveries.cancelled \in Nat
  BY DEF PairInv, Pair!TypeOK, Pair!PairEvidenceAssumption
<1> DEFINE i == [completed |-> deliveries.completed, cancelled |-> deliveries.cancelled,
                 average |-> Pair!Average(ratings), reviewed |-> Len(ratings),
                 age |-> 0, level |-> "none"]
<1>3. i \in Told
  BY <1>1, <1>2 DEF Told
<1>4. Pair!Recalculated = [average |-> i.average, reviewed |-> i.reviewed,
                           completed |-> i.completed, cancelled |-> i.cancelled]
  BY DEF Pair!Recalculated
<1>5. Pair!Recalculated # Pair!NoRecord
  BY DEF Pair!Recalculated, Pair!NoRecord
<1> HIDE DEF i
<1> QED
  BY <1>3, <1>4, <1>5 DEF Pair!Recalculated

LEMMA PairStart ==
  ASSUME Pair!PairEvidenceAssumption, Pair!Init
  PROVE  PairInv
<1>1. /\ deliveries = [completed |-> 0, cancelled |-> 0] /\ ratings = <<>>
      /\ reputation = Pair!NoRecord
  BY DEF Pair!Init
<1>2. deliveries \in [completed : 0..MaxCompleted, cancelled : 0..MaxCancelled]
  BY <1>1 DEF Pair!PairEvidenceAssumption
<1> QED
  BY <1>1, <1>2 DEF Pair!PairEvidenceAssumption, Pair!Init, PairInv, Pair!TypeOK

LEMMA PairStep ==
  ASSUME Pair!PairEvidenceAssumption, PairInv, [Pair!Next]_Pair!vars
  PROVE  PairInv'
<1> DEFINE Recorded(rec) == \E i \in Told :
      rec = [average |-> i.average, reviewed |-> i.reviewed,
             completed |-> i.completed, cancelled |-> i.cancelled]
<1>0. /\ deliveries \in [completed : 0..MaxCompleted, cancelled : 0..MaxCancelled]
      /\ deliveries.completed \in Nat /\ deliveries.cancelled \in Nat
      /\ ratings \in Seq(Stars) /\ Len(ratings) \in Nat
      /\ MaxCompleted \in Nat /\ MaxCancelled \in Nat /\ MaxReviews \in Nat
      /\ reputation # Pair!NoRecord =>
           /\ Recorded(reputation) /\ reputation.completed \in Nat /\ reputation.reviewed \in Nat
           /\ reputation.completed <= deliveries.completed /\ reputation.reviewed <= Len(ratings)
  <2>1. ASSUME NEW rec, Recorded(rec) PROVE rec.completed \in Nat /\ rec.reviewed \in Nat
    BY <2>1, ToldParts
  <2> QED
    BY <2>1 DEF PairInv, Pair!TypeOK, Pair!PairEvidenceAssumption
<1> HIDE DEF Recorded
<1>1. ASSUME NEW t \in Pair!Trips, Pair!EditTrip(t) PROVE PairInv'
  BY <1>1 DEF Pair!EditTrip, PairInv, Pair!TypeOK
<1>2. ASSUME NEW i \in Identities, Pair!Verify(i) PROVE PairInv'
  BY <1>2 DEF Pair!Verify, PairInv, Pair!TypeOK
<1>3. CASE Pair!Complete
  <2>1. /\ deliveries' \in [completed : 0..MaxCompleted, cancelled : 0..MaxCancelled]
        /\ deliveries'.completed >= deliveries.completed
    BY <1>0, <1>3 DEF Pair!Complete
  <2>2. reputation # Pair!NoRecord => reputation.completed <= deliveries'.completed
    BY <1>0, <2>1
  <2> QED
    BY <1>3, <2>1, <2>2 DEF Pair!Complete, PairInv, Pair!TypeOK
<1>4. CASE Pair!Cancel
  <2>1. /\ deliveries' \in [completed : 0..MaxCompleted, cancelled : 0..MaxCancelled]
        /\ deliveries'.completed = deliveries.completed
    BY <1>0, <1>4 DEF Pair!Cancel
  <2> QED
    BY <1>4, <2>1 DEF Pair!Cancel, PairInv, Pair!TypeOK
<1>5. ASSUME NEW r \in Stars, Pair!Review(r) PROVE PairInv'
  <2>1. /\ ratings' \in Seq(Stars) /\ Len(ratings') = Len(ratings) + 1
        /\ Len(ratings') <= MaxReviews /\ \A n \in 1..Len(ratings') : ratings'[n] \in Stars
    BY <1>0, <1>5 DEF Pair!Review
  <2>2. reputation # Pair!NoRecord => reputation.reviewed <= Len(ratings')
    BY <1>0, <2>1
  <2> QED
    BY <1>5, <2>1, <2>2 DEF Pair!Review, PairInv, Pair!TypeOK
<1>6. CASE Pair!Recalculate
  <2>1. /\ reputation' = Pair!Recalculated
        /\ UNCHANGED <<trip, window, identity, filter, deliveries, ratings>>
    BY <1>6 DEF Pair!Recalculate
  <2>2. /\ reputation'.completed = deliveries.completed /\ reputation'.reviewed = Len(ratings)
        /\ \E i \in Told :
             reputation' = [average |-> i.average, reviewed |-> i.reviewed,
                            completed |-> i.completed, cancelled |-> i.cancelled]
    BY <2>1, RecordOf
  <2> QED
    BY <1>0, <2>1, <2>2 DEF PairInv, Pair!TypeOK
<1>7. CASE UNCHANGED Pair!vars
  BY <1>7 DEF Pair!vars, PairInv, Pair!TypeOK
<1> QED
  BY <1>1, <1>2, <1>3, <1>4, <1>5, <1>6, <1>7 DEF Pair!Next

LEMMA QuotientGrows ==
  ASSUME NEW a \in Int, NEW b \in Int, a <= b, NEW d \in Nat, d > 0
  PROVE  a \div d <= b \div d
<1>1. /\ a \div d \in Int /\ d * (a \div d) <= a
      /\ b \div d \in Int /\ b < d * (b \div d) + d
  OBVIOUS
<1>2. ASSUME NEW x \in Int, NEW y \in Int, x >= y + 1 PROVE d * x >= d * y + d
  <2>1. PICK z \in Nat : x = y + 1 + z
    <3>1. x - y - 1 \in Nat /\ x = y + 1 + (x - y - 1)
      BY <1>2
    <3> QED
      BY <3>1
  <2>2. d * x = d * y + d + d * z /\ d * z >= 0
    BY <2>1
  <2> QED
    BY <2>2
<1>3. SUFFICES ASSUME a \div d >= b \div d + 1 PROVE FALSE
  BY <1>1
<1> QED
  BY <1>1, <1>2, <1>3

\* Fields that agree give points, each its own.
LEMMA RouteGrows ==
  ASSUME NEW s, NEW t, NEW u, Pair!Differing(s, t) \subseteq Pair!Differing(s, u)
  PROVE  /\ Pair!RoutePoints(s, t) \in 0..25
         /\ Pair!RoutePoints(s, t) >= Pair!RoutePoints(s, u)
<1> DEFINE of(x, f, p) == IF f \in Pair!Differing(s, x) THEN 0 ELSE p
<1>1. ASSUME NEW x
      PROVE  Pair!RoutePoints(s, x) = of(x, "originCountry", 5) + of(x, "originCity", 8)
               + of(x, "destinationCountry", 5) + of(x, "destinationCity", 7)
  BY DEF Pair!RoutePoints
<1> QED
  BY <1>1

\* The points of a gap between the trip and the window: fewer for a longer one.
LEMMA GapCosts ==
  ASSUME NEW g \in Nat, NEW h \in Nat, g <= h, NEW longest \in Nat
  PROVE  /\ Pair!GapPoints(g, longest) \in 0..9
         /\ Pair!GapPoints(g, longest) >= Pair!GapPoints(h, longest)
<1> DEFINE d == Pair!Greatest(1, longest)
           quotient(x) == (x * 8) \div d
<1>1. d \in Nat /\ d > 0
  BY DEF Pair!Greatest
<1>2. quotient(g) \in Nat /\ quotient(h) \in Nat /\ quotient(g) <= quotient(h)
  <2>1. g * 8 \in Nat /\ h * 8 \in Nat /\ g * 8 <= h * 8
    OBVIOUS
  <2>2. quotient(g) <= quotient(h)
    BY <1>1, <2>1, QuotientGrows
  <2>3. ASSUME NEW x \in Nat PROVE x \div d \in Nat
    BY <1>1
  <2> QED
    BY <2>1, <2>2, <2>3
<1>3. ASSUME NEW x \in Nat
      PROVE  Pair!GapPoints(x, longest) =
               IF x > longest THEN 0 ELSE Pair!Greatest(1, 9 - quotient(x))
  BY DEF Pair!GapPoints
<1> HIDE DEF quotient
<1> QED
  BY <1>2, <1>3 DEF Pair!Greatest

\* The dates of trips, and the windows of shipments
Dated(t) == t.departure \in Int /\ t.arrival \in Int /\ t.departure <= t.arrival
Windowed(s) == s.window.start \in Int /\ s.window.end \in Int

\* A trip whose dates suit the window as well has as many points for them.
LEMMA TimingGrows ==
  ASSUME NEW s, NEW t, NEW u, NEW f, Windowed(s), Dated(t), Dated(u),
         f.maximumTimingGapDays \in Nat,
         \/ s.window = Pair!Unstructured
         \/ t.departure = u.departure /\ t.arrival = u.arrival
         \/ Pair!ArrivesInside(s, t)
         \/ /\ ~Pair!Overlaps(s, u)
            /\ Pair!Overlaps(s, t) \/ Pair!GapDays(s, t) <= Pair!GapDays(s, u)
  PROVE  /\ Pair!TimingPoints(s, t, f) \in 0..15
         /\ Pair!TimingPoints(s, t, f) >= Pair!TimingPoints(s, u, f)
         /\ Pair!TimingBlocks(s, t, f) => Pair!TimingBlocks(s, u, f)
<1>1. Pair!GapDays(s, t) \in Nat /\ Pair!GapDays(s, u) \in Nat
  BY DEF Windowed, Dated, Pair!GapDays, Pair!Greatest
<1> DEFINE gap(x) == Pair!GapPoints(Pair!GapDays(s, x), f.maximumTimingGapDays)
<1>2. /\ gap(t) \in 0..9 /\ gap(u) \in 0..9
      /\ Pair!GapDays(s, t) <= Pair!GapDays(s, u) => gap(t) >= gap(u)
  BY <1>1, GapCosts
<1>3. ASSUME NEW x, x = t \/ x = u
      PROVE  /\ Pair!TimingPoints(s, x, f) =
                  IF s.window = Pair!Unstructured THEN 5
                  ELSE IF Pair!ArrivesInside(s, x) THEN 15
                  ELSE IF Pair!Overlaps(s, x) THEN 10 ELSE gap(x)
             /\ Pair!ArrivesInside(s, x) => Pair!Overlaps(s, x)
  BY <1>3 DEF Pair!TimingPoints, Windowed, Dated, Pair!ArrivesInside, Pair!Overlaps
<1> HIDE DEF gap
<1>4. Pair!TimingPoints(s, t, f) \in 0..15 /\ Pair!TimingPoints(s, u, f) \in 0..15
  BY <1>2, <1>3
<1>5. CASE s.window = Pair!Unstructured
  BY <1>3, <1>4, <1>5 DEF Pair!TimingBlocks
<1>6. CASE s.window # Pair!Unstructured /\ Pair!ArrivesInside(s, t)
  BY <1>3, <1>4, <1>6 DEF Pair!TimingBlocks
<1>7. CASE t.departure = u.departure /\ t.arrival = u.arrival
  <2>1. /\ Pair!ArrivesInside(s, t) = Pair!ArrivesInside(s, u)
        /\ Pair!Overlaps(s, t) = Pair!Overlaps(s, u)
        /\ Pair!GapDays(s, t) = Pair!GapDays(s, u)
    BY <1>7 DEF Pair!ArrivesInside, Pair!Overlaps, Pair!GapDays
  <2>2. gap(t) = gap(u)
    BY <2>1 DEF gap
  <2> QED
    BY <1>3, <1>4, <2>1, <2>2 DEF Pair!TimingBlocks
<1>8. CASE /\ s.window # Pair!Unstructured /\ ~Pair!ArrivesInside(s, t) /\ ~Pair!Overlaps(s, u)
           /\ Pair!Overlaps(s, t) \/ Pair!GapDays(s, t) <= Pair!GapDays(s, u)
  <2>1. ~Pair!ArrivesInside(s, u)
    BY <1>3, <1>8
  <2>2. Pair!TimingPoints(s, u, f) = gap(u)
    BY <1>3, <1>8, <2>1
  <2>3. Pair!TimingPoints(s, t, f) >= gap(u)
    BY <1>2, <1>3, <1>8
  <2> QED
    BY <1>4, <1>8, <2>1, <2>2, <2>3 DEF Pair!TimingBlocks
<1> QED
  BY <1>5, <1>6, <1>7, <1>8

\* The trips and the shipment of a pair, and the filter, with their numbers.
LEMMA PairParts ==
  ASSUME Pair!PairEvidenceAssumption, Pair!TypeOK
  PROVE  /\ Windowed(Pair!Shipment) /\ Pair!Shipment.owner = "sender"
         /\ Pair!Shipment.weight = Weight /\ Pair!Shipment.route = ShipmentRoute
         /\ Pair!Shipment.window = window
         /\ Weight \in Nat /\ filter.maximumTimingGapDays \in Nat
         /\ \A t \in Pair!Trips : /\ Dated(t) /\ t.owner = "traveler" /\ t.capacity \in Nat
                                  /\ t.route \in Routes
         /\ trip \in Pair!Trips
<1>1. /\ window.start \in Int /\ window.end \in Int /\ Weight \in Nat
      /\ filter.maximumTimingGapDays \in Nat
  <2>1. /\ Windows \subseteq [start : Int, end : Int] /\ Capacities \cup {Weight} \subseteq Nat
        /\ \A f \in Filters : f.maximumTimingGapDays \in 0..365
    BY DEF Pair!PairEvidenceAssumption
  <2>2. window \in Windows /\ filter \in Filters
    BY DEF Pair!TypeOK
  <2>3. filter.maximumTimingGapDays \in 0..365
    BY <2>1, <2>2
  <2> QED
    BY <2>1, <2>2, <2>3
<1>2. ASSUME NEW t \in Pair!Trips
      PROVE  Dated(t) /\ t.owner = "traveler" /\ t.capacity \in Nat /\ t.route \in Routes
  <2>1. PICK r \in Routes, d \in Dates, c \in Capacities :
          t = [owner |-> "traveler", route |-> r, departure |-> d[1], arrival |-> d[2],
               capacity |-> c]
    BY <1>2 DEF Pair!Trips
  <2>2. d[1] \in Int /\ d[2] \in Int /\ d[1] <= d[2] /\ c \in Nat
    BY DEF Pair!PairEvidenceAssumption
  <2> QED
    BY <2>1, <2>2 DEF Dated
<1> QED
  BY <1>1, <1>2 DEF Windowed, Pair!Shipment, Pair!TypeOK

\* The parts of a score and their sum
LEMMA MatchParts ==
  ASSUME NEW s, NEW t, NEW ev, NEW f
  PROVE  LET m == Pair!scoreMatch(s, t, ev, f) IN
         /\ m.factors = Pair!Factors(s, t, ev, f)
         /\ m.eligible = ~Pair!Blocked(s, t, ev, f)
         /\ m.total = Pair!RoutePoints(s, t) + Pair!TimingPoints(s, t, f)
              + Pair!CapacityPoints(s, t) + Pair!PackagePoints(s, f) + Pair!TrustPoints(ev)
              + Pair!IdentityPoints(ev) + Pair!HistoryPoints(ev)
BY DEF Pair!scoreMatch, Pair!Factors

\* The points for the evidence, and that they grow with it.
LEMMA EvidenceGrows ==
  ASSUME NEW e, NEW d, NEW s, NEW t, NEW f,
         e.trust \in 0..Pair!FullTrust, d.trust \in 0..Pair!FullTrust,
         e.completed \in Nat, d.completed \in Nat
  PROVE  /\ Pair!TrustPoints(e) \in 0..15 /\ Pair!IdentityPoints(e) \in 0..10
         /\ Pair!HistoryPoints(e) \in 0..10 /\ Pair!PackagePoints(s, f) \in 0..10
         /\ Pair!CapacityPoints(s, t) \in 0..15
         /\ e.trust >= d.trust => Pair!TrustPoints(e) >= Pair!TrustPoints(d)
         /\ e.completed >= d.completed => Pair!HistoryPoints(e) >= Pair!HistoryPoints(d)
<1> DEFINE points(x) == (2 * (15 * x) + 10000) \div (2 * 10000)
<1>0. Pair!FullTrust \in Nat
  BY SMTT(30) DEF Pair!FullTrust
<1>1. Pair!FullTrust = 10000
  BY SMTT(30) DEF Pair!FullTrust
<1>2. e.trust \in Nat /\ e.trust <= 10000 /\ d.trust \in Nat /\ d.trust <= 10000
  <2>1. /\ e.trust \in Nat /\ e.trust <= Pair!FullTrust
        /\ d.trust \in Nat /\ d.trust <= Pair!FullTrust
    BY <1>0
  <2> QED
    BY <1>1, <2>1
<1>3. ASSUME NEW c, c.trust \in Nat, c.trust <= 10000 PROVE Pair!TrustPoints(c) = points(c.trust)
  <2>1. Pair!Clamp(c.trust, 0, 10000) = c.trust
    BY <1>3 DEF Pair!Clamp, Pair!Least, Pair!Greatest
  <2>2. c.trust # Pair!Unknown
    BY <1>3 DEF Pair!Unknown
  <2>3. Pair!TrustPoints(c)
          = Pair!Rounded(15 * Pair!Clamp(c.trust, 0, Pair!FullTrust), Pair!FullTrust)
    BY <2>2, Zenon DEF Pair!TrustPoints
  <2>4. Pair!TrustPoints(c) = Pair!Rounded(15 * c.trust, 10000)
    BY <1>1, <2>1, <2>3
  <2> QED
    BY <2>4 DEF Pair!Rounded
<1>4. ASSUME NEW x \in Nat, x <= 10000 PROVE points(x) \in 0..15
  BY <1>4
<1>5. ASSUME NEW x \in Nat, NEW y \in Nat, x >= y PROVE points(x) >= points(y)
  BY <1>5
<1>6. /\ Pair!TrustPoints(e) \in 0..15
      /\ e.trust >= d.trust => Pair!TrustPoints(e) >= Pair!TrustPoints(d)
  <2> HIDE DEF points
  <2> QED
    BY <1>2, <1>3, <1>4, <1>5
<1>7. /\ Pair!HistoryPoints(e) \in 0..10
      /\ e.completed >= d.completed => Pair!HistoryPoints(e) >= Pair!HistoryPoints(d)
  BY DEF Pair!HistoryPoints, Pair!Unknown
<1>8. /\ Pair!IdentityPoints(e) \in 0..10 /\ Pair!PackagePoints(s, f) \in 0..10
      /\ Pair!CapacityPoints(s, t) \in 0..15
  BY DEF Pair!IdentityPoints, Pair!PackagePoints, Pair!CapacityPoints
<1> QED
  BY <1>6, <1>7, <1>8, SMTT(30)

\* Where a trip is as good in every respect it has as many points in each,
\* and nothing rules it out that did not rule the other out.
LEMMA FitGrows ==
  ASSUME Pair!PairEvidenceAssumption, Pair!TypeOK,
         NEW t \in Pair!Trips, NEW u \in Pair!Trips, Pair!AtLeastAsGood(t, u),
         NEW ev
  PROVE  LET s == Pair!Shipment IN
         /\ Pair!RoutePoints(s, t) \in 0..25 /\ Pair!TimingPoints(s, t, filter) \in 0..15
         /\ Pair!RoutePoints(s, t) >= Pair!RoutePoints(s, u)
         /\ Pair!TimingPoints(s, t, filter) >= Pair!TimingPoints(s, u, filter)
         /\ Pair!CapacityPoints(s, t) >= Pair!CapacityPoints(s, u)
         /\ Pair!Blocked(s, t, ev, filter) => Pair!Blocked(s, u, ev, filter)
<1> DEFINE s == Pair!Shipment
<1>1. /\ Windowed(s) /\ s.window = window /\ s.weight = Weight /\ Weight \in Nat
      /\ filter.maximumTimingGapDays \in Nat
      /\ Dated(t) /\ t.capacity \in Nat /\ t.owner = "traveler"
      /\ Dated(u) /\ u.capacity \in Nat /\ u.owner = "traveler"
  BY PairParts
<1>2. /\ Pair!Differing(s, t) \subseteq Pair!Differing(s, u) /\ t.capacity >= u.capacity
      /\ \/ window = Pair!Unstructured
         \/ t.departure = u.departure /\ t.arrival = u.arrival
         \/ Pair!Missed(t) = 0
         \/ /\ ~Pair!Overlaps(s, u)
            /\ Pair!Overlaps(s, t) \/ Pair!GapDays(s, t) <= Pair!GapDays(s, u)
  BY DEF Pair!AtLeastAsGood
<1> HIDE DEF s
<1>3. Pair!Missed(t) = 0 => Pair!ArrivesInside(s, t)
  BY <1>1 DEF Pair!Missed, Pair!ArrivesInside, Windowed, Dated
<1>4. /\ Pair!RoutePoints(s, t) \in 0..25
      /\ Pair!RoutePoints(s, t) >= Pair!RoutePoints(s, u)
      /\ Pair!RoutePoints(s, u) \in 0..25
  BY <1>2, RouteGrows
<1>5. /\ Pair!TimingPoints(s, t, filter) \in 0..15
      /\ Pair!TimingPoints(s, t, filter) >= Pair!TimingPoints(s, u, filter)
      /\ Pair!TimingBlocks(s, t, filter) => Pair!TimingBlocks(s, u, filter)
  BY <1>1, <1>2, <1>3, TimingGrows
<1>6. /\ Pair!CapacityPoints(s, t) >= Pair!CapacityPoints(s, u)
      /\ Pair!CapacityBlocks(s, t, filter) => Pair!CapacityBlocks(s, u, filter)
  BY <1>1, <1>2 DEF Pair!CapacityPoints, Pair!CapacityBlocks
<1>7. Pair!RouteBlocks(s, t, filter) => Pair!RouteBlocks(s, u, filter)
  BY <1>2, <1>4 DEF Pair!RouteBlocks
<1>8. Pair!Blocked(s, t, ev, filter) => Pair!Blocked(s, u, ev, filter)
  BY <1>1, <1>5, <1>6, <1>7 DEF Pair!Blocked
<1> QED
  BY <1>4, <1>5, <1>6, <1>8 DEF s

\* What is known of the traveler
LEMMA EvidenceParts ==
  ASSUME Pair!PairEvidenceAssumption, PairInv
  PROVE  /\ Pair!VisibleTrust \in 0..Pair!FullTrust /\ Pair!Evidence.trust = Pair!VisibleTrust
         /\ Pair!Evidence.completed = Pair!VisibleInputs.completed
         /\ Pair!Evidence.identity = identity /\ Pair!Evidence.completed \in Nat
<1>1. Pair!VisibleInputs \in Told
  BY ReaderIsTold
<1> QED
  BY <1>1, TrustGrows, ToldParts DEF Pair!VisibleTrust, Pair!Evidence

LEMMA PointsBounded ==
  ASSUME Pair!PairEvidenceAssumption, PairInv
  PROVE  Pair!PointsWithinMaxima
<1> DEFINE s == Pair!Shipment
           e == Pair!Evidence
<1>1. Pair!TypeOK /\ trip \in Pair!Trips
  BY PairParts DEF PairInv
<1>2. Pair!AtLeastAsGood(trip, trip)
  BY <1>1, PairParts DEF Pair!AtLeastAsGood
<1>3. Pair!RoutePoints(s, trip) \in 0..25 /\ Pair!TimingPoints(s, trip, filter) \in 0..15
  BY <1>1, <1>2, FitGrows
<1>4. /\ Pair!TrustPoints(e) \in 0..15 /\ Pair!IdentityPoints(e) \in 0..10
      /\ Pair!HistoryPoints(e) \in 0..10 /\ Pair!PackagePoints(s, filter) \in 0..10
      /\ Pair!CapacityPoints(s, trip) \in 0..15
  <2>1. e.trust \in 0..Pair!FullTrust /\ e.completed \in Nat
    BY EvidenceParts
  <2> HIDE DEF e
  <2> QED
    BY <2>1, EvidenceGrows
<1>5. /\ Pair!Match.factors = Pair!Factors(s, trip, e, filter)
      /\ Pair!Match.total = Pair!RoutePoints(s, trip) + Pair!TimingPoints(s, trip, filter)
           + Pair!CapacityPoints(s, trip) + Pair!PackagePoints(s, filter) + Pair!TrustPoints(e)
           + Pair!IdentityPoints(e) + Pair!HistoryPoints(e)
  BY MatchParts DEF Pair!Match
<1> HIDE DEF s, e
<1>6. Pair!Match.total \in 0..100
  BY <1>3, <1>4, <1>5
<1>7. \A k \in DOMAIN Pair!maximumPoints : Pair!Match.factors[k] \in 0..Pair!maximumPoints[k]
  BY <1>3, <1>4, <1>5 DEF Pair!Factors, Pair!maximumPoints
<1> QED
  BY <1>6, <1>7, EvidenceParts DEF Pair!PointsWithinMaxima

LEMMA EligibleCarried ==
  ASSUME Pair!PairEvidenceAssumption, PairInv
  PROVE  Pair!EligibleCanBeCarried
<1> DEFINE s == Pair!Shipment
<1> SUFFICES ASSUME Pair!Match.eligible
             PROVE  /\ filter.requireCapacity => Weight <= trip.capacity
                    /\ filter.requireExactRoute => trip.route = ShipmentRoute
                    /\ filter.requireIdentityVerification => identity = "verified"
  BY DEF Pair!EligibleCanBeCarried
<1>1. ~Pair!Blocked(s, trip, Pair!Evidence, filter)
  BY MatchParts DEF Pair!Match
<1>2. /\ s.weight = Weight /\ s.route = ShipmentRoute /\ Weight \in Nat
      /\ trip.capacity \in Nat /\ trip.route \in Routes
  BY PairParts DEF PairInv
<1>3. Pair!Evidence.identity = identity
  BY EvidenceParts
<1> HIDE DEF s
<1>4. filter.requireCapacity => Weight <= trip.capacity
  BY <1>1, <1>2 DEF Pair!Blocked, Pair!CapacityBlocks
<1>5. filter.requireExactRoute => trip.route = ShipmentRoute
  <2>1. filter.requireExactRoute =>
          \A f \in Pair!RouteFields : ShipmentRoute[f] = trip.route[f]
    BY <1>1, <1>2 DEF Pair!Blocked, Pair!RouteBlocks, Pair!Differing
  <2>2. /\ ShipmentRoute = [f \in Pair!RouteFields |-> ShipmentRoute[f]]
        /\ trip.route = [f \in Pair!RouteFields |-> trip.route[f]]
    BY <1>2 DEF Pair!PairEvidenceAssumption
  <2> QED
    BY <2>1, <2>2
<1>6. filter.requireIdentityVerification => identity = "verified"
  BY <1>1, <1>3 DEF Pair!Blocked, Pair!IdentityBlocks
<1> QED
  BY <1>4, <1>5, <1>6

LEMMA FreshSeen ==
  ASSUME Pair!PairEvidenceAssumption, PairInv
  PROVE  Pair!FreshRecordIsSeen
<1> SUFFICES ASSUME reputation = Pair!Recalculated
             PROVE  Pair!VisibleInputs =
                      Pair!Inputs(deliveries.completed, deliveries.cancelled,
                                  Pair!Average(ratings), Len(ratings), 0, "none")
  BY DEF Pair!FreshRecordIsSeen
<1>1. reputation # Pair!NoRecord
  BY RecordOf
<1>2. /\ reputation.completed = deliveries.completed
      /\ reputation.cancelled = deliveries.cancelled
      /\ reputation.average = Pair!Average(ratings) /\ reputation.reviewed = Len(ratings)
  BY DEF Pair!Recalculated
<1> QED
  BY <1>1, <1>2 DEF Pair!VisibleInputs

\* Sums of points
LEMMA PointsAdd ==
  ASSUME NEW m, NEW n,
         NEW a \in Int, NEW b \in Int, NEW c \in Int, NEW d \in Int, NEW e \in Int, NEW f \in Int,
         NEW g \in Int,
         NEW h \in Int, NEW i \in Int, NEW j \in Int, NEW k \in Int, NEW l \in Int,
         m = a + b + c + d + e + f + g, n = h + i + j + d + k + f + l,
         h >= a, i >= b, j >= c, k >= e, l >= g
  PROVE  n >= m
OBVIOUS

\* An edit that makes the trip fit as well costs nothing.
LEMMA EditsCostNothing ==
  ASSUME Pair!PairEvidenceAssumption, PairInv, PairInv'
  PROVE  Pair!NoLess
<1> DEFINE s == Pair!Shipment
           e == Pair!Evidence
<1> SUFFICES ASSUME Pair!AtLeastAsGood(trip', trip),
                    UNCHANGED <<window, identity, filter, ratings, reputation>>
             PROVE  /\ Pair!Match'.total >= Pair!Match.total
                    /\ Pair!Match.eligible => Pair!Match'.eligible
  BY DEF Pair!NoLess
<1>1. Pair!TypeOK /\ trip \in Pair!Trips /\ trip' \in Pair!Trips
  BY DEF PairInv, Pair!TypeOK
<1>2. s' = s /\ e' = e /\ filter' = filter
  <2>1. Pair!VisibleInputs' = Pair!VisibleInputs
    BY DEF Pair!VisibleInputs, Pair!Average
  <2> QED
    BY <2>1 DEF Pair!Shipment, Pair!Evidence, Pair!VisibleTrust
<1>3. /\ Pair!RoutePoints(s, trip') \in 0..25 /\ Pair!TimingPoints(s, trip', filter) \in 0..15
      /\ Pair!RoutePoints(s, trip') >= Pair!RoutePoints(s, trip)
      /\ Pair!TimingPoints(s, trip', filter) >= Pair!TimingPoints(s, trip, filter)
      /\ Pair!CapacityPoints(s, trip') >= Pair!CapacityPoints(s, trip)
      /\ Pair!Blocked(s, trip', e, filter) => Pair!Blocked(s, trip, e, filter)
  BY <1>1, FitGrows
<1>4. Pair!RoutePoints(s, trip) \in 0..25 /\ Pair!TimingPoints(s, trip, filter) \in 0..15
  <2>1. Pair!AtLeastAsGood(trip, trip)
    BY <1>1, PairParts DEF Pair!AtLeastAsGood
  <2> QED
    BY <1>1, <2>1, FitGrows
<1>5. /\ Pair!TrustPoints(e) \in 0..15 /\ Pair!IdentityPoints(e) \in 0..10
      /\ Pair!HistoryPoints(e) \in 0..10 /\ Pair!PackagePoints(s, filter) \in 0..10
      /\ Pair!CapacityPoints(s, trip) \in 0..15 /\ Pair!CapacityPoints(s, trip') \in 0..15
  <2>1. e.trust \in 0..Pair!FullTrust /\ e.completed \in Nat
    BY EvidenceParts
  <2> HIDE DEF e
  <2> QED
    BY <2>1, EvidenceGrows
<1>6. /\ Pair!Match.eligible = ~Pair!Blocked(s, trip, e, filter)
      /\ Pair!Match.total = Pair!RoutePoints(s, trip) + Pair!TimingPoints(s, trip, filter)
           + Pair!CapacityPoints(s, trip) + Pair!PackagePoints(s, filter) + Pair!TrustPoints(e)
           + Pair!IdentityPoints(e) + Pair!HistoryPoints(e)
  BY MatchParts DEF Pair!Match
<1>7. Pair!Match' = Pair!scoreMatch(s, trip', e, filter)
  BY <1>2 DEF Pair!Match
<1>8. /\ Pair!Match'.eligible = ~Pair!Blocked(s, trip', e, filter)
      /\ Pair!Match'.total = Pair!RoutePoints(s, trip') + Pair!TimingPoints(s, trip', filter)
           + Pair!CapacityPoints(s, trip') + Pair!PackagePoints(s, filter) + Pair!TrustPoints(e)
           + Pair!IdentityPoints(e) + Pair!HistoryPoints(e)
  BY <1>7, MatchParts
<1> HIDE DEF s, e
<1>9. Pair!Match'.total >= Pair!Match.total
  <2>1. /\ Pair!TimingPoints(s, trip, filter) \in Int /\ Pair!TimingPoints(s, trip', filter) \in Int
        /\ Pair!RoutePoints(s, trip) \in Int /\ Pair!RoutePoints(s, trip') \in Int
        /\ Pair!CapacityPoints(s, trip) \in Int /\ Pair!CapacityPoints(s, trip') \in Int
    BY <1>3, <1>4, <1>5
  <2>2. /\ Pair!PackagePoints(s, filter) \in Int /\ Pair!TrustPoints(e) \in Int
        /\ Pair!IdentityPoints(e) \in Int /\ Pair!HistoryPoints(e) \in Int
    BY <1>5
  <2>3. Pair!TrustPoints(e) >= Pair!TrustPoints(e) /\ Pair!HistoryPoints(e) >= Pair!HistoryPoints(e)
    BY <2>2
  <2> QED
    BY <1>3, <1>6, <1>8, <2>1, <2>2, <2>3, PointsAdd
<1>10. Pair!Match.eligible => Pair!Match'.eligible
  BY <1>3, <1>6, <1>8
<1> QED
  BY <1>9, <1>10

\* Good news of a traveler costs nothing.
LEMMA NewsCostsNothing ==
  ASSUME Pair!PairEvidenceAssumption, PairInv, PairInv',
         Pair!VisibleInputs \in Told, Pair!VisibleInputs' \in Told
  PROVE  Pair!NoCost
<1> DEFINE s == Pair!Shipment
           d == Pair!Evidence
           e == Pair!Evidence'
<1> SUFFICES ASSUME Pair!BetterInputs(Pair!VisibleInputs', Pair!VisibleInputs),
                    UNCHANGED <<trip, window, identity, filter>>
             PROVE  /\ Pair!VisibleTrust' >= Pair!VisibleTrust
                    /\ Pair!Match'.total >= Pair!Match.total
  BY DEF Pair!NoCost
<1>1. /\ Pair!VisibleTrust \in 0..Pair!FullTrust /\ Pair!VisibleTrust' \in 0..Pair!FullTrust
      /\ Pair!VisibleTrust' >= Pair!VisibleTrust
  BY TrustGrows DEF Pair!VisibleTrust
<1>2. /\ d.trust = Pair!VisibleTrust /\ e.trust = Pair!VisibleTrust'
      /\ d.completed = Pair!VisibleInputs.completed
      /\ e.completed = Pair!VisibleInputs'.completed
      /\ d.identity = e.identity
  BY DEF Pair!Evidence
<1>3. d.completed \in Nat /\ e.completed \in Nat /\ e.completed >= d.completed
  BY <1>2, ToldParts DEF Pair!BetterInputs
<1>4. s' = s
  BY DEF Pair!Shipment
<1>5. /\ Pair!Match.total = Pair!RoutePoints(s, trip) + Pair!TimingPoints(s, trip, filter)
           + Pair!CapacityPoints(s, trip) + Pair!PackagePoints(s, filter) + Pair!TrustPoints(d)
           + Pair!IdentityPoints(d) + Pair!HistoryPoints(d)
  BY MatchParts DEF Pair!Match
<1>6. Pair!Match' = Pair!scoreMatch(s, trip, e, filter)
  BY <1>4 DEF Pair!Match
<1>7. /\ Pair!Match'.total = Pair!RoutePoints(s, trip) + Pair!TimingPoints(s, trip, filter)
           + Pair!CapacityPoints(s, trip) + Pair!PackagePoints(s, filter) + Pair!TrustPoints(e)
           + Pair!IdentityPoints(e) + Pair!HistoryPoints(e)
  BY <1>6, MatchParts
<1>8. Pair!RoutePoints(s, trip) \in 0..25 /\ Pair!TimingPoints(s, trip, filter) \in 0..15
  <2>1. Pair!TypeOK /\ trip \in Pair!Trips
    BY DEF PairInv, Pair!TypeOK
  <2>2. Pair!AtLeastAsGood(trip, trip)
    BY <2>1, PairParts DEF Pair!AtLeastAsGood
  <2> QED
    BY <2>1, <2>2, FitGrows
<1>9. Pair!IdentityPoints(e) = Pair!IdentityPoints(d)
  BY <1>2 DEF Pair!IdentityPoints
<1> HIDE DEF s, d, e
<1>10. /\ Pair!PackagePoints(s, filter) \in 0..10 /\ Pair!CapacityPoints(s, trip) \in 0..15
       /\ Pair!IdentityPoints(d) \in 0..10
       /\ Pair!TrustPoints(d) \in 0..15 /\ Pair!TrustPoints(e) \in 0..15
       /\ Pair!HistoryPoints(d) \in 0..10 /\ Pair!HistoryPoints(e) \in 0..10
       /\ Pair!TrustPoints(e) >= Pair!TrustPoints(d)
       /\ Pair!HistoryPoints(e) >= Pair!HistoryPoints(d)
  <2>1. d.trust \in 0..Pair!FullTrust /\ e.trust \in 0..Pair!FullTrust /\ e.trust >= d.trust
    BY <1>1, <1>2
  <2> QED
    BY <1>3, <2>1, EvidenceGrows
<1>11. Pair!Match'.total >= Pair!Match.total
  <2>1. /\ Pair!RoutePoints(s, trip) \in Int /\ Pair!TimingPoints(s, trip, filter) \in Int
        /\ Pair!PackagePoints(s, filter) \in Int /\ Pair!CapacityPoints(s, trip) \in Int
        /\ Pair!IdentityPoints(d) \in Int
        /\ Pair!TrustPoints(d) \in Int /\ Pair!TrustPoints(e) \in Int
        /\ Pair!HistoryPoints(d) \in Int /\ Pair!HistoryPoints(e) \in Int
    BY <1>8, <1>10
  <2>2. /\ Pair!RoutePoints(s, trip) >= Pair!RoutePoints(s, trip)
        /\ Pair!TimingPoints(s, trip, filter) >= Pair!TimingPoints(s, trip, filter)
        /\ Pair!CapacityPoints(s, trip) >= Pair!CapacityPoints(s, trip)
    BY <2>1
  <2> QED
    BY <1>5, <1>7, <1>9, <1>10, <2>1, <2>2, PointsAdd
<1> QED
  BY <1>1, <1>11

\* The points of a pair and what a reader is told follow the facts: a trip that
\* fits as well and news that are as good never cost a point, a score stays
\* within its maxima, and a pair that is offered can be carried
\* (MatchingService.evaluate, TrustService.getVisibleSummary).
THEOREM ScoresFollowTheFacts ==
  ASSUME Pair!PairEvidenceAssumption
  PROVE  Pair!Spec =>
           /\ [](/\ Pair!TypeOK /\ Pair!PointsWithinMaxima /\ Pair!EligibleCanBeCarried
                 /\ Pair!FreshRecordIsSeen)
           /\ [][Pair!NoLess /\ Pair!NoCost]_Pair!vars
<1> DEFINE Facts == PairInv /\ Pair!VisibleInputs \in Told
<1>1. Pair!Init => PairInv
  BY PairStart
<1>2. PairInv /\ [Pair!Next]_Pair!vars => PairInv'
  BY PairStep
<1>3. PairInv => Facts
  BY ReaderIsTold
<1>4. Facts => /\ Pair!TypeOK /\ Pair!PointsWithinMaxima /\ Pair!EligibleCanBeCarried
               /\ Pair!FreshRecordIsSeen
  BY PointsBounded, EligibleCarried, FreshSeen DEF PairInv
<1>5. Facts /\ Facts' => [Pair!NoLess /\ Pair!NoCost]_Pair!vars
  BY EditsCostNothing, NewsCostsNothing
<1> HIDE DEF Facts
<1> QED
  BY <1>1, <1>2, <1>3, <1>4, <1>5, PTL DEF Pair!Spec

(***************************************************************************)
(* The components beside each other.  None touches the state of another,   *)
(* so each behaves as its own specification says, and what is proved of it *)
(* holds in every behaviour of Participants.                               *)
(***************************************************************************)
LEMMA EachBehaves ==
  Spec => /\ Submission!Spec /\ Discovery!Spec /\ Pair!Spec /\ Calls!Spec /\ Agreeing!Spec
          /\ Events!Spec /\ Reviews!Spec
<1>1. Init => /\ Submission!Init /\ Discovery!Init /\ Pair!Init /\ Calls!Init /\ Agreeing!Init
              /\ Events!Init /\ Reviews!Init
  BY DEF Init, ListingInit, DiscoveryInit, PairInit
<1> USE DEF Next, ListingMoves, DiscoveryMoves, ScoringMoves, TrustMoves, CallsMove,
            AgreementMoves, EventsMove, ReviewsMove, OthersThanListing, OthersThanPair,
            OthersThanCalls, OthersThanReviews, vars
<1>2. [Next]_vars => [Submission!Next]_Submission!vars
  BY DEF Submission!vars, listingVars
<1>3. [Next]_vars => [Discovery!Next]_Discovery!vars
  BY DEF Discovery!vars, Discovery!world, discoveryVars
<1>4. [Next]_vars => [Pair!Next]_Pair!vars
  BY DEF Pair!vars, pairVars
<1>5. [Next]_vars => [Calls!Next]_Calls!vars
  BY DEF Calls!vars, callVars
<1>6. [Next]_vars => [Agreeing!Next]_Agreeing!vars
  BY DEF Agreeing!vars, Agreeing!handoffVars, agreementVars
<1>7. [Next]_vars => [Events!Next]_Events!vars
  BY DEF Events!vars, eventVars
<1>8. [Next]_vars => [Reviews!Next]_Reviews!vars
  BY DEF Reviews!vars, reviewVars
<1> HIDE DEF Next, vars
<1> QED
  BY <1>1, <1>2, <1>3, <1>4, <1>5, <1>6, <1>7, <1>8, PTL
     DEF Spec, Submission!Spec, Discovery!Spec, Pair!Spec, Calls!Spec, Agreeing!Spec,
         Events!Spec, Reviews!Spec

\* One review of each side of a booking, announced once and counted only with
\* the completed booking (ReviewService.submitReview), as ReviewsCountOnce says.
THEOREM ReviewsAreCountedOnce == Spec => []ReviewedOnce
<1>1. Reviews!Spec => [](Reviews!TypeOK /\ Reviews!ReviewedOnce)
  BY ReviewsCountOnce, PartsAssumption
<1>2. Reviews!TypeOK /\ Reviews!ReviewedOnce => ReviewedOnce
  BY DEF ReviewedOnce
<1> QED
  BY <1>1, <1>2, EachBehaves, PTL

\* As long as no two recalculations of one user overlap, the records are
\* accurate once every trigger has been handled, as RecordsFollowTriggers says.
THEOREM RecordsAreAccurate ==
  Spec /\ []OneRecalculationAUser => []Reviews!ReputationAccurate
BY RecordsFollowTriggers, EachBehaves, PartsAssumption, PTL

\* As long as two presses for one match do not overlap, a request has one
\* booking (BookingService.requestBooking), as RequestsBookOnce says.
THEOREM RequestsAreBookedOnce == Spec /\ []OnePressAMatch => []RequestedOnce
<1>1. Calls!Spec /\ []OnePressAMatch => [](Calls!TypeOK /\ Calls!RequestedOnce)
  BY RequestsBookOnce, PartsAssumption
<1>2. Calls!TypeOK /\ Calls!RequestedOnce => RequestedOnce
  BY DEF RequestedOnce
<1> QED
  BY <1>1, <1>2, EachBehaves, PTL

\* No participant takes back a part of the other, and the outcome shown is the
\* server's (HandoffService), as AgreementIsKept says.
THEOREM AgreementsAreKept == Spec => AgreementKept
<1>1. Agreeing!Spec => /\ [](Agreeing!TypeOK) /\ [](Agreeing!OutcomeMirrored)
                       /\ [][Agreeing!OtherPartsStay]_Agreeing!vars
  BY AgreementIsKept, PartsAssumption DEF Agreeing!AgreementKept
<1>2. /\ [Agreeing!OtherPartsStay]_Agreeing!vars
         => [moving = "agreement" => Agreeing!OtherPartsStay]_agreementVars
      /\ Agreeing!TypeOK /\ Agreeing!OutcomeMirrored
         => (moving = "agreement" => Agreeing!TypeOK /\ Agreeing!OutcomeMirrored)
  BY DEF Agreeing!vars, Agreeing!handoffVars, agreementVars
<1> QED
  BY <1>1, <1>2, EachBehaves, PTL DEF AgreementKept

\* Where the device's storage works, is read before a form can be filled in
\* and loses the queued write with the app, one listing comes of a start, and
\* what is reported as saved is there as entered (ShipmentService.create,
\* TripService.create), as ListingsComeOnce says.
THEOREM ListingsAreListedOnce ==
  ASSUME ~StorageFails, ~SlowStorage, ~Persistent
  PROVE  Spec => ListedOnce
<1>1. SubmissionHypothesis
  BY PartsAssumption DEF SubmissionHypothesis
<1>2. Submission!Spec => [](Submission!TypeOK /\ Submission!OneListingPerStart)
  BY <1>1, OneListingOfAStart
<1>3. Submission!Spec => /\ [](Submission!OneListingPerStart /\ Submission!QuietCheckIsRight)
                         /\ [][Submission!AsEntered]_Submission!vars
  BY <1>1, ListingsComeOnce DEF Submission!ListedOnce
<1>4. /\ [Submission!AsEntered]_Submission!vars
         => [moving = "listing" => Submission!AsEntered]_listingVars
      /\ Submission!TypeOK /\ Submission!OneListingPerStart /\ Submission!QuietCheckIsRight
         => (moving = "listing" =>
               /\ Submission!TypeOK
               /\ Submission!OneListingPerStart /\ Submission!QuietCheckIsRight)
  BY DEF Submission!vars, listingVars
<1> QED
  BY <1>2, <1>3, <1>4, EachBehaves, PTL DEF ListedOnce

\* The scores of matching.ts and the trust of trust.ts follow the facts, as
\* ScoresFollowTheFacts says.
THEOREM BetterNeverScoresLess == Spec => BetterScoresNoLess
<1>1. Pair!Spec => /\ [](/\ Pair!TypeOK /\ Pair!PointsWithinMaxima /\ Pair!EligibleCanBeCarried
                         /\ Pair!FreshRecordIsSeen)
                   /\ [][Pair!NoLess /\ Pair!NoCost]_Pair!vars
  BY ScoresFollowTheFacts, PartsAssumption
<1>2. /\ [Pair!NoLess /\ Pair!NoCost]_Pair!vars
         => [Pairing => Pair!NoLess /\ Pair!NoCost]_pairVars
      /\ Pair!TypeOK /\ Pair!PointsWithinMaxima
         => (Pairing => Pair!TypeOK /\ Pair!PointsWithinMaxima)
      /\ Pair!EligibleCanBeCarried /\ Pair!FreshRecordIsSeen
         => (Pairing => Pair!EligibleCanBeCarried /\ Pair!FreshRecordIsSeen)
  BY DEF Pair!vars, pairVars
<1> QED
  BY <1>1, <1>2, EachBehaves, PTL DEF BetterScoresNoLess

\* The screen recommends as its filters say and keeps the best, as
\* RecommendationsAnswer says.
THEOREM RecommendationsAreAsFiltered == Spec => []RecommendedAsFiltered
<1>1. Discovery!Spec => [](/\ Discovery!TypeOK /\ Discovery!LoadingTellsQuery
                           /\ Discovery!ShownIsAsFiltered /\ Discovery!CapKeepsTheBest)
  BY RecommendationsAnswer, PartsAssumption
<1>2. /\ Discovery!TypeOK /\ Discovery!LoadingTellsQuery
      /\ Discovery!ShownIsAsFiltered /\ Discovery!CapKeepsTheBest
      => RecommendedAsFiltered
  BY DEF RecommendedAsFiltered
<1> QED
  BY <1>1, <1>2, EachBehaves, PTL

\* A scan that has ended leaves no step it read without a notification to the
\* party who did not take it (reconcileBookingLifecycleNotifications), as
\* ReconciliationIsComplete says.
THEOREM ScansNotifyAll == Spec => []ReconciledAll
<1>1. Events!ReconciledAll => ReconciledAll
  BY DEF ReconciledAll
<1> QED
  BY <1>1, ReconciliationIsComplete, EachBehaves, PTL
=============================================================================
