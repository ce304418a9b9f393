--------------------------- MODULE BookingCalls ---------------------------
(***************************************************************************)
(* A sender who requests bookings of a shipment from the home screen, and  *)
(* the two participants who move them on from the booking card, as calls   *)
(* of the server: BookingService, the gateways and the callable transport. *)
(* A call is answered, refused for its credentials and made once more, or  *)
(* fails on its way, and may then still be served later.  Nothing limits   *)
(* how long it takes: a call that hangs leaves its request pending until   *)
(* the application starts again.  What the server does with a call is      *)
(* modules Bookings and Custody in detail; here a booking is its status.   *)
(* The sender's home screen keeps an operation id for a match until the    *)
(* request is answered, on the device too.                                 *)
(***************************************************************************)
EXTENDS Naturals, FiniteSets

CONSTANTS Trip,         \* trips that match the shipment
          Tap,          \* presses of "Request booking" that may be under way
          MaxOps,       \* bound on the operation ids generated
          MaxPresses,   \* bound on the buttons pressed on cards
          MaxRestarts   \* bound on the restarts of the sender's app

Actor == {"sender", "traveler"}
CallsAssumption ==
    /\ Tap \cap Actor = {} /\ IsFiniteSet(Tap)
    /\ {MaxOps, MaxPresses, MaxRestarts} \subseteq Nat

Op == 1..MaxOps
NoOp == 0
Bkg == Trip \X Op
NoBooking == <<>>
Caller == Tap \cup Actor

Step == {"accepted", "declined", "cancelled", "in_transit", "delivered", "completed"}
Status == Step \cup {"absent", "pending"}
Open == {"pending", "accepted", "in_transit", "delivered"}

VARIABLES booking,     \* status of each booking on the server
          optimistic,  \* what the home screen shows for each match
          opRef,       \* the operation id it keeps for each match
          stored,      \* and the device
          fresh,       \* operation ids generated
          message,     \* what the home screen says of the last request
          call,        \* the call each press is making
          stray,       \* calls that were lost before they were served
          presses, restarts,
          published,   \* how often each event was published, by whom
          started,     \* which request of each match the sender is making
          requestOf    \* the request each booking came of

vars == <<booking, optimistic, opRef, stored, fresh, message, call, stray,
          presses, restarts, published, started, requestOf>>
homeVars == <<optimistic, opRef, stored, fresh, message>>
historyVars == <<published, started, requestOf>>

Idle == [at |-> "idle", does |-> "request", on |-> NoBooking, tries |-> 0,
         existed |-> FALSE, was |-> "absent", result |-> NoBooking]
Does == Step \cup {"request"}
CallState == [at : {"idle", "reading", "storing", "checking", "called", "served"},
              does : Does, on : Bkg \cup Trip \cup {NoBooking}, tries : 0..1,
              existed : BOOLEAN, was : Status, result : Bkg \cup {NoBooking}]

TypeOK ==
    /\ booking \in [Bkg -> Status]
    /\ optimistic \in [Trip -> {"none", "pending", "confirmed"}]
    /\ opRef \in [Trip -> Op \cup {NoOp}] /\ stored \in [Trip -> Op \cup {NoOp}]
    /\ fresh \in 0..MaxOps /\ message \in {"none", "sent", "error"}
    /\ \A c \in Caller : call[c] \in CallState
    /\ presses \in 0..MaxPresses /\ restarts \in 0..MaxRestarts
    /\ requestOf \in [Bkg -> Nat] /\ started \in [Trip -> Nat]

Init ==
    /\ booking = [b \in Bkg |-> "absent"]
    /\ optimistic = [t \in Trip |-> "none"]
    /\ opRef = [t \in Trip |-> NoOp] /\ stored = [t \in Trip |-> NoOp]
    /\ fresh = 0 /\ message = "none"
    /\ call = [c \in Caller |-> Idle] /\ stray = {}
    /\ presses = 0 /\ restarts = 0
    /\ published = [b \in Bkg |-> [s \in Status |-> 0]]
    /\ started = [t \in Trip |-> 1] /\ requestOf = [b \in Bkg |-> 0]

(***************************************************************************)
(* The server.                                                             *)
(***************************************************************************)
\* The booking a request of `b` is answered with, if not by a refusal: an open
\* one of the match, whatever its operation, or the one the operation made.
Existing(b) ==
    {x \in Bkg : x[1] = b[1] /\ booking[x] \in Open}
      \cup (IF booking[b] # "absent" /\ ~\E x \in Bkg : booking[x] \in Open \cup {"completed"}
            THEN {b} ELSE {})

Requestable(b) ==
    /\ booking[b] = "absent"
    /\ ~\E x \in Bkg : booking[x] \in Open \cup {"completed"}

\* The status a step is made from, and who makes it.
MayMake(c, s, from) ==
    CASE s \in {"accepted", "declined"} -> c = "traveler" /\ from = "pending"
      [] s = "in_transit" -> c = "traveler" /\ from = "accepted"
      [] s = "delivered" -> c = "traveler" /\ from = "in_transit"
      [] s = "completed" -> c = "sender" /\ from = "delivered"
      [] s = "cancelled" -> \/ from = "accepted"
                            \/ c = "sender" /\ from = "pending"

\* Step `s` was made before, perhaps with what follows it.
Served(b, s) ==
    \/ booking[b] = s
    \/ s = "in_transit" /\ booking[b] \in {"delivered", "completed"}
    \/ s = "delivered" /\ booking[b] = "completed"

\* The answer names the booking, the status the server found or made, and
\* whether the work was done before.
Tell(c, b, existed) ==
    call' = [call EXCEPT ![c].at = "served", ![c].result = b,
                         ![c].existed = existed, ![c].was = booking'[b]]

\* A call that fails: the press is over, the home screen rolls back.
FailCall(c) ==
    /\ call' = [call EXCEPT ![c] = Idle]
    /\ IF c \in Tap
       THEN /\ optimistic' = [optimistic EXCEPT ![call[c].on[1]] = "none"]
            /\ message' = "error"
       ELSE UNCHANGED <<optimistic, message>>
    /\ UNCHANGED <<opRef, stored, fresh>>

\* What serving the call of `does` on `on` does to the bookings.
CreateBooking(b, req) ==
    /\ booking' = [booking EXCEPT ![b] = "pending"]
    /\ requestOf' = [requestOf EXCEPT ![b] = req]

ServeRequest(c) ==
    /\ call[c].at = "called" /\ call[c].does = "request"
    /\ LET b == call[c].on IN
       \/ /\ Existing(b) # {}
          /\ UNCHANGED <<booking, requestOf, homeVars>>
          /\ \E x \in Existing(b) : Tell(c, x, TRUE)
       \/ /\ Existing(b) = {} /\ Requestable(b)
          /\ CreateBooking(b, started[b[1]])
          /\ Tell(c, b, FALSE)
          /\ UNCHANGED homeVars
       \/ /\ Existing(b) = {} /\ ~Requestable(b)
          /\ FailCall(c)
          /\ UNCHANGED <<booking, requestOf>>
    /\ UNCHANGED <<stray, presses, restarts, published, started>>

ServeStep(c) ==
    /\ call[c].at = "called" /\ call[c].does \in Step
    /\ LET b == call[c].on
           s == call[c].does
       IN \/ /\ Served(b, s)
             /\ UNCHANGED <<booking, homeVars>>
             /\ Tell(c, b, TRUE)
          \/ /\ MayMake(c, s, booking[b])
             /\ booking' = [booking EXCEPT ![b] = s]
             /\ Tell(c, b, FALSE)
             /\ UNCHANGED homeVars
          \/ /\ ~Served(b, s) /\ ~MayMake(c, s, booking[b])
             /\ FailCall(c)
             /\ UNCHANGED booking
    /\ UNCHANGED <<stray, presses, restarts, historyVars>>

\* A call that failed on the device is served after all.
ServeStray ==
    \E x \in stray :
       /\ stray' = stray \ {x}
       /\ IF x.does = "request"
          THEN /\ Existing(x.on) = {} /\ Requestable(x.on)
               /\ CreateBooking(x.on, x.req)
          ELSE /\ MayMake(x.by, x.does, booking[x.on])
               /\ booking' = [booking EXCEPT ![x.on] = x.does]
               /\ UNCHANGED requestOf
       /\ UNCHANGED <<homeVars, call, presses, restarts, published, started>>

(***************************************************************************)
(* The transport.                                                          *)
(***************************************************************************)

\* The credentials are refused: the call is made once more with new ones.
Refuse(c) ==
    /\ call[c].at = "called"
    /\ IF call[c].tries = 0
       THEN call' = [call EXCEPT ![c].tries = 1] /\ UNCHANGED homeVars
       ELSE FailCall(c)
    /\ UNCHANGED <<booking, stray, presses, restarts, historyVars>>

\* The connection breaks: the call does not get through, or not yet.
Lose(c) ==
    /\ call[c].at = "called"
    /\ FailCall(c)
    /\ stray' = stray \cup
         {[by |-> c, does |-> call[c].does, on |-> call[c].on,
           req |-> IF c \in Tap THEN started[call[c].on[1]] ELSE 0]}
    /\ UNCHANGED <<booking, presses, restarts, historyVars>>

\* The answer, or the reading of the booking it names, does not get through.
LoseAnswer(c) ==
    /\ call[c].at = "served"
    /\ FailCall(c)
    /\ UNCHANGED <<booking, stray, presses, restarts, historyVars>>

(***************************************************************************)
(* A request from the home screen.                                         *)
(***************************************************************************)
\* The button is there unless the match shows a request.  The screen keeps the
\* operation id it has; otherwise it first reads the device's.
PressRequest(c, t) ==
    /\ call[c].at = "idle" /\ optimistic[t] = "none"
    /\ fresh + Cardinality(Tap) <= MaxOps
    /\ IF opRef[t] # NoOp
       THEN /\ call' = [call EXCEPT ![c] = [Idle EXCEPT !.at = "called", !.on = <<t, opRef[t]>>]]
            /\ optimistic' = [optimistic EXCEPT ![t] = "pending"]
            /\ message' = "none"
       ELSE /\ call' = [call EXCEPT ![c] = [Idle EXCEPT !.at = "reading", !.on = t]]
            /\ UNCHANGED <<optimistic, message>>
    /\ UNCHANGED <<booking, opRef, stored, fresh, stray, presses, restarts,
                   historyVars>>

ReadOperationFreshMutant(c) ==
    /\ call[c].at = "reading" /\ fresh < MaxOps
    /\ opRef' = [opRef EXCEPT ![call[c].on] = fresh + 1]
    /\ fresh' = fresh + 1
    /\ call' = [call EXCEPT ![c].at = "storing", ![c].on = <<call[c].on, fresh + 1>>]
    /\ UNCHANGED <<booking, optimistic, stored, message, stray, presses, restarts,
                   historyVars>>

\* What the device has kept, or a new operation id.
ReadOperation(c) ==
    /\ call[c].at = "reading"
    /\ LET t == call[c].on
           o == IF stored[t] # NoOp THEN stored[t] ELSE fresh + 1
       IN /\ opRef' = [opRef EXCEPT ![t] = o]
          /\ fresh' = IF o > fresh THEN o ELSE fresh
          /\ call' = [call EXCEPT ![c].at = "storing", ![c].on = <<t, o>>]
    /\ UNCHANGED <<booking, optimistic, stored, message, stray, presses, restarts,
                   historyVars>>

StoreOperation(c) ==
    /\ call[c].at = "storing"
    /\ LET t == call[c].on[1] IN
       /\ stored' = [stored EXCEPT ![t] = call[c].on[2]]
       /\ optimistic' = [optimistic EXCEPT ![t] = "pending"]
    /\ message' = "none"
    /\ call' = [call EXCEPT ![c].at = "called"]
    /\ UNCHANGED <<booking, opRef, fresh, stray, presses, restarts, historyVars>>

\* The request is answered: an event for a booking that is new, and the
\* operation id is forgotten.
FinishRequest(c) ==
    /\ call[c].at = "served" /\ call[c].does = "request"
    /\ LET t == call[c].on[1]
           b == call[c].result
       IN /\ optimistic' = [optimistic EXCEPT ![t] = "confirmed"]
          /\ opRef' = [opRef EXCEPT ![t] = NoOp]
          /\ stored' = [stored EXCEPT ![t] = NoOp]
          /\ message' = "sent"
          /\ published' = IF call[c].existed THEN published
                          ELSE [published EXCEPT ![b]["pending"] = @ + 1]
          /\ started' = [started EXCEPT ![t] = @ + 1]
    /\ call' = [call EXCEPT ![c] = Idle]
    /\ UNCHANGED <<booking, fresh, stray, presses, restarts, requestOf>>

(***************************************************************************)
(* A step from the booking card.                                           *)
(***************************************************************************)
PressStep(c, b, s) ==
    /\ call[c].at = "idle" /\ presses < MaxPresses
    /\ MayMake(c, s, booking[b])
    /\ presses' = presses + 1
    /\ call' = [call EXCEPT ![c] = [Idle EXCEPT !.at = "checking", !.does = s, !.on = b]]
    /\ UNCHANGED <<booking, homeVars, stray, restarts, historyVars>>

\* BookingService reads the booking and checks who may cancel it now, and the
\* participant's part in the step.
CheckActor(c) ==
    /\ call[c].at = "checking"
    /\ LET b == call[c].on
           s == call[c].does
       IN IF s = "cancelled" /\ ~MayMake(c, s, booking[b])
          THEN FailCall(c)
          ELSE call' = [call EXCEPT ![c].at = "called"] /\ UNCHANGED homeVars
    /\ UNCHANGED <<booking, stray, presses, restarts, historyVars>>

\* The booking is read again once the call is answered; the event published is
\* the one of the status it then has.
EventStatus(c) == booking[call[c].result]

FinishStep(c) ==
    /\ call[c].at = "served" /\ call[c].does \in Step
    /\ published' =
         IF call[c].existed THEN published
         ELSE [published EXCEPT ![call[c].result][EventStatus(c)] = @ + 1]
    /\ call' = [call EXCEPT ![c] = Idle]
    /\ UNCHANGED <<booking, homeVars, stray, presses, restarts, started, requestOf>>

\* The sender's app is closed and opened: only the device's copy is left.
Restart ==
    /\ restarts < MaxRestarts
    /\ restarts' = restarts + 1
    /\ call' = [c \in Caller |-> IF c \in Tap THEN Idle ELSE call[c]]
    /\ stray' = stray \cup
         {[by |-> c, does |-> "request", on |-> call[c].on, req |-> started[call[c].on[1]]] :
            c \in {d \in Tap : call[d].at = "called"}}
    /\ optimistic' = [t \in Trip |-> "none"] /\ opRef' = [t \in Trip |-> NoOp]
    /\ message' = "none"
    /\ UNCHANGED <<booking, stored, fresh, presses, historyVars>>

Handle(c) ==
    \/ ServeRequest(c) \/ ServeStep(c) \/ Refuse(c) \/ Lose(c) \/ LoseAnswer(c)
    \/ ReadOperation(c) \/ StoreOperation(c) \/ FinishRequest(c)
    \/ CheckActor(c) \/ FinishStep(c)

Next ==
    \/ \E c \in Caller : Handle(c)
    \/ ServeStray \/ Restart
    \/ \E c \in Tap, t \in Trip : PressRequest(c, t)
    \/ \E c \in Actor, b \in Bkg, s \in Step : PressStep(c, b, s)

Spec == Init /\ [][Next]_vars

(***************************************************************************)
(* Properties.                                                             *)
(***************************************************************************)
\* From the press to the report that the booking was requested, however often
\* the sender presses again after a lost answer, a late call or a restart, one
\* booking comes of it.
RequestedOnce ==
    \A a, b \in Bkg :
        a[1] = b[1] /\ requestOf[a] # 0 /\ requestOf[a] = requestOf[b] => a = b

\* No event is published twice, by the participant who made the step or the
\* other ("suppresses duplicate event").
PublishedOnce == \A b \in Bkg, s \in Status : published[b][s] <= 1

\* When the home screen reports a booking as requested, it still waits for the
\* traveler or has been taken up ("Booking requested. The traveler has an
\* in-app notification").
RequestedIsOpen ==
    [][\A c \in Tap : call[c].at = "served" /\ call'[c].at = "idle" /\ message' = "sent"
         => call[c].was \in Open]_vars
=============================================================================
