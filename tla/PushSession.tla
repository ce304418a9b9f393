---------------------------- MODULE PushSession -----------------------------
(***************************************************************************)
(* One installation of the application whose users sign in and out and     *)
(* register it for push notifications.  AuthSessionService runs its        *)
(* operations one after the other; a sign-out first unregisters the        *)
(* installation, through PushRegistrationService, which queues its own     *)
(* operations, and stops waiting for that after three seconds.  What was   *)
(* abandoned then may still be on its way to the server.  The server's     *)
(* records are module PushRegistrations; here a user is registered or not. *)
(***************************************************************************)
EXTENDS Naturals, SequencesExt

CONSTANTS User,          \* accounts that sign in on this installation
          NoUser,        \* signed out
          MaxPresses,    \* bound on the presses of the push card's buttons
          MaxSessions,   \* bound on the sign-ins and sign-outs asked for
          MaxRestarts    \* bound on the restarts of the application

PushSessionAssumption ==
    NoUser \notin User /\ {MaxPresses, MaxSessions, MaxRestarts} \subseteq Nat

VARIABLES current,       \* the user of the authentication provider
          shown,         \* the user the screens show
          auth,          \* operations of AuthSessionService, the first runs
          push,          \* unfinished operations of PushRegistrationService
          generation,    \* of PushRegistrationService's operations
          installation,  \* an installation id is stored on the device
          card,          \* the push registration card of the profile
          registered,    \* users the server has registered this installation for
          late,          \* requests given up by the client, still under way
          pressed, asked, restarts,
          clean,         \* history: users who signed out after their clean-up
          strayed,       \* and those for whom an abandoned request was served
          since          \* history: the number of the sign-in of `current`

vars == <<current, shown, auth, push, generation, installation, card, registered,
          late, pressed, asked, restarts, clean, strayed, since>>
serverVars == <<registered, late>>
countVars == <<pressed, asked, restarts>>

Request == [does : {"register", "unregister"}, who : User]
PushOp == [does : {"register", "unregister"}, who : User, gen : Nat,
           by : {"card", "signOut"}, at : {"queued", "preparing", "sent", "answered"}]
AuthOp == [does : {"in", "out"}, who : User \cup {NoUser}, nr : 1..MaxSessions,
           at : {"queued", "cleaning", "signing"}]
IdleCard == [busy |-> FALSE, stale |-> FALSE, told |-> NoUser]

TypeOK ==
    /\ {current, shown} \subseteq User \cup {NoUser}
    /\ auth \in Seq(AuthOp) /\ push \in Seq(PushOp)
    /\ generation \in 0..MaxSessions /\ installation \in BOOLEAN
    /\ card \in [busy : BOOLEAN, stale : BOOLEAN, told : User \cup {NoUser}]
    /\ registered \subseteq User /\ late \subseteq Request
    /\ clean \subseteq User /\ strayed \subseteq User /\ since \in 0..MaxSessions
    /\ pressed \in 0..MaxPresses /\ asked \in 0..MaxSessions
    /\ restarts \in 0..MaxRestarts

Init ==
    /\ current = NoUser /\ shown = NoUser
    /\ auth = <<>> /\ push = <<>> /\ generation = 0
    /\ installation = FALSE /\ card = IdleCard
    /\ registered = {} /\ late = {} /\ clean = {} /\ strayed = {} /\ since = 0
    /\ pressed = 0 /\ asked = 0 /\ restarts = 0

(***************************************************************************)
(* AuthSessionService.                                                     *)
(***************************************************************************)

AskSignIn(u) ==
    /\ asked < MaxSessions
    /\ asked' = asked + 1
    /\ auth' = Append(auth, [does |-> "in", who |-> u, nr |-> asked', at |-> "queued"])
    /\ UNCHANGED <<current, shown, push, generation, installation, card, serverVars,
                   pressed, restarts, clean, strayed, since>>

\* While a sign-out is under way asking again gives the same one.
AskSignOut ==
    /\ asked < MaxSessions
    /\ ~\E i \in DOMAIN auth : auth[i].does = "out"
    /\ asked' = asked + 1
    /\ auth' = Append(auth, [does |-> "out", who |-> NoUser, nr |-> asked', at |-> "queued"])
    /\ UNCHANGED <<current, shown, push, generation, installation, card, serverVars,
                   pressed, restarts, clean, strayed, since>>

\* The operation whose turn it is
Running(does, at) == auth # <<>> /\ Head(auth).does = does /\ Head(auth).at = at

\* The provider signs the user in, or refuses.
SignIn ==
    /\ Running("in", "queued")
    /\ \/ current' = Head(auth).who /\ since' = Head(auth).nr
       \/ UNCHANGED <<current, since>>
    /\ auth' = Tail(auth)
    /\ UNCHANGED <<shown, push, generation, installation, card, serverVars, countVars,
                   clean, strayed>>

\* The sign-out remembers whom it signs out, and has the installation
\* unregistered for them.
BeginSignOut ==
    /\ Running("out", "queued")
    /\ auth' = [auth EXCEPT ![1].who = current,
                            ![1].at = IF current = NoUser THEN "signing" ELSE "cleaning"]
    /\ push' = IF current = NoUser THEN push
               ELSE Append(push, [does |-> "unregister", who |-> current,
                                  gen |-> generation, by |-> "signOut", at |-> "queued"])
    /\ UNCHANGED <<current, shown, generation, installation, card, serverVars,
                   countVars, clean, strayed, since>>

TimeOutMutant ==
    /\ Running("out", "cleaning")
    /\ \E i \in DOMAIN push : push[i].by = "signOut" /\ push[i].at = "queued"
    /\ auth' = [auth EXCEPT ![1].at = "signing"]
    /\ generation' = generation + 1
    /\ UNCHANGED <<current, shown, push, installation, card, serverVars, countVars, clean, strayed, since>>

\* Three seconds are over: what is queued is invalidated and the queue is free.
TimeOut ==
    /\ Running("out", "cleaning")
    /\ auth' = [auth EXCEPT ![1].at = "signing"]
    /\ generation' = generation + 1
    /\ UNCHANGED <<current, shown, push, installation, card, serverVars, countVars, clean, strayed, since>>

\* The provider signs out the user that was remembered, if it is still the
\* one, or fails.  `clean` is told below.
SignOut ==
    /\ Running("out", "signing")
    /\ LET who == Head(auth).who IN
       /\ current' \in IF current = who THEN {current, NoUser} ELSE {current}
       /\ clean' = IF current' = NoUser THEN clean ELSE clean \ {who}
    /\ auth' = Tail(auth)
    /\ UNCHANGED <<shown, push, generation, installation, card, serverVars, countVars, strayed, since>>

\* The screens learn of the user; the card forgets what it told the last one.
ShowUser ==
    /\ shown # current
    /\ shown' = current
    /\ card' = [card EXCEPT !.told = NoUser, !.stale = card.busy]
    /\ UNCHANGED <<current, auth, push, generation, installation, serverVars,
                   countVars, clean, strayed, since>>

(***************************************************************************)
(* PushRegistrationService.                                                *)
(***************************************************************************)
PressButton(does) ==
    /\ ~card.busy /\ shown # NoUser /\ pressed < MaxPresses
    /\ pressed' = pressed + 1
    /\ card' = [IdleCard EXCEPT !.busy = TRUE]
    /\ push' = Append(push, [does |-> does, who |-> shown, gen |-> generation,
                             by |-> "card", at |-> "queued"])
    /\ clean' = IF does = "register" THEN clean \ {shown} ELSE clean
    /\ UNCHANGED <<current, shown, auth, generation, installation, serverVars,
                   asked, restarts, strayed, since>>

MayStartMutant(i) == TRUE

\* An operation waits for those before it, of its own generation.
MayStart(i) == ~\E j \in 1..(i - 1) : push[j].gen = push[i].gen
Fenced(i) == push[i].gen # generation

\* Operation i ends.  A sign-out that waits for it goes on; the card tells its
\* user, if the user has not changed since.
End(i, done) ==
    /\ push' = RemoveAt(push, i)
    /\ LET waits == push[i].by = "signOut" /\ Running("out", "cleaning") /\ ~Fenced(i) IN
       /\ auth' = IF waits THEN [auth EXCEPT ![1].at = "signing"] ELSE auth
       \* the user leaves clean if nothing is queued that registers again
       /\ clean' = IF waits /\ done
                      /\ ~\E j \in DOMAIN push : push[j].does = "register" /\ push[j].who = push[i].who
                   THEN clean \cup {push[i].who} ELSE clean
    /\ card' = IF push[i].by = "card"
               THEN [IdleCard EXCEPT !.told = IF card.stale THEN NoUser ELSE push[i].who]
               ELSE card

StartPush(i) ==
    /\ i \in DOMAIN push /\ push[i].at = "queued" /\ MayStart(i)
    /\ IF Fenced(i)
       THEN End(i, FALSE)
       ELSE /\ push' = [push EXCEPT ![i].at = "preparing"]
            /\ UNCHANGED <<auth, card, clean>>
    /\ UNCHANGED <<current, shown, generation, installation, serverVars, countVars, strayed, since>>

\* The device gives a token, for an installation id it keeps, or stops its own
\* updates; without an installation id there is nothing to unregister.  Then
\* the transport takes the request, unless another user is signed in.
PreparePush(i) ==
    /\ i \in DOMAIN push /\ push[i].at = "preparing"
    /\ \/ /\ End(i, FALSE)                                     \* deferred or superseded
          /\ installation' \in {installation, installation \/ push[i].does = "register"}
       \/ /\ ~Fenced(i) /\ push[i].does = "unregister" /\ ~installation
          /\ End(i, TRUE)
          /\ UNCHANGED installation
       \/ /\ ~Fenced(i) /\ (push[i].does = "register" \/ installation)
          /\ installation' = TRUE
          /\ IF current = push[i].who
             THEN /\ push' = [push EXCEPT ![i].at = "sent"]
                  /\ UNCHANGED <<auth, card, clean>>
             ELSE End(i, FALSE)
    /\ UNCHANGED <<current, shown, generation, serverVars, countVars, strayed, since>>

\* What a request does on the server.
Registers(x) ==
    registered' = IF x.does = "register" THEN registered \cup {x.who}
                  ELSE registered \ {x.who}

ServePush(i) ==
    /\ i \in DOMAIN push /\ push[i].at = "sent"
    /\ Registers(push[i])
    /\ push' = [push EXCEPT ![i].at = "answered"]
    /\ strayed' = IF Fenced(i) THEN strayed \cup {push[i].who} ELSE strayed
    /\ UNCHANGED <<current, shown, auth, generation, installation, card, late, countVars,
                   clean, since>>

AnswerPush(i) ==
    /\ i \in DOMAIN push /\ push[i].at = "answered"
    /\ \/ End(i, ~Fenced(i))
       \/ End(i, FALSE)                                        \* the answer is lost
    /\ UNCHANGED <<current, shown, generation, installation, serverVars, countVars, strayed, since>>

LosePush(i) ==
    /\ i \in DOMAIN push /\ push[i].at = "sent"
    /\ late' = late \cup {[does |-> push[i].does, who |-> push[i].who]}
    /\ End(i, FALSE)
    /\ UNCHANGED <<current, shown, generation, installation, registered, countVars, strayed, since>>

ServeLate ==
    \E x \in late :
       /\ late' = late \ {x}
       /\ Registers(x)
       /\ strayed' = strayed \cup {x.who}
       /\ UNCHANGED <<current, shown, auth, push, generation, installation, card, countVars,
                      clean, since>>

\* The process ends; the provider keeps the session and the device its id.
Restart ==
    /\ restarts < MaxRestarts
    /\ restarts' = restarts + 1
    /\ late' = late \cup {[does |-> push[i].does, who |-> push[i].who] :
                             i \in {j \in DOMAIN push : push[j].at = "sent"}}
    /\ auth' = <<>> /\ push' = <<>> /\ generation' = 0
    /\ shown' = NoUser /\ card' = IdleCard /\ clean' = clean \ {current}
    /\ UNCHANGED <<current, installation, registered, pressed, asked, strayed, since>>

AuthStep == SignIn \/ BeginSignOut \/ TimeOut \/ SignOut
PushStep ==
    \E i \in DOMAIN push :
       StartPush(i) \/ PreparePush(i) \/ ServePush(i) \/ AnswerPush(i) \/ LosePush(i)

Next ==
    \/ AuthStep \/ PushStep
    \/ (\E u \in User : AskSignIn(u)) \/ AskSignOut \/ ShowUser
    \/ (\E does \in {"register", "unregister"} : PressButton(does))
    \/ ServeLate \/ Restart

Spec == Init /\ [][Next]_vars

(***************************************************************************)
(* Properties.                                                             *)
(***************************************************************************)
\* A user who signed out after the clean-up was confirmed is not registered on
\* this installation any more, unless a request the client had given up was
\* served after all: what was being registered had ended by then.
CleanSignOut == clean \cap registered \subseteq strayed

\* The card tells a user of their own registration only.
CardTellsItsUser == card.told \in {NoUser, shown}

\* A sign-in asked for after a sign-out is not undone by it ("serializes
\* sign-in behind an active sign-out").
InOrder == current # NoUser /\ current' = NoUser => since < Head(auth).nr

\* Signing out, as a whole
SignedOutClean == [](CleanSignOut /\ CardTellsItsUser) /\ [][InOrder]_vars

\* What a sign-out abandoned writes no registration: invalidation "prevents a
\* late operation from persisting stale state".
LateWorkFenced ==
    [][\A i \in DOMAIN push :
         push[i].does = "register" /\ Fenced(i) /\ push[i].who \notin registered
           => \/ push[i].who \notin registered'
              \/ Len(push') = Len(push) /\ push'[i] = push[i]]_vars
=============================================================================
