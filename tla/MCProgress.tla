----------------------------- MODULE MCProgress -----------------------------
(***************************************************************************)
(* The components whose users wait for something, for TLC: small instances *)
(* of them under the fairness each of them states.  As in Participants     *)
(* and Accounts they share no state, and a behaviour has one of them move. *)
(***************************************************************************)
EXTENDS Matching, Sequences, TLC

CONSTANTS ann, bob, anon, nobody   \* accounts, one of them anonymous

VARIABLE moving    \* the component that moves

\* PushSession
VARIABLES current, shown, auth, push, registrations, installation, card, registered,
          late, pressed, asked, restarts, clean, strayed, since

\* EmailSignIn
VARIABLES session, restored, owner, uids, links, pending, screen, op, adrift, starts,
          guest, left

\* OfflineStatus
VARIABLES network, firstRead, connection, writes, pendingWrites, lastError, slowPending,
          phase, sync

\* NotificationPreferences
VARIABLES reader, requestId, reading, preferences, requests, draft, saving, failed, chosen

\* ProfileSetup
VARIABLES member, form, existing, loadingProfile, loadError, save, formError, home,
          profiles, signIns

\* AdminConsole
VARIABLES role, signedIn, refreshable, page, arriving, loading, user, hookRefreshes,
          refreshing, generation, verification, calls, changes, vouched

\* MatchDiscovery
VARIABLES listed, known, online, evidence, owned, listLoading, filters, queries,
          asking, matches, matching, unmatched, edits

\* Reputation
VARIABLES outcome, reviews, forms, announced, reputations, owed, tasks, crashes

-----------------------------------------------------------------------------
Push == INSTANCE PushSession WITH
  generation <- registrations,
  User <- {ann}, NoUser <- nobody, MaxPresses <- 1, MaxSessions <- 3, MaxRestarts <- 1

Email == INSTANCE EmailSignIn WITH
  restarts <- starts,
  Email <- {"work"}, NoEmail <- "none", MaxUid <- 3, MaxLinks <- 1,
  MaxRestarts <- 1

Offline == INSTANCE OfflineStatus WITH Write <- {"w1", "w2"}

Preferences == INSTANCE NotificationPreferences WITH
  user <- reader, loading <- reading, shown <- preferences, calls <- requests,
  stored <- chosen,
  User <- {ann, bob}, Nobody <- nobody, Value <- {"off", "on", "sameTimes"},
  Default <- "off", Invalid <- {"sameTimes"}, MaxRequests <- 5

Profile == INSTANCE ProfileSetup WITH
  user <- member, loading <- loadingProfile, stored <- profiles,
  User <- {ann, bob}, Nobody <- nobody, Screens <- {"phone"},
  Text <- {"long"}, Blank <- "", MaxTrust <- 1, MaxSignIns <- 3

Console == INSTANCE AdminConsole WITH
  claim <- role, current <- signedIn,
  User <- {ann, bob, anon}, Nobody <- nobody, Anonymous <- {anon},
  Given <- {"user", "moderator"}, MaxGeneration <- 5, MaxRoleChanges <- 1

Here == [originCountry |-> "ke", originCity |-> "nairobi",
         destinationCountry |-> "uk", destinationCity |-> "london"]
Card(eligible, most) ==
  [category |-> {}, eligibleOnly |-> eligible, maximumResults |-> most,
   minimumScore |-> 0, verifiedOnly |-> FALSE]

Discovery == INSTANCE MatchDiscovery WITH
  connection <- online, current <- asking, loading <- matching, failed <- unmatched,
  changes <- edits,
  Shipment <- <<[owner |-> "sender", route |-> Here, category |-> "documents",
                 window |-> [start |-> 10, end |-> 14], weight |-> 1]>>,
  Trip <- <<[owner |-> "tom", route |-> Here, departure |-> 11, arrival |-> 12,
             capacity |-> 5]>>,
  CardChoices <- {Card(TRUE, 1), Card(FALSE, 2)}, DefaultChoice <- Card(TRUE, 1),
  EvidenceSet <- {[completed |-> 5, identity |-> Hidden, trust |-> 8000]},
  MaxQueries <- 2, MaxChanges <- 1

\* Two devices of one participant; a run of the server dies.
Reviews == INSTANCE Reputation WITH
  status <- outcome,
  Users <- {"ann", "ben"}, Devices <- {"phone", "tablet"},
  Owner <- [d \in {"phone", "tablet"} |-> "ann"],
  Bookings <- {"b1"}, SenderOf <- "b1" :> "ann", TravelerOf <- "b1" :> "ben",
  Ratings <- {5}, Sought <- {}, MaxCrashes <- 1

ASSUME InstancesAssumption ==
  /\ Push!PushSessionAssumption /\ Email!EmailSignInAssumption
  /\ Offline!OfflineStatusAssumption
  /\ Preferences!NotificationPreferencesAssumption /\ Profile!ProfileSetupAssumption
  /\ Console!AdminConsoleAssumption /\ Discovery!MatchDiscoveryAssumption
  /\ Reviews!ReputationAssumption

-----------------------------------------------------------------------------
pushVars == <<current, shown, auth, push, registrations, installation, card, registered,
              late, pressed, asked, restarts, clean, strayed, since>>
emailVars == <<session, restored, owner, uids, links, pending, screen, op, adrift, starts,
               guest, left>>
offlineVars == <<network, firstRead, connection, writes, pendingWrites, lastError,
                 slowPending, phase, sync>>
preferenceVars == <<reader, requestId, reading, preferences, requests, draft, saving,
                    failed, chosen>>
profileVars == <<member, form, existing, loadingProfile, loadError, save, formError, home,
                 profiles, signIns>>
consoleVars == <<role, signedIn, refreshable, page, arriving, loading, user, hookRefreshes,
                 refreshing, generation, verification, calls, changes, vouched>>
discoveryVars == <<listed, known, online, evidence, owned, listLoading, filters,
                   queries, asking, matches, matching, unmatched, edits>>
reviewVars == <<outcome, reviews, forms, announced, reputations, owed, tasks, crashes>>

vars == <<moving, pushVars, emailVars, offlineVars, preferenceVars, profileVars,
          consoleVars, discoveryVars, reviewVars>>

\* A component that does not move stays where it starts.  Where there are
\* several places to start from, one will do.
Init ==
  /\ moving \in {"push", "email", "offline", "preferences", "profile", "console",
                 "discovery", "reviews"}
  /\ Push!Init /\ Email!Init /\ Offline!Init /\ Preferences!Init /\ Profile!Init
  /\ Console!Init /\ Discovery!Init /\ Reviews!Init
  /\ moving # "email" => uids = 0
  /\ moving # "offline" => network = "online"
  /\ moving # "console" => \A u \in DOMAIN role : role[u] = "user"
  /\ moving # "discovery" => online = "online"

-----------------------------------------------------------------------------
OthersThanPush ==
  UNCHANGED <<moving, emailVars, offlineVars, preferenceVars, profileVars, consoleVars,
              discoveryVars, reviewVars>>
OthersThanEmail ==
  UNCHANGED <<moving, pushVars, offlineVars, preferenceVars, profileVars, consoleVars,
              discoveryVars, reviewVars>>
OthersThanOffline ==
  UNCHANGED <<moving, pushVars, emailVars, preferenceVars, profileVars, consoleVars,
              discoveryVars, reviewVars>>
OthersThanPreferences ==
  UNCHANGED <<moving, pushVars, emailVars, offlineVars, profileVars, consoleVars,
              discoveryVars, reviewVars>>
OthersThanProfile ==
  UNCHANGED <<moving, pushVars, emailVars, offlineVars, preferenceVars, consoleVars,
              discoveryVars, reviewVars>>
OthersThanConsole ==
  UNCHANGED <<moving, pushVars, emailVars, offlineVars, preferenceVars, profileVars,
              discoveryVars, reviewVars>>
OthersThanDiscovery ==
  UNCHANGED <<moving, pushVars, emailVars, offlineVars, preferenceVars, profileVars,
              consoleVars, reviewVars>>
OthersThanReviews ==
  UNCHANGED <<moving, pushVars, emailVars, offlineVars, preferenceVars, profileVars,
              consoleVars, discoveryVars>>

PushMoves == moving = "push" /\ Push!Next /\ OthersThanPush
EmailMoves == moving = "email" /\ Email!Next /\ OthersThanEmail
OfflineMoves == moving = "offline" /\ Offline!Next /\ OthersThanOffline
PreferencesMove == moving = "preferences" /\ Preferences!Next /\ OthersThanPreferences
ProfileMoves == moving = "profile" /\ Profile!Next /\ OthersThanProfile
ConsoleMoves == moving = "console" /\ Console!Next /\ OthersThanConsole
DiscoveryMoves == moving = "discovery" /\ Discovery!Next /\ OthersThanDiscovery
ReviewsMove == moving = "reviews" /\ Reviews!Next /\ OthersThanReviews

Next ==
  \/ PushMoves \/ EmailMoves \/ OfflineMoves \/ PreferencesMove \/ ProfileMoves
  \/ ConsoleMoves \/ DiscoveryMoves \/ ReviewsMove

\* What the components are owed: the provider's library answers or gives up, and a
\* timer goes off; Firestore answers reads, and writes when the network is there now
\* and then; the platform runs triggers until they succeed.  A callable function is
\* owed nothing, nobody limits how long it takes; none is waited for here.
FairSpec ==
  /\ Init /\ [][Next]_vars
  /\ WF_vars(moving = "push" /\ Push!AuthStep /\ OthersThanPush)
  /\ WF_vars(moving = "email" /\ Email!Handle /\ OthersThanEmail)
  /\ WF_vars(moving = "offline" /\ Offline!SyncDone /\ OthersThanOffline)
  /\ \A w \in {"w1", "w2"} :
       SF_vars(/\ moving = "offline" /\ (Offline!Finish(w, TRUE) \/ Offline!Finish(w, FALSE))
               /\ OthersThanOffline)
  /\ WF_vars(/\ moving = "preferences"
             /\ \E c \in requests :
                  Preferences!Serve(c) \/ Preferences!Answer(c) \/ Preferences!Fail(c)
             /\ OthersThanPreferences)
  /\ WF_vars(moving = "profile" /\ Profile!Calls("phone") /\ OthersThanProfile)
  /\ WF_vars(moving = "console" /\ Console!SessionArrives /\ OthersThanConsole)
  /\ WF_vars(moving = "console" /\ Console!Redirect /\ OthersThanConsole)
  /\ WF_vars(/\ moving = "console" /\ \E c \in calls : Console!Serve(c) \/ Console!Answer(c)
             /\ OthersThanConsole)
  /\ \A n \in 1..2 :
       WF_vars(/\ moving = "discovery" /\ n <= Len(queries) /\ Discovery!Answers(n)
               /\ OthersThanDiscovery)
  /\ WF_vars(/\ moving = "discovery" /\ listLoading
             /\ Discovery!WatchFails \/ Discovery!Deliver({}) \/ Discovery!Deliver({1})
             /\ OthersThanDiscovery)
  /\ \A e \in Reviews!Events :
       /\ WF_vars(moving = "reviews" /\ e \in owed /\ Reviews!HandleEvent(e)
                  /\ OthersThanReviews)
       /\ WF_vars(/\ moving = "reviews" /\ \E t \in tasks : t.for = e /\ Reviews!Recalculate(t)
                  /\ OthersThanReviews)

-----------------------------------------------------------------------------
\* What shows its user that it is under way: a sign-out, the verification of an
\* email link, the banner of a sync, the cards of preferences and profile that
\* save, the console that loads, and recommendations.
Waiting ==
  \/ moving = "push" /\ \E i \in DOMAIN auth : auth[i].does = "out"
  \/ moving = "email" /\ screen.verifying # Email!NoLink
  \/ moving = "offline" /\ sync.running
  \/ moving = "preferences" /\ saving
  \/ moving = "profile" /\ save["phone"] # Profile!Idle
  \/ moving = "console" /\ Console!Spinner
  \/ moving = "discovery" /\ matching

\* It comes to an end, if the network is there now and then: although a
\* clean-up hangs, answers to a completed link are lost, new writes keep coming,
\* the user of a save leaves, users change under the refreshes of the console, and
\* queries overtake each other.
WaitsEnd == []<>(network = "online") => (Waiting ~> ~Waiting)

\* A review whose trigger is still owed enters the record of its subject,
\* although runs of the server die.
ReviewsGetCounted == Reviews!ReviewsGetCounted
=============================================================================
