------------------------------ MODULE Accounts ------------------------------
(***************************************************************************)
(* What one installation keeps of its user, and what administrators do:    *)
(* signing in by email, signing out, the profile, the identity             *)
(* verification, notification preferences, the state of synchronization;   *)
(* the roles that operators grant, the administrators' console and the     *)
(* smoke test of the deployed server.                                      *)
(*                                                                         *)
(* As in Participants these components keep no state in common, and a      *)
(* behaviour has one of them move.                                         *)
(***************************************************************************)
EXTENDS Naturals, Sequences, FiniteSets, TLC

CONSTANTS User, Nobody,                                              \* users of installations
          MaxPresses, MaxSessions, MaxRestarts,                      \* PushSession
          Email, NoEmail, MaxUid, MaxLinks,                          \* EmailSignIn
          Device, DocumentId, MaxDocuments, MaxEvents, MaxQueue,     \* IdentityVerification
          LocalWrite,                                                \* OfflineStatus
          Value, Default, Invalid, MaxRequests,                      \* NotificationPreferences
          Screens, Text, Blank, MaxTrust, MaxSignIns,                \* ProfileSetup
          Grantee, Operator, PasswordUser, MaxCommands,              \* RoleClaims
          Visitor, Anonymous, Given, MaxGeneration, MaxRoleChanges   \* AdminConsole

VARIABLE moving    \* the component that moves

\* PushSession
VARIABLES current, shown, auth, push, registrations, installation, card, registered,
          late, pressed, asked, restarts, clean, strayed, since

\* EmailSignIn
VARIABLES session, restored, owner, uids, links, pending, screen, op, adrift, starts,
          guest, left

\* IdentityVerification
VARIABLES record, queue, ahead

\* OfflineStatus
VARIABLES network, firstRead, connection, writes, pendingWrites, lastError, slowPending,
          phase, sync

\* NotificationPreferences
VARIABLES reader, requestId, reading, preferences, requests, draft, saving, failed, chosen

\* ProfileSetup
VARIABLES member, form, existing, loadingProfile, loadError, save, formError, home,
          profiles, signIns

\* RoleClaims
VARIABLES claim, token, command, commands, unrevoked

\* AdminConsole
VARIABLES role, signedIn, refreshable, page, arriving, loading, user, hookRefreshes,
          refreshing, generation, verification, calls, changes, vouched

\* SmokeRun
VARIABLES exists, roles, resources, next, stage, broken, unanswered, report

-----------------------------------------------------------------------------
Push == INSTANCE PushSession WITH generation <- registrations, NoUser <- Nobody

Link == INSTANCE EmailSignIn WITH restarts <- starts

Identity == INSTANCE IdentityVerification

Offline == INSTANCE OfflineStatus WITH Write <- LocalWrite

Prefs == INSTANCE NotificationPreferences WITH
  user <- reader, loading <- reading, shown <- preferences, calls <- requests,
  stored <- chosen

Setup == INSTANCE ProfileSetup WITH
  user <- member, loading <- loadingProfile, stored <- profiles

Claims == INSTANCE RoleClaims WITH session <- token, User <- Grantee

Console == INSTANCE AdminConsole WITH
  claim <- role, current <- signedIn, User <- Visitor

Smoke == INSTANCE SmokeRun WITH phase <- stage, failed <- broken

ASSUME PartsAssumption ==
  /\ Push!PushSessionAssumption /\ Link!EmailSignInAssumption
  /\ Identity!IdentityVerificationAssumption /\ Offline!OfflineStatusAssumption
  /\ Prefs!NotificationPreferencesAssumption /\ Setup!ProfileSetupAssumption
  /\ Claims!RoleClaimsAssumption /\ Console!AdminConsoleAssumption

-----------------------------------------------------------------------------
pushVars == <<current, shown, auth, push, registrations, installation, card, registered,
              late, pressed, asked, restarts, clean, strayed, since>>
emailVars == <<session, restored, owner, uids, links, pending, screen, op, adrift, starts,
               guest, left>>
identityVars == <<record, queue, ahead>>
offlineVars == <<network, firstRead, connection, writes, pendingWrites, lastError,
                 slowPending, phase, sync>>
preferenceVars == <<reader, requestId, reading, preferences, requests, draft, saving,
                    failed, chosen>>
profileVars == <<member, form, existing, loadingProfile, loadError, save, formError, home,
                 profiles, signIns>>
claimVars == <<claim, token, command, commands, unrevoked>>
consoleVars == <<role, signedIn, refreshable, page, arriving, loading, user, hookRefreshes,
                 refreshing, generation, verification, calls, changes, vouched>>
smokeVars == <<exists, roles, resources, next, stage, broken, unanswered, report>>

vars == <<moving, pushVars, emailVars, identityVars, offlineVars, preferenceVars,
          profileVars, claimVars, consoleVars, smokeVars>>

\* A component that does not move stays where it starts.  Where there are
\* several places to start from, one will do.
Init ==
  /\ moving \in {"push", "email", "identity", "offline", "preferences", "profile",
                 "claims", "console", "smoke"}
  /\ Push!Init /\ Link!Init /\ Identity!Init /\ Offline!Init /\ Prefs!Init
  /\ Setup!Init /\ Claims!Init /\ Console!Init /\ Smoke!Init
  /\ moving # "email" => uids = 0
  /\ moving # "identity" => ahead = {}
  /\ moving # "offline" => network = "online"
  /\ moving # "console" => \A u \in DOMAIN role : role[u] = "user"

-----------------------------------------------------------------------------
PushMoves ==
  /\ moving = "push" /\ Push!Next
  /\ UNCHANGED <<moving, emailVars, identityVars, offlineVars, preferenceVars, profileVars,
                 claimVars, consoleVars, smokeVars>>
EmailMoves ==
  /\ moving = "email" /\ Link!Next
  /\ UNCHANGED <<moving, pushVars, identityVars, offlineVars, preferenceVars, profileVars,
                 claimVars, consoleVars, smokeVars>>
IdentityMoves ==
  /\ moving = "identity" /\ Identity!Next
  /\ UNCHANGED <<moving, pushVars, emailVars, offlineVars, preferenceVars, profileVars,
                 claimVars, consoleVars, smokeVars>>
OfflineMoves ==
  /\ moving = "offline" /\ Offline!Next
  /\ UNCHANGED <<moving, pushVars, emailVars, identityVars, preferenceVars, profileVars,
                 claimVars, consoleVars, smokeVars>>
PreferencesMove ==
  /\ moving = "preferences" /\ Prefs!Next
  /\ UNCHANGED <<moving, pushVars, emailVars, identityVars, offlineVars, profileVars,
                 claimVars, consoleVars, smokeVars>>
ProfileMoves ==
  /\ moving = "profile" /\ Setup!Next
  /\ UNCHANGED <<moving, pushVars, emailVars, identityVars, offlineVars, preferenceVars,
                 claimVars, consoleVars, smokeVars>>
ClaimsMove ==
  /\ moving = "claims" /\ Claims!Next
  /\ UNCHANGED <<moving, pushVars, emailVars, identityVars, offlineVars, preferenceVars,
                 profileVars, consoleVars, smokeVars>>
ConsoleMoves ==
  /\ moving = "console" /\ Console!Next
  /\ UNCHANGED <<moving, pushVars, emailVars, identityVars, offlineVars, preferenceVars,
                 profileVars, claimVars, smokeVars>>
SmokeMoves ==
  /\ moving = "smoke" /\ Smoke!Next
  /\ UNCHANGED <<moving, pushVars, emailVars, identityVars, offlineVars, preferenceVars,
                 profileVars, claimVars, consoleVars>>

Next ==
  \/ PushMoves \/ EmailMoves \/ IdentityMoves \/ OfflineMoves \/ PreferencesMove
  \/ ProfileMoves \/ ClaimsMove \/ ConsoleMoves \/ SmokeMoves

Spec == Init /\ [][Next]_vars

\* No action tells one address from another.
EmailSymmetry == Permutations(Email)

-----------------------------------------------------------------------------
\* AuthSessionService.signOut gives the clean-up of the push registration a
\* time limit: a user whose clean-up was confirmed has no registration on this
\* installation any more, the card tells a user of their own only, and no
\* sign-in is undone by an earlier sign-out.
SignedOutClean ==
  /\ [](moving = "push" => Push!TypeOK /\ Push!CleanSignOut /\ Push!CardTellsItsUser)
  /\ [][moving = "push" => Push!InOrder]_pushVars

\* completeEmailLinkSignIn and the verify screen, over links opened, pasted and
\* repeated, answers lost after the server acted, and requests served late: the
\* session is that of the account that owns the address, a collision is reported
\* only with another account, and an anonymous account is left behind only by the
\* user's choice, or by a link handled before the session was restored.
AccountKept ==
  moving = "email" =>
    /\ Link!TypeOK /\ Link!SignedInAsOwner /\ Link!CollisionIsReal
    /\ Link!NothingLeftBehind

\* The login screen's promise that what the user has stays attached to the account
\* makes no exception for a link that starts the application.
AccountStays == moving = "email" => Link!StaysAttached

\* IdentityVerificationService, while writes of two devices wait: what is
\* reviewed is what was submitted, and the history accounts for the status.
ReviewedAsSubmitted ==
  /\ [](moving = "identity" => Identity!TypeOK /\ Identity!HistoryTellsStatus)
  /\ [][moving = "identity" => Identity!Extended /\ Identity!AsSubmitted]_identityVars

\* FirebaseOfflineStatusGateway, whatever writes begin and end: the phase shown
\* is what the error, the connection and the waiting writes add up to.
SyncTold == moving = "offline" => Offline!TypeOK /\ Offline!SyncTold

\* NotificationPreferenceService, while users change and answers come late: what is
\* stored as a user's preferences was shown as theirs.  ProfileService, with less:
\* the profile the form says it updates is the user's, no save touches the trust the
\* server gave, and Home follows a stored profile.  Of the details that a save
\* writes it says nothing: they may be those another user typed.
OwnDataStored ==
  /\ [](moving = "preferences" =>
          Prefs!TypeOK /\ Prefs!OwnPreferencesStored /\ Prefs!LoadingTellsRequest)
  /\ [](moving = "profile" => Setup!TypeOK /\ Setup!EditsOwnProfile)
  /\ [][moving = "preferences" => Prefs!ShowsCurrentUsers]_preferenceVars
  /\ [][moving = "profile" => Setup!TrustStays /\ Setup!StoredBeforeHome]_profileVars

\* RoleProvisioningService revokes the refresh tokens of whoever changes role, and
\* the callables, the rules and the console admit the same roles.
OldRolesRevoked == moving = "claims" => Claims!TypeOK /\ Claims!OldRolesRevoked /\ Claims!TablesAgree

\* The protected layout of the console: shown only after the server confirmed
\* a role to the user shown.
ConsoleAfterFreshRole == moving = "console" => Console!TypeOK /\ Console!ConsoleAfterFreshRole

\* The smoke test of the administrative hold, one step after another failing:
\* success leaves nothing behind, and what is left is reported.
SmokeLeavesNothing == moving = "smoke" => Smoke!TypeOK /\ Smoke!SmokeLeavesNothing
=============================================================================
