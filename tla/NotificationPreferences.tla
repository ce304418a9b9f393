---------------------- MODULE NotificationPreferences -----------------------
(***************************************************************************)
(* The preferences card of the profile screen: useNotificationPreferences  *)
(* loads and saves through NotificationPreferenceService, the card keeps a *)
(* draft.  Users change under the mounted screen, calls are answered late, *)
(* and an answer may be lost after its write was stored.                   *)
(***************************************************************************)
EXTENDS Naturals, FiniteSets

CONSTANTS User, Nobody,
          Value,        \* what may be chosen
          Default,      \* createDefaultNotificationPreferences
          Invalid,      \* choices that assertNotificationPreferences refuses
          MaxRequests   \* bound on the requests of the hook

NotificationPreferencesAssumption ==
    /\ Nobody \notin User /\ Invalid \subseteq Value /\ Default \in Value \ Invalid
    /\ MaxRequests \in Nat

VARIABLES user,       \* auth.user
          requestId,  \* requestId.current
          loading,    \* the hook is loading
          shown,      \* the hook's preferences
          calls,      \* calls of the service that have not been answered
          draft,      \* the card's draft
          saving,     \* the card is saving
          failed,     \* the card shows an error
          stored      \* notificationPreferences/{userId}

vars == <<user, requestId, loading, shown, calls, draft, saving, failed, stored>>

Preferences == [userId : User, value : Value]
None == [userId |-> Nobody, value |-> Default]
Mounted == shown # None

Call == [id : 1..MaxRequests, does : {"load", "save"}, userId : User,
         data : Preferences \cup {None}, served : BOOLEAN,
         card : BOOLEAN]   \* the card that saves is still on the screen

TypeOK ==
    /\ user \in User \cup {Nobody} /\ requestId \in 0..MaxRequests
    /\ loading \in BOOLEAN /\ saving \in BOOLEAN /\ failed \in BOOLEAN
    /\ shown \in Preferences \cup {None} /\ draft \in Preferences \cup {None}
    /\ calls \subseteq Call
    /\ \A c, d \in calls : c.id = d.id => c = d
    /\ stored \in [User -> Preferences \cup {None}]
    /\ Mounted => draft # None
    /\ saving => Mounted

Init ==
    /\ user = Nobody /\ requestId = 0 /\ loading = FALSE /\ shown = None
    /\ calls = {} /\ draft = None /\ saving = FALSE /\ failed = FALSE
    /\ stored = [u \in User |-> None]

Current(c) == c.id = requestId

(***************************************************************************)
(* useNotificationPreferences.                                             *)
(***************************************************************************)

\* Another user, or nobody: what was asked before is out of date.  The old
\* user's preferences stay on the screen until the new ones come.
UserChanges(u) ==
    /\ u # user /\ requestId + 2 <= MaxRequests
    /\ user' = u /\ requestId' = requestId + 2
    /\ IF u = Nobody
       THEN /\ loading' = FALSE /\ shown' = None /\ draft' = None
            /\ saving' = FALSE /\ failed' = FALSE
            /\ calls' = {[c EXCEPT !.card = FALSE] : c \in calls}
       ELSE /\ loading' = TRUE
            /\ calls' = calls \cup {[id |-> requestId + 2, does |-> "load", userId |-> u,
                                     data |-> None, served |-> FALSE, card |-> FALSE]}
            /\ UNCHANGED <<shown, draft, saving, failed>>
    /\ UNCHANGED stored

\* New preferences of the hook become the card's draft.
Show(p) == shown' = p /\ draft' = p

savePreferencesMutant(u, p) ==
    p.value \notin Invalid

\* The service saves valid preferences of the active user only.
savePreferences(u, p) ==
    p.value \notin Invalid /\ p.userId = u

\* The card's button.  What the service refuses at once is never sent.
Save ==
    /\ Mounted /\ draft # shown /\ ~loading /\ ~saving /\ requestId < MaxRequests
    /\ requestId' = requestId + 1
    /\ IF user # Nobody /\ savePreferences(user, draft)
       THEN /\ loading' = TRUE /\ saving' = TRUE /\ failed' = FALSE
            /\ calls' = calls \cup {[id |-> requestId + 1, does |-> "save", userId |-> user,
                                     data |-> draft, served |-> FALSE, card |-> TRUE]}
       ELSE /\ failed' = TRUE /\ UNCHANGED <<loading, saving, calls>>
    /\ UNCHANGED <<user, shown, draft, stored>>

\* The server answers a reading, with the default if nothing is stored, or
\* stores a write.
Serve(c) ==
    /\ ~c.served
    /\ LET data == IF c.does = "save" THEN c.data
                   ELSE IF stored[c.userId] # None THEN stored[c.userId]
                   ELSE [userId |-> c.userId, value |-> Default]
       IN calls' = (calls \ {c}) \cup {[c EXCEPT !.served = TRUE, !.data = data]}
    /\ stored' = IF c.does = "save" THEN [stored EXCEPT ![c.userId] = c.data] ELSE stored
    /\ UNCHANGED <<user, requestId, loading, shown, draft, saving, failed>>

\* The answer reaches the hook, which takes it if it is the current one, and
\* the card, which takes a save's answer whoever is signed in by then.
Answer(c) ==
    /\ c.served
    /\ calls' = calls \ {c}
    /\ IF Current(c)
       THEN loading' = FALSE /\ Show(c.data)
       ELSE /\ draft' = IF c.card THEN c.data ELSE draft
            /\ UNCHANGED <<loading, shown>>
    /\ saving' = (saving /\ ~c.card)
    /\ failed' = (failed /\ ~Current(c))
    /\ UNCHANGED <<user, requestId, stored>>

\* The call fails, before or after the server has done its part.
Fail(c) ==
    /\ calls' = calls \ {c}
    /\ loading' = (loading /\ ~Current(c))
    /\ saving' = (saving /\ ~c.card)
    /\ failed' = (failed \/ c.card)
    /\ UNCHANGED <<user, requestId, shown, draft, stored>>

(***************************************************************************)
(* The card.                                                               *)
(***************************************************************************)
\* A choice; the text fields take it even while a call is under way.
Edit(v) ==
    /\ Mounted /\ draft.value # v
    /\ draft' = [draft EXCEPT !.value = v]
    /\ UNCHANGED <<user, requestId, loading, shown, calls, saving, failed, stored>>

Reset ==
    /\ Mounted /\ draft # shown /\ ~loading /\ ~saving
    /\ draft' = shown /\ failed' = FALSE
    /\ UNCHANGED <<user, requestId, loading, shown, calls, saving, stored>>

Next ==
    \/ \E u \in User \cup {Nobody} : UserChanges(u)
    \/ \E v \in Value : Edit(v)
    \/ Save \/ Reset
    \/ \E c \in calls : Serve(c) \/ Answer(c) \/ Fail(c)

Spec == Init /\ [][Next]_vars

(***************************************************************************)
(* Properties.                                                             *)
(***************************************************************************)
\* What is stored for a user was shown and chosen as that user's, although a
\* late answer may leave another user's draft on the card.
OwnPreferencesStored ==
    \A u \in User : stored[u] # None => stored[u].userId = u

\* The hook says that it loads exactly while its current request is out.
LoadingTellsRequest == loading <=> \E c \in calls : Current(c)

\* The preferences shown change only to those of the user signed in.
ShowsCurrentUsers == shown' # shown /\ shown' # None => shown'.userId = user

\* The card and what is stored, as a whole
OwnDataStored == [](OwnPreferencesStored /\ LoadingTellsRequest) /\ [][ShowsCurrentUsers]_vars
=============================================================================
