---------------------------- MODULE ProfileSetup -----------------------------
(***************************************************************************)
(* The profile-setup screen, ProfileService and profiles/{userId}: a form  *)
(* is filled from the stored profile, edited, and saved by reading the     *)
(* stored profile again and overwriting it, which the security rules check *)
(* against what is stored by then.  Several devices show the screen; users *)
(* come and go under it; calls are slow, fail, and may fail after the      *)
(* write; the server may give a trust score meanwhile.                     *)
(*                                                                         *)
(* The four fields of the form are one text, kept with the user who was    *)
(* signed in when it was typed or loaded.                                  *)
(***************************************************************************)
EXTENDS Naturals, FiniteSets

CONSTANTS User, Nobody,
          Screens,     \* devices that show the screen
          Text,        \* what may be typed
          Blank,       \* the text of an empty field
          MaxTrust,    \* bound on the trust scores that the server gives
          MaxSignIns   \* bound on the changes of the signed-in user

ProfileSetupAssumption ==
    /\ Nobody \notin User /\ Blank \notin Text
    /\ MaxTrust \in Nat /\ MaxSignIns \in Nat

VARIABLES user,      \* auth.user on each screen
          form,      \* the form
          existing,  \* existingProfile
          loading,   \* a reading of the profile is out: loadingProfile, ~profileReady
          loadError,
          save,      \* what handleSave is doing, or Idle
          formError,
          home,      \* the screen has gone to Home
          stored,    \* profiles/{userId}
          signIns    \* counted against MaxSignIns

screens == <<user, form, existing, loading, loadError, save, formError, home>>
vars == <<screens, stored, signIns>>

Details == [by : User, text : Text] \cup {[by |-> Nobody, text |-> Blank]}
Empty == [by |-> Nobody, text |-> Blank]

Profile == [userId : User, details : [by : User, text : Text], trust : 0..MaxTrust]
None == [userId |-> Nobody, details |-> Empty, trust |-> 0]

Idle == [step |-> "idle"]
Save == {Idle} \cup [step : {"read", "write", "answer"}, userId : User,
                     details : [by : User, text : Text], found : Profile \cup {None}]

TypeOK ==
    /\ user \in [Screens -> User \cup {Nobody}]
    /\ form \in [Screens -> Details]
    /\ existing \in [Screens -> Profile \cup {None}]
    /\ loading \in [Screens -> BOOLEAN] /\ loadError \in [Screens -> BOOLEAN]
    /\ save \in [Screens -> Save] /\ formError \in [Screens -> BOOLEAN]
    /\ home \in [Screens -> BOOLEAN]
    /\ stored \in [User -> Profile \cup {None}] /\ signIns \in 0..MaxSignIns
    /\ \A s \in Screens : ~(loading[s] /\ loadError[s])

Init ==
    /\ user = [s \in Screens |-> Nobody] /\ form = [s \in Screens |-> Empty]
    /\ existing = [s \in Screens |-> None] /\ loading = [s \in Screens |-> FALSE]
    /\ loadError = [s \in Screens |-> FALSE] /\ save = [s \in Screens |-> Idle]
    /\ formError = [s \in Screens |-> FALSE] /\ home = [s \in Screens |-> FALSE]
    /\ stored = [u \in User |-> None] /\ signIns = 0

(***************************************************************************)
(* The screen.                                                             *)
(***************************************************************************)
\* The form can be used: somebody is signed in and the profile was read.
Shown(s) == user[s] # Nobody /\ ~loading[s] /\ ~loadError[s] /\ ~home[s]

\* A session is reported: another user, nobody, or the same user anew.  A
\* reading that is out is forgotten; the form stays as it is.
SessionChanges(s, u) ==
    /\ ~home[s] /\ (u # Nobody \/ user[s] # Nobody)
    /\ signIns < MaxSignIns /\ signIns' = signIns + 1
    /\ user' = [user EXCEPT ![s] = u]
    /\ loading' = [loading EXCEPT ![s] = (u # Nobody)]
    /\ loadError' = [loadError EXCEPT ![s] = (@ /\ u = Nobody)]
    /\ UNCHANGED <<form, existing, save, formError, home, stored>>

\* The profile arrives: it fills the form, the absence of one does not.
Loaded(s) ==
    /\ loading[s] /\ ~home[s]
    /\ LET profile == stored[user[s]]
       IN /\ existing' = [existing EXCEPT ![s] = profile]
          /\ form' = [form EXCEPT ![s] = IF profile = None THEN @ ELSE profile.details]
          /\ loading' = [loading EXCEPT ![s] = FALSE]
    /\ UNCHANGED <<user, loadError, save, formError, home, stored, signIns>>

NotLoaded(s) ==
    /\ loading[s] /\ ~home[s]
    /\ loading' = [loading EXCEPT ![s] = FALSE]
    /\ loadError' = [loadError EXCEPT ![s] = TRUE]
    /\ UNCHANGED <<user, form, existing, save, formError, home, stored, signIns>>

Retry(s) ==
    /\ loadError[s] /\ user[s] # Nobody /\ ~home[s]
    /\ loading' = [loading EXCEPT ![s] = TRUE]
    /\ loadError' = [loadError EXCEPT ![s] = FALSE]
    /\ UNCHANGED <<user, form, existing, save, formError, home, stored, signIns>>

\* The fields can be typed into even while a save is under way.
Type(s, text) ==
    /\ Shown(s) /\ form[s] # [by |-> user[s], text |-> text]
    /\ form' = [form EXCEPT ![s] = [by |-> user[s], text |-> text]]
    /\ UNCHANGED <<user, existing, loading, loadError, save, formError, home, stored, signIns>>

\* A form with an empty field is not saved.
handleSave(s) ==
    /\ Shown(s) /\ save[s] = Idle /\ form[s].text # Blank
    /\ save' = [save EXCEPT ![s] = [step |-> "read", userId |-> user[s],
                                    details |-> form[s], found |-> None]]
    /\ formError' = [formError EXCEPT ![s] = FALSE]
    /\ UNCHANGED <<user, form, existing, loading, loadError, home, stored, signIns>>

(***************************************************************************)
(* ProfileService.saveProfile and the rules.                               *)
(***************************************************************************)
ReadExisting(s) ==
    /\ save[s].step = "read" /\ user[s] = save[s].userId
    /\ save' = [save EXCEPT ![s].step = "write", ![s].found = stored[save[s].userId]]
    /\ UNCHANGED <<user, form, existing, loading, loadError, formError, home, stored, signIns>>

\* The rules of profiles/{userId}: the trust score is not the client's.
Allowed(by, old, new) ==
    /\ by = new.userId
    /\ IF old = None THEN new.trust = 0 ELSE new.trust = old.trust

\* The new profile takes the score that was read; 0 stands for none.
Write(s) ==
    /\ save[s].step = "write" /\ user[s] = save[s].userId
    /\ LET u == save[s].userId
           new == [userId |-> u, details |-> save[s].details, trust |-> save[s].found.trust]
       IN /\ Allowed(user[s], stored[u], new)
          /\ stored' = [stored EXCEPT ![u] = new]
    /\ save' = [save EXCEPT ![s].step = "answer"]
    /\ UNCHANGED <<user, form, existing, loading, loadError, formError, home, signIns>>

\* The profile was read back, and the screen goes to Home, whoever is signed
\* in by then.
Saved(s) ==
    /\ save[s].step = "answer"
    /\ save' = [save EXCEPT ![s] = Idle]
    /\ home' = [home EXCEPT ![s] = TRUE]
    /\ UNCHANGED <<user, form, existing, loading, loadError, formError, stored, signIns>>

\* A call fails, or the rules refuse the write, or another user is signed in.
NotSaved(s) ==
    /\ save[s] # Idle
    /\ save' = [save EXCEPT ![s] = Idle]
    /\ formError' = [formError EXCEPT ![s] = TRUE]
    /\ UNCHANGED <<user, form, existing, loading, loadError, home, stored, signIns>>

\* The screen is opened again from Home.
Reopen(s) ==
    /\ home[s] /\ user[s] # Nobody
    /\ home' = [home EXCEPT ![s] = FALSE]
    /\ form' = [form EXCEPT ![s] = Empty] /\ existing' = [existing EXCEPT ![s] = None]
    /\ loading' = [loading EXCEPT ![s] = TRUE] /\ loadError' = [loadError EXCEPT ![s] = FALSE]
    /\ formError' = [formError EXCEPT ![s] = FALSE]
    /\ UNCHANGED <<user, save, stored, signIns>>

\* Trusted code gives a profile another trust score.
GiveTrust(u, t) ==
    /\ stored[u] # None /\ stored[u].trust # t
    /\ stored' = [stored EXCEPT ![u].trust = t]
    /\ UNCHANGED <<screens, signIns>>

Calls(s) == ReadExisting(s) \/ Write(s) \/ Saved(s) \/ NotSaved(s)

Next ==
    \/ \E s \in Screens :
          \/ \E u \in User \cup {Nobody} : SessionChanges(s, u)
          \/ Loaded(s) \/ NotLoaded(s) \/ Retry(s) \/ Reopen(s) \/ handleSave(s)
          \/ \E t \in Text : Type(s, t)
          \/ Calls(s)
    \/ \E u \in User, t \in 1..MaxTrust : GiveTrust(u, t)

Spec == Init /\ [][Next]_vars

(***************************************************************************)
(* Properties.                                                             *)
(***************************************************************************)
\* While the form of a stored profile can be used, the profile it says it
\* updates is one of the user signed in, although users come and go while
\* readings are out.
EditsOwnProfile ==
    \A s \in Screens : Shown(s) /\ existing[s] # None => existing[s].userId = user[s]

\* No save changes a trust score, however old the profile is that it read.
TrustStays ==
    \A u \in User :
        stored'[u] # stored[u] /\ stored'[u].details # stored[u].details =>
            stored'[u].trust = stored[u].trust

\* The screen goes to Home only after the profile of the saving user is there.
StoredBeforeHome ==
    \A s \in Screens : ~home[s] /\ home'[s] => stored[save[s].userId] # None

\* The screen and what is stored, as a whole
OwnDataStored == []EditsOwnProfile /\ [][TrustStays /\ StoredBeforeHome]_vars

\* "Profiles can only be saved for the active user": the details saved for a
\* user were typed or loaded as that user.
OwnDetailsStored ==
    \A u \in User : stored[u] # None => stored[u].details.by = u
=============================================================================
