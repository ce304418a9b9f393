---------------------------- MODULE AdminConsole -----------------------------
(***************************************************************************)
(* The administrators' console: admin-login, access-denied and the         *)
(* protected layout, in which useAdminLayoutController asks useAuthSession *)
(* to refresh the user's token before it shows the console.  Users change  *)
(* under the layout (another tab signs in or out), roles are given and     *)
(* taken away (RoleClaims), and refreshes fail.                            *)
(***************************************************************************)
EXTENDS Naturals, RolePermissions

CONSTANTS User, Nobody, Anonymous,
          Given,            \* the roles that users may have
          MaxGeneration,    \* bound on refreshes and changes of identity
          MaxRoleChanges    \* bound on the operators' changes

AdminConsoleAssumption ==
    /\ Nobody \notin User /\ Anonymous \subseteq User
    /\ "user" \in Given /\ Given \subseteq Role /\ MaxRoleChanges \in Nat
    /\ MaxGeneration \in Nat \ {0, 1}    \* opening the console takes two

VARIABLES claim,         \* the roles the server has
          current,       \* auth.currentUser
          refreshable,   \* its refresh token has not been revoked
          page,          \* what the browser shows
          arriving,      \* the session the subscription is about to report
          loading,       \* useAuthSession has no session yet
          user,          \* useAuthSession's user
          hookRefreshes, \* generationRef of useAuthSession
          refreshing,    \* useAuthSession is refreshing
          generation,    \* refreshGenerationRef of the controller
          verification,  \* verificationState
          calls,         \* refreshes that have not been answered
          changes,       \* changes of roles so far
          vouched        \* history: the server confirmed a role with
                         \* permissions to the user shown, since it is shown

shell == <<page, loading, user, hookRefreshes, refreshing, generation, verification, calls>>
vars == <<claim, current, refreshable, page, arriving, loading, user, hookRefreshes,
          refreshing, generation, verification, calls, changes, vouched>>

NoArrival == [arriving |-> FALSE]
Verification == [status : {"idle"}]
    \cup [status : {"checking", "verified", "failed"}, uid : User, role : Role]
Call == [hook : Nat, layout : Nat, expected : User, asked : User \cup {Nobody},
         vouches : BOOLEAN, result : Role \cup {"waiting", "null", "error"}]

\* The controller's state, as a record: what one event and the rendering and
\* the effects that follow it do together.
View == [user |-> user, loading |-> loading, refreshing |-> refreshing,
         hook |-> hookRefreshes, generation |-> generation,
         verification |-> verification, calls |-> calls, vouched |-> vouched]
Becomes(v) ==
    /\ user' = v.user /\ loading' = v.loading /\ refreshing' = v.refreshing
    /\ hookRefreshes' = v.hook /\ generation' = v.generation
    /\ verification' = v.verification /\ calls' = v.calls /\ vouched' = v.vouched

Fresh == [user |-> Nobody, loading |-> TRUE, refreshing |-> FALSE, hook |-> 0,
          generation |-> 0, verification |-> [status |-> "idle"], calls |-> {},
          vouched |-> FALSE]

TypeOK ==
    /\ claim \in [User -> Given] /\ current \in User \cup {Nobody}
    /\ refreshable \in BOOLEAN /\ page \in {"login", "console", "denied"}
    /\ arriving \in User \cup {Nobody, NoArrival} /\ user \in User \cup {Nobody}
    /\ loading \in BOOLEAN /\ refreshing \in BOOLEAN /\ vouched \in BOOLEAN
    /\ generation \in 0..MaxGeneration /\ hookRefreshes \in 0..MaxGeneration
    /\ verification \in Verification /\ calls \subseteq Call
    /\ changes \in 0..MaxRoleChanges
    /\ refreshing <=> calls # {}    \* one refresh at a time

Init ==
    /\ claim \in [User -> Given] /\ \A u \in Anonymous : claim[u] = "user"
    /\ current = Nobody /\ refreshable = FALSE /\ page = "login" /\ arriving = NoArrival
    /\ user = Nobody /\ loading = TRUE /\ refreshing = FALSE /\ hookRefreshes = 0
    /\ generation = 0 /\ verification = [status |-> "idle"] /\ calls = {}
    /\ vouched = FALSE /\ changes = 0

(***************************************************************************)
(* The controller.                                                         *)
(***************************************************************************)
Matches(v) == v.verification.status # "idle" /\ v.verification.uid = v.user

\* triggerRefresh and, up to its first await, refreshAuthorization.
triggerRefresh(v) ==
    [v EXCEPT !.verification = [status |-> "checking", uid |-> v.user, role |-> "user"],
              !.generation = @ + 1, !.hook = @ + 1, !.refreshing = TRUE,
              !.calls = @ \cup {[hook |-> v.hook + 1, layout |-> v.generation + 1,
                                 expected |-> v.user, asked |-> current, vouches |-> TRUE,
                                 result |-> "waiting"]}]

\* The effect that starts a refresh when the layout is rendered.
Effects(v) ==
    IF v.loading \/ v.refreshing \/ v.user = Nobody \/ v.user \in Anonymous \/ Matches(v)
    THEN v ELSE triggerRefresh(v)

IdentityChangedMutant(v, u) ==
    IF u = v.user THEN v
    ELSE [v EXCEPT !.user = u, !.verification = [status |-> "idle"], !.vouched = FALSE,
                   !.calls = {[c EXCEPT !.vouches = FALSE] : c \in v.calls}]

\* Another user is rendered: earlier refreshes are out of date.
IdentityChanged(v, u) ==
    IF u = v.user THEN v
    ELSE [v EXCEPT !.user = u, !.generation = @ + 1,
                   !.verification = [status |-> "idle"], !.vouched = FALSE,
                   !.calls = {[c EXCEPT !.vouches = FALSE] : c \in v.calls}]

\* The subscription reports a session to the layout's useAuthSession.
SessionArrives ==
    /\ page = "console" /\ arriving # NoArrival
    /\ Becomes(Effects([IdentityChanged(View, arriving) EXCEPT !.loading = FALSE]))
    /\ arriving' = NoArrival
    /\ UNCHANGED <<claim, current, refreshable, page, changes>>

\* refreshAuthorization's forced refresh; a signed-out provider has no user to
\* ask for, and a failure is never taken for the role of an ordinary user.
Serve(c) ==
    /\ c.result = "waiting"
    /\ \E r \in {"error"} \cup
              (IF c.asked = Nobody THEN {"null"}
               ELSE IF c.asked = current /\ ~refreshable THEN {} ELSE {claim[c.asked]}) :
          /\ calls' = (calls \ {c}) \cup {[c EXCEPT !.result = r]}
          /\ vouched' = (vouched \/ (c.vouches /\ c.asked = user /\ r \in Role
                                       /\ ClientPermissions(r) # {}))
    /\ UNCHANGED <<claim, current, refreshable, page, arriving, loading, user, hookRefreshes,
                   refreshing, generation, verification, changes>>

\* The answer counts if nothing happened since; it verifies if it is the
\* expected user's and useAuthSession has not started another refresh.
Verified(v, c) ==
    IF c.layout # v.generation \/ v.user # c.expected THEN v.verification
    ELSE IF c.hook = v.hook /\ c.asked = c.expected /\ c.result \in Role
    THEN [status |-> "verified", uid |-> c.expected, role |-> c.result]
    ELSE [status |-> "failed", uid |-> c.expected, role |-> "user"]

Answer(c) ==
    /\ page = "console" /\ c.result # "waiting"
    /\ Becomes(Effects([View EXCEPT !.calls = @ \ {c},
                                    !.refreshing = @ /\ c.hook # hookRefreshes,
                                    !.verification = Verified(View, c)]))
    /\ UNCHANGED <<claim, current, refreshable, page, arriving, changes>>

(***************************************************************************)
(* What the layout shows.                                                  *)
(***************************************************************************)
IsVerified == verification.status = "verified" /\ verification.uid = user
Error == verification.status = "failed" /\ verification.uid = user

evaluateAdminRouteDecision ==
    IF loading \/ refreshing THEN "loading"
    ELSE IF Error THEN "authorization-error"
    ELSE IF user = Nobody THEN "sign-in-required"
    ELSE IF user \in Anonymous THEN "anonymous-denied"
    ELSE IF ~IsVerified THEN "loading"
    ELSE IF ClientPermissions(verification.role) # {} THEN "allowed" ELSE "access-denied"

OnConsole(decision) == page = "console" /\ evaluateAdminRouteDecision = decision
Slot == OnConsole("allowed")
Spinner == OnConsole("loading")

\* The layout is left, and what it was waiting for with it.
Leave(to) == page' = to /\ Becomes(Fresh) /\ arriving' = NoArrival

Redirect ==
    /\ \/ (OnConsole("sign-in-required") \/ OnConsole("anonymous-denied")) /\ Leave("login")
       \/ OnConsole("access-denied") /\ Leave("denied")
    /\ UNCHANGED <<claim, current, refreshable, changes>>

\* "Retry Verification"
Retry ==
    /\ OnConsole("authorization-error") /\ generation + 4 <= MaxGeneration
    /\ Becomes(triggerRefresh(View))
    /\ UNCHANGED <<claim, current, refreshable, page, arriving, changes>>

\* The layout is opened, after a sign-in or by its address.
Open ==
    /\ page' = "console" /\ Becomes(Fresh) /\ arriving' = current

SignIn(u) ==
    /\ page = "login" /\ u \notin Anonymous
    /\ current' = u /\ refreshable' = TRUE
    /\ IF ClientPermissions(claim[u]) # {} THEN page' = "console" ELSE page' = "denied"
    /\ Becomes(Fresh) /\ arriving' = IF page' = "console" THEN u ELSE NoArrival
    /\ UNCHANGED <<claim, changes>>

EnterByAddress ==
    /\ page # "console" /\ Open
    /\ UNCHANGED <<claim, current, refreshable, changes>>

\* A sign-out that works; one that fails leaves the page as it is.
SignsOut ==
    /\ current' = Nobody /\ refreshable' = FALSE
    /\ Leave("login")
    /\ UNCHANGED <<claim, changes>>

SignOut == OnConsole("authorization-error") /\ SignsOut
SignOutConsole == Slot /\ SignsOut
SignOutDenied == page = "denied" /\ SignsOut

(***************************************************************************)
(* Around the console.                                                     *)
(***************************************************************************)
\* Another tab of the browser signs in or out.
ElsewhereSigned(u) ==
    /\ page = "console" /\ u # current /\ generation + 3 <= MaxGeneration
    /\ current' = u /\ refreshable' = (u # Nobody) /\ arriving' = u
    /\ UNCHANGED <<claim, changes, vouched>> /\ UNCHANGED shell

\* RoleClaims: the role is written and the refresh tokens are revoked.
RoleChanges(u, r) ==
    /\ u \notin Anonymous /\ claim[u] # r /\ changes < MaxRoleChanges
    /\ changes' = changes + 1
    /\ claim' = [claim EXCEPT ![u] = r]
    /\ refreshable' = (refreshable /\ u # current)
    /\ UNCHANGED <<current, arriving, vouched>> /\ UNCHANGED shell

Next ==
    \/ SessionArrives \/ Redirect \/ Retry \/ EnterByAddress
    \/ SignOut \/ SignOutConsole \/ SignOutDenied
    \/ \E c \in calls : Serve(c) \/ Answer(c)
    \/ \E u \in User : SignIn(u)
    \/ \E u \in User \cup {Nobody} : ElsewhereSigned(u)
    \/ \E u \in User, r \in Given : RoleChanges(u, r)

Spec == Init /\ [][Next]_vars

(***************************************************************************)
(* Properties.                                                             *)
(***************************************************************************)
\* The console is shown only to a user for whom the server confirmed a role
\* with permissions after that user was shown: no answer asked for before, for
\* whoever it was, opens it.
ConsoleAfterFreshRole == Slot => vouched /\ user \notin Anonymous
=============================================================================
