----------------------------- MODULE RoleClaims ------------------------------
(***************************************************************************)
(* Roles as custom claims.  Operators run the two command line tools of    *)
(* backend/firebase/admin against the authentication service; the role     *)
(* reaches the callables and the Firestore rules in the users' tokens.     *)
(* Every call of the authentication service is a step and may fail.        *)
(***************************************************************************)
EXTENDS Naturals, RolePermissions

CONSTANTS User, Operator,
          PasswordUser,   \* users who sign in with email and password
          MaxCommands     \* bound on the commands run

RoleClaimsAssumption == PasswordUser \subseteq User /\ MaxCommands \in Nat

VARIABLES claim,       \* the role in the account's custom claims
          session,     \* the token on the user's device
          command,     \* what each operator runs
          commands,    \* commands started
          unrevoked    \* history: a command failed between claim and revocation

vars == <<claim, session, command, commands, unrevoked>>

NoSession == [role |-> "user", refreshable |-> FALSE, valid |-> FALSE]
Idle == [does |-> "none", step |-> "idle", changed |-> FALSE]

Command == {Idle} \cup
    [does : {"set", "bootstrap", "revoke"}, user : User, role : Role, changed : BOOLEAN,
     step : {"check", "read", "write", "revoke", "done", "failed"}]

TypeOK ==
    /\ claim \in [User -> Role]
    /\ session \in [User -> [role : Role, refreshable : BOOLEAN, valid : BOOLEAN]]
    /\ command \in [Operator -> Command]
    /\ commands \in 0..MaxCommands
    /\ unrevoked \subseteq User

Init ==
    /\ claim = [u \in User |-> "user"] /\ session = [u \in User |-> NoSession]
    /\ command = [o \in Operator |-> Idle] /\ commands = 0 /\ unrevoked = {}

Running(o) == command[o].step \in {"check", "read", "write", "revoke"}

Start(o, c) ==
    /\ ~Running(o) /\ commands < MaxCommands
    /\ commands' = commands + 1
    /\ command' = [command EXCEPT ![o] = c]
    /\ UNCHANGED <<claim, session, unrevoked>>

(***************************************************************************)
(* The tools.                                                              *)
(***************************************************************************)
\* `set` and `remove` of cli.ts: any account, any role, "user" removes it.
SetRole(o, u, r) ==
    Start(o, [does |-> "set", user |-> u, role |-> r, changed |-> FALSE, step |-> "read"])

\* `grant` and `remove` of adminConsoleClaimsCli.ts: accounts with a password.
GrantOrRemove(o, u, r) ==
    /\ u \in PasswordUser /\ r \in ADMIN_CONSOLE_ROLES \cup {"user"}
    /\ SetRole(o, u, r)

\* `bootstrap`: looks at the account once more before it sets the role.
BootstrapSuperAdmin(o, u) ==
    Start(o, [does |-> "bootstrap", user |-> u, role |-> "super_admin", changed |-> FALSE,
              step |-> "check"])

RevokeTokens(o, u) ==
    Start(o, [does |-> "revoke", user |-> u, role |-> "user", changed |-> FALSE,
              step |-> "revoke"])

(***************************************************************************)
(* Their steps.                                                            *)
(***************************************************************************)
To(o, step) == command' = [command EXCEPT ![o].step = step]

Check(o) ==
    /\ command[o].step = "check"
    /\ To(o, IF claim[command[o].user] = "super_admin" THEN "failed" ELSE "read")
    /\ UNCHANGED <<claim, session, commands, unrevoked>>

\* Nothing is written, and no token revoked, when the role is already there.
Read(o) ==
    /\ command[o].step = "read"
    /\ To(o, IF claim[command[o].user] = command[o].role THEN "done" ELSE "write")
    /\ UNCHANGED <<claim, session, commands, unrevoked>>

Revoked(u) == session' = [session EXCEPT ![u].refreshable = FALSE]

WriteMutant(o) ==
    /\ command[o].step = "write"
    /\ claim' = [claim EXCEPT ![command[o].user] = command[o].role]
    /\ command' = [command EXCEPT ![o].step = "done", ![o].changed = TRUE]
    /\ UNCHANGED <<session, commands, unrevoked>>

Write(o) ==
    /\ command[o].step = "write"
    /\ claim' = [claim EXCEPT ![command[o].user] = command[o].role]
    /\ command' = [command EXCEPT ![o].step = "revoke", ![o].changed = TRUE]
    /\ UNCHANGED <<session, commands, unrevoked>>

Revoke(o) ==
    /\ command[o].step = "revoke"
    /\ Revoked(command[o].user)
    /\ To(o, "done")
    /\ unrevoked' = unrevoked \ {command[o].user}
    /\ UNCHANGED <<claim, commands>>

\* The authentication service cannot be reached.
Fail(o) ==
    /\ Running(o)
    /\ To(o, "failed")
    /\ unrevoked' = IF command[o].step = "revoke" /\ command[o].changed
                    THEN unrevoked \cup {command[o].user} ELSE unrevoked
    /\ UNCHANGED <<claim, session, commands>>

(***************************************************************************)
(* The users' tokens.                                                      *)
(***************************************************************************)
SignIn(u) ==
    /\ ~session[u].valid
    /\ session' = [session EXCEPT
          ![u] = [role |-> claim[u], refreshable |-> TRUE, valid |-> TRUE]]
    /\ UNCHANGED <<claim, command, commands, unrevoked>>

\* Asked for, or after an hour; a revoked session ends here and not before.
Refresh(u) ==
    /\ session[u].valid
    /\ session' = [session EXCEPT
          ![u] = IF session[u].refreshable THEN [@ EXCEPT !.role = claim[u]] ELSE NoSession]
    /\ UNCHANGED <<claim, command, commands, unrevoked>>

Next ==
    \/ \E o \in Operator, u \in User, r \in Role : SetRole(o, u, r) \/ GrantOrRemove(o, u, r)
    \/ \E o \in Operator, u \in User : BootstrapSuperAdmin(o, u) \/ RevokeTokens(o, u)
    \/ \E o \in Operator : Check(o) \/ Read(o) \/ Write(o) \/ Revoke(o) \/ Fail(o)
    \/ \E u \in User : SignIn(u) \/ Refresh(u)

Spec == Init /\ [][Next]_vars

(***************************************************************************)
(* Properties.                                                             *)
(***************************************************************************)
Admits(u, p) == session[u].valid /\ p \in GuardPermissions(session[u].role)

\* The callables and the rules admit the same tokens, and the console offers
\* its pages exactly to those that some of them admit.
TablesAgree ==
    \A u \in User, p \in Permission :
        /\ Admits(u, p) <=> session[u].valid /\ session[u].role \in RulesRoles[p]
        /\ Admits(u, p) <=> session[u].valid /\ p \in ClientPermissions(session[u].role)

\* A token with another role than the account's can be refreshed only while
\* the command that changed the role has its revocation before it, or if that
\* failed.
OldRolesRevoked ==
    \A u \in User :
        session[u].valid /\ session[u].refreshable /\ session[u].role # claim[u] =>
            \/ u \in unrevoked
            \/ \E o \in Operator : command[o].step = "revoke" /\ command[o].user = u

\* The tool's README says of `remove`: "This strips the administrative role and
\* immediately revokes all active refresh tokens".  So when a removal that no
\* other command overlaps is done, no session can be refreshed that had a role.
RemovalRevokes ==
    [][\A o \in Operator :
        LET c == command'[o] IN
        /\ c.does = "set" /\ c.role = "user" /\ c.step = "done" /\ Running(o)
        /\ \A q \in Operator \ {o} : ~Running(q)
        => ~(session'[c.user].refreshable /\ session'[c.user].role # "user")]_vars

\* The tool's README says of `bootstrap`: "One-time procedure to provision the
\* first `super_admin` role".
BootstrapsTheFirst ==
    [][\A o \in Operator :
        command[o].does = "bootstrap" /\ command[o].step = "write"
            /\ command'[o].step = "revoke" =>
            \A u \in User : claim[u] # "super_admin"]_vars
=============================================================================
