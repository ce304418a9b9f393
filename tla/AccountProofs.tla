---------------------------- MODULE AccountProofs ----------------------------
(***************************************************************************)
(* What the client keeps of its user and what administrators do, for any   *)
(* number of users, devices, operators and calls under way and any bounds. *)
(*                                                                         *)
(* Each component is an instance in Accounts, under its names there, and   *)
(* is reasoned about by itself.  The last section concludes for Accounts:  *)
(* a behaviour of it is one of each of its components.                     *)
(***************************************************************************)
EXTENDS Accounts, TLAPS, FiniteSetTheorems, SequenceTheorems

(***************************************************************************)
(* Roles.                                                                  *)
(***************************************************************************)
\* A token of an old role can be refreshed only while the command that wrote
\* the new one has its revocation before it.  That this command changed the
\* role tells it from a mere revocation, whose failure nobody notes.
RevocationOwed ==
  \A u \in Grantee :
    token[u].valid /\ token[u].refreshable /\ token[u].role # claim[u] =>
      \/ u \in unrevoked
      \/ \E o \in Operator :
           command[o].step = "revoke" /\ command[o].user = u /\ command[o].changed

ClaimsInv == Claims!TypeOK /\ RevocationOwed

\* What an operator runs
FullCommand ==
  [does : {"set", "bootstrap", "revoke"}, user : Grantee, role : Claims!Role, changed : BOOLEAN,
   step : {"check", "read", "write", "revoke", "done", "failed"}]

LEMMA RunningCommand ==
  ASSUME Claims!TypeOK, NEW o \in Operator, Claims!Running(o)
  PROVE  command[o] \in FullCommand
BY DEF Claims!TypeOK, Claims!Command, Claims!Idle, Claims!Running, FullCommand

LEMMA ClaimsInit == Claims!RoleClaimsAssumption /\ Claims!Init => ClaimsInv
<1> SUFFICES ASSUME Claims!RoleClaimsAssumption, Claims!Init PROVE ClaimsInv
  OBVIOUS
<1>1. Claims!Idle \in Claims!Command /\ "user" \in Claims!Role
  BY DEF Claims!Command, Claims!Role
<1>2. Claims!NoSession \in [role : Claims!Role, refreshable : BOOLEAN, valid : BOOLEAN]
  BY <1>1 DEF Claims!NoSession
<1>3. 0 \in 0..MaxCommands
  BY DEF Claims!RoleClaimsAssumption
<1>4. Claims!TypeOK
  BY <1>1, <1>2, <1>3 DEF Claims!Init, Claims!TypeOK
<1>5. RevocationOwed
  BY DEF Claims!Init, RevocationOwed, Claims!NoSession
<1> QED
  BY <1>4, <1>5 DEF ClaimsInv

\* A command that starts ends none that runs.
LEMMA ClaimsStart ==
  ASSUME Claims!RoleClaimsAssumption, ClaimsInv, NEW o \in Operator, NEW c \in FullCommand,
         Claims!Start(o, c)
  PROVE  ClaimsInv'
<1>1. c \in Claims!Command
  BY DEF Claims!Command, FullCommand
<1>2. /\ command' \in [Operator -> Claims!Command]
      /\ \A p \in Operator \ {o} : command'[p] = command[p]
      /\ command[o].step # "revoke"
  BY <1>1 DEF Claims!Start, Claims!TypeOK, ClaimsInv, Claims!Running
<1>3. commands' \in 0..MaxCommands
  BY DEF Claims!Start, Claims!TypeOK, ClaimsInv, Claims!RoleClaimsAssumption
<1>4. Claims!TypeOK'
  BY <1>2, <1>3 DEF Claims!Start, Claims!TypeOK, ClaimsInv
<1>5. RevocationOwed'
  BY <1>2 DEF Claims!Start, ClaimsInv, RevocationOwed
<1> QED
  BY <1>4, <1>5 DEF ClaimsInv

\* A step of a command keeps the types, and every other command.
LEMMA CommandSteps ==
  ASSUME ClaimsInv, NEW o \in Operator, Claims!Running(o), NEW c \in FullCommand,
         command' = [command EXCEPT ![o] = c]
  PROVE  /\ command' \in [Operator -> Claims!Command]
         /\ command'[o] = c
         /\ \A p \in Operator \ {o} : command'[p] = command[p]
BY DEF ClaimsInv, Claims!TypeOK, Claims!Command, FullCommand

LEMMA ClaimsSteps ==
  ASSUME ClaimsInv, NEW o \in Operator,
         \/ Claims!Check(o) \/ Claims!Read(o) \/ Claims!Write(o)
         \/ Claims!Revoke(o) \/ Claims!Fail(o)
  PROVE  ClaimsInv'
<1>1. Claims!Running(o)
  BY DEF Claims!Check, Claims!Read, Claims!Write, Claims!Revoke, Claims!Fail, Claims!Running
<1>2. PICK c \in FullCommand : command[o] = c
  BY <1>1, RunningCommand DEF ClaimsInv
<1> DEFINE u == c.user
<1>3. \A s \in {"read", "write", "revoke", "done", "failed"} :
        Claims!To(o, s) =>
          /\ command' \in [Operator -> Claims!Command]
          /\ command'[o] = [c EXCEPT !.step = s]
          /\ \A p \in Operator \ {o} : command'[p] = command[p]
  <2> SUFFICES ASSUME NEW s \in {"read", "write", "revoke", "done", "failed"}, Claims!To(o, s)
               PROVE  /\ command' \in [Operator -> Claims!Command]
                      /\ command'[o] = [c EXCEPT !.step = s]
                      /\ \A p \in Operator \ {o} : command'[p] = command[p]
    OBVIOUS
  <2>1. [c EXCEPT !.step = s] \in FullCommand
    BY DEF FullCommand
  <2>2. command' = [command EXCEPT ![o] = [c EXCEPT !.step = s]]
    BY <1>2 DEF Claims!To
  <2> QED
    BY <1>1, <2>1, <2>2, CommandSteps
<1>4. CASE Claims!Check(o) \/ Claims!Read(o)
  <2>1. PICK s \in {"read", "write", "done", "failed"} : Claims!To(o, s)
    BY <1>4 DEF Claims!Check, Claims!Read
  <2>2. UNCHANGED <<claim, token, commands, unrevoked>> /\ command[o].step # "revoke"
    BY <1>4 DEF Claims!Check, Claims!Read
  <2>3. Claims!TypeOK'
    BY <1>3, <2>1, <2>2 DEF ClaimsInv, Claims!TypeOK
  <2>4. RevocationOwed'
    BY <1>3, <2>1, <2>2 DEF ClaimsInv, RevocationOwed
  <2> QED
    BY <2>3, <2>4 DEF ClaimsInv
<1>5. CASE Claims!Write(o)
  <2>1. [c EXCEPT !.step = "revoke", !.changed = TRUE] \in FullCommand
    BY DEF FullCommand
  <2>2. command' = [command EXCEPT ![o] = [c EXCEPT !.step = "revoke", !.changed = TRUE]]
    BY <1>2, <1>5 DEF Claims!Write
  <2>3. /\ command' \in [Operator -> Claims!Command]
        /\ command'[o] = [c EXCEPT !.step = "revoke", !.changed = TRUE]
        /\ \A p \in Operator \ {o} : command'[p] = command[p]
    BY <1>1, <2>1, <2>2, CommandSteps
  <2>4. /\ claim' = [claim EXCEPT ![u] = c.role] /\ UNCHANGED <<token, commands, unrevoked>>
        /\ command[o].step # "revoke"
    BY <1>2, <1>5 DEF Claims!Write
  <2>5. Claims!TypeOK'
    BY <1>2, <2>3, <2>4 DEF ClaimsInv, Claims!TypeOK, FullCommand
  <2>6. RevocationOwed'
    <3> SUFFICES ASSUME NEW v \in Grantee, token[v].valid, token[v].refreshable,
                        token[v].role # claim'[v], v \notin unrevoked
                 PROVE  \E p \in Operator : /\ command'[p].step = "revoke"
                                            /\ command'[p].user = v /\ command'[p].changed
      BY <2>4 DEF RevocationOwed
    <3>1. CASE v = u
      BY <2>1, <2>3, <3>1 DEF FullCommand
    <3>2. CASE v # u
      BY <2>3, <2>4, <3>2 DEF ClaimsInv, RevocationOwed, Claims!TypeOK
    <3> QED
      BY <3>1, <3>2
  <2> QED
    BY <2>5, <2>6 DEF ClaimsInv
<1>6. CASE Claims!Revoke(o)
  <2>1. /\ token' = [token EXCEPT ![u].refreshable = FALSE] /\ Claims!To(o, "done")
        /\ unrevoked' = unrevoked \ {u} /\ UNCHANGED <<claim, commands>>
    BY <1>2, <1>6 DEF Claims!Revoke, Claims!Revoked
  <2>2. u \in Grantee
    BY DEF FullCommand
  <2>3. /\ token' \in [Grantee -> [role : Claims!Role, refreshable : BOOLEAN, valid : BOOLEAN]]
        /\ ~token'[u].refreshable
        /\ \A v \in Grantee \ {u} : token'[v] = token[v]
    BY <2>1, <2>2 DEF ClaimsInv, Claims!TypeOK
  <2>4. Claims!TypeOK'
    BY <1>3, <2>1, <2>3 DEF ClaimsInv, Claims!TypeOK
  <2>5. RevocationOwed'
    BY <1>2, <1>3, <2>1, <2>3 DEF ClaimsInv, RevocationOwed
  <2> QED
    BY <2>4, <2>5 DEF ClaimsInv
<1>7. CASE Claims!Fail(o)
  <2>1. /\ Claims!To(o, "failed") /\ UNCHANGED <<claim, token, commands>>
        /\ unrevoked' = IF c.step = "revoke" /\ c.changed THEN unrevoked \cup {u} ELSE unrevoked
    BY <1>2, <1>7 DEF Claims!Fail
  <2>2. Claims!TypeOK'
    BY <1>3, <2>1 DEF ClaimsInv, Claims!TypeOK, FullCommand
  <2>3. RevocationOwed'
    BY <1>2, <1>3, <2>1 DEF ClaimsInv, RevocationOwed
  <2> QED
    BY <2>2, <2>3 DEF ClaimsInv
<1> QED
  BY <1>4, <1>5, <1>6, <1>7

\* A token is that of the account when it is given or refreshed.
LEMMA ClaimsTokens ==
  ASSUME ClaimsInv, NEW u \in Grantee, Claims!SignIn(u) \/ Claims!Refresh(u)
  PROVE  ClaimsInv'
<1>1. /\ token' \in [Grantee -> [role : Claims!Role, refreshable : BOOLEAN, valid : BOOLEAN]]
      /\ \A v \in Grantee \ {u} : token'[v] = token[v]
      /\ token'[u].valid => token'[u].role = claim[u]
  <2>1. CASE Claims!SignIn(u)
    BY <2>1 DEF ClaimsInv, Claims!TypeOK, Claims!SignIn
  <2>2. CASE Claims!Refresh(u)
    <3>1. Claims!NoSession \in [role : Claims!Role, refreshable : BOOLEAN, valid : BOOLEAN]
      BY DEF Claims!NoSession, Claims!Role
    <3> QED
      BY <2>2, <3>1 DEF ClaimsInv, Claims!TypeOK, Claims!Refresh, Claims!NoSession
  <2> QED
    BY <2>1, <2>2
<1>2. UNCHANGED <<claim, command, commands, unrevoked>>
  BY DEF Claims!SignIn, Claims!Refresh
<1>3. Claims!TypeOK'
  BY <1>1, <1>2 DEF ClaimsInv, Claims!TypeOK
<1>4. RevocationOwed'
  BY <1>1, <1>2 DEF ClaimsInv, RevocationOwed
<1> QED
  BY <1>3, <1>4 DEF ClaimsInv

LEMMA ClaimsNext ==
  ASSUME Claims!RoleClaimsAssumption, ClaimsInv, [Claims!Next]_Claims!vars
  PROVE  ClaimsInv'
<1>1. ASSUME NEW o \in Operator, NEW u \in Grantee, NEW r \in Claims!Role, Claims!SetRole(o, u, r)
      PROVE  ClaimsInv'
  <2>1. [does |-> "set", user |-> u, role |-> r, changed |-> FALSE, step |-> "read"] \in FullCommand
    BY DEF FullCommand
  <2> QED
    BY <1>1, <2>1, ClaimsStart DEF Claims!SetRole
<1>2. ASSUME NEW o \in Operator, NEW u \in Grantee, Claims!BootstrapSuperAdmin(o, u)
      PROVE  ClaimsInv'
  <2>1. [does |-> "bootstrap", user |-> u, role |-> "super_admin", changed |-> FALSE,
         step |-> "check"] \in FullCommand
    BY DEF FullCommand, Claims!Role
  <2> QED
    BY <1>2, <2>1, ClaimsStart DEF Claims!BootstrapSuperAdmin
<1>3. ASSUME NEW o \in Operator, NEW u \in Grantee, Claims!RevokeTokens(o, u)
      PROVE  ClaimsInv'
  <2>1. [does |-> "revoke", user |-> u, role |-> "user", changed |-> FALSE,
         step |-> "revoke"] \in FullCommand
    BY DEF FullCommand, Claims!Role
  <2> QED
    BY <1>3, <2>1, ClaimsStart DEF Claims!RevokeTokens
<1>4. CASE UNCHANGED Claims!vars
  BY <1>4 DEF ClaimsInv, Claims!TypeOK, RevocationOwed, Claims!vars
<1> QED
  BY <1>1, <1>2, <1>3, <1>4, ClaimsSteps, ClaimsTokens DEF Claims!Next, Claims!GrantOrRemove

\* The callables, the rules and the console's table agree on every role.
LEMMA TablesEqual ==
  ASSUME NEW r \in Claims!Role, NEW p \in Claims!Permission
  PROVE  /\ p \in Claims!GuardPermissions(r) <=> r \in Claims!RulesRoles[p]
         /\ p \in Claims!GuardPermissions(r) <=> p \in Claims!ClientPermissions(r)
BY DEF Claims!Role, Claims!Permission, Claims!GuardPermissions, Claims!RulesRoles,
       Claims!ClientPermissions

\* A role taken away goes with its tokens (RoleProvisioningService,
\* AdminConsoleClaimsService): however many operators run the tools at once and
\* whichever calls fail, a token of another role than the account's can be
\* refreshed only before the revocation or after it failed; and whatever the
\* token, callables, rules and console admit alike.
THEOREM RolesRevoked ==
  ASSUME Claims!RoleClaimsAssumption
  PROVE  Claims!Spec => [](Claims!TypeOK /\ Claims!OldRolesRevoked /\ Claims!TablesAgree)
<1>1. Claims!Init => ClaimsInv
  BY ClaimsInit
<1>2. ClaimsInv /\ [Claims!Next]_Claims!vars => ClaimsInv'
  BY ClaimsNext
<1>3. ClaimsInv => Claims!TypeOK /\ Claims!OldRolesRevoked /\ Claims!TablesAgree
  <2>1. ClaimsInv => Claims!TypeOK /\ Claims!OldRolesRevoked
    BY DEF ClaimsInv, RevocationOwed, Claims!OldRolesRevoked
  <2>2. ClaimsInv => Claims!TablesAgree
    BY TablesEqual DEF ClaimsInv, Claims!TypeOK, Claims!TablesAgree, Claims!Admits
  <2> QED
    BY <2>1, <2>2
<1> QED
  BY <1>1, <1>2, <1>3, PTL DEF Claims!Spec

-----------------------------------------------------------------------------
(***************************************************************************)
(* The administrators' console.                                            *)
(***************************************************************************)
Calls == SUBSET Console!Call
ViewType ==
  [user : Visitor \cup {Nobody}, loading : BOOLEAN, refreshing : BOOLEAN, hook : Nat,
   generation : Nat, verification : Console!Verification, calls : Calls,
   vouched : BOOLEAN]

Opens(granted) == granted \in Console!Role /\ Console!ClientPermissions(granted) # {}

\* What the controller's state says of the answers it waits for and of the one
\* it counts: one refresh at a time, the current one of the hook; an answer that
\* may still count was asked for since the user is shown, and then it is the
\* server's, which vouches for the user.
Sound(v) ==
  /\ v.refreshing <=> v.calls # {}
  /\ v.hook <= v.generation
  /\ \A c, d \in v.calls : c = d
  /\ \A c \in v.calls :
       /\ c.hook = v.hook /\ c.layout <= v.generation
       /\ c.layout = v.generation => c.vouches
       /\ c.vouches /\ c.asked = v.user /\ Opens(c.result) => v.vouched
  /\ /\ v.verification.status = "verified" /\ v.verification.uid = v.user
     /\ Opens(v.verification.role)
     => v.vouched

\* Generations that are to come whatever else happens: one for a refresh that
\* was overtaken, two for a session that arrives.
Owed(v) == IF v.refreshing /\ ~Console!Matches(v) THEN 1 ELSE 0
Arriving == IF arriving = Console!NoArrival THEN 0 ELSE 2

ConsoleType ==
  /\ role \in [Visitor -> Given] /\ signedIn \in Visitor \cup {Nobody}
  /\ refreshable \in BOOLEAN /\ page \in {"login", "console", "denied"}
  /\ arriving \in Visitor \cup {Nobody, Console!NoArrival}
  /\ changes \in 0..MaxRoleChanges
ConsoleInv ==
  /\ ConsoleType
  /\ Console!View \in ViewType /\ Sound(Console!View)
  /\ generation + Owed(Console!View) + Arriving <= MaxGeneration

LEMMA FreshView ==
  /\ Console!Fresh \in ViewType /\ Sound(Console!Fresh) /\ Owed(Console!Fresh) = 0
  /\ Console!Fresh.generation = 0
BY DEF Console!Fresh, ViewType, Calls, Sound, Owed, Console!Verification

LEMMA BecomesView ==
  ASSUME NEW v \in ViewType, Console!Becomes(v)
  PROVE  Console!View' = v
BY DEF Console!Becomes, Console!View, ViewType

\* A refresh is asked for as of now.
LEMMA RefreshView ==
  ASSUME NEW v \in ViewType, Sound(v), ~v.refreshing, v.user \in Visitor,
         signedIn \in Visitor \cup {Nobody}
  PROVE  LET w == Console!triggerRefresh(v) IN
         /\ w \in ViewType /\ Sound(w) /\ Owed(w) = 0
         /\ w.generation = v.generation + 1
<1> DEFINE c == [hook |-> v.hook + 1, layout |-> v.generation + 1, expected |-> v.user,
                 asked |-> signedIn, vouches |-> TRUE, result |-> "waiting"]
           k == [status |-> "checking", uid |-> v.user, role |-> "user"]
           w == [v EXCEPT !.verification = k, !.generation = @ + 1, !.hook = @ + 1,
                          !.refreshing = TRUE, !.calls = @ \cup {c}]
<1>1. c \in Console!Call
  BY DEF Console!Call, ViewType
<1>2. k \in Console!Verification
  BY DEF Console!Verification, Console!Role
<1>3. v.calls = {} /\ v.calls \cup {c} = {c}
  BY DEF Sound
<1>4. w \in ViewType
  <2>1. v.calls \cup {c} \in Calls
    BY <1>1, <1>3 DEF Calls
  <2> DEFINE g == v.generation + 1
             h == v.hook + 1
  <2>2. g \in Nat /\ h \in Nat
    BY DEF ViewType
  <2> HIDE DEF c, k, g, h
  <2>3. [v EXCEPT !.verification = k, !.generation = g, !.hook = h, !.refreshing = TRUE,
                  !.calls = v.calls \cup {c}] \in ViewType
    BY <1>2, <2>1, <2>2 DEF ViewType
  <2>4. w = [v EXCEPT !.verification = k, !.generation = g, !.hook = h, !.refreshing = TRUE,
                      !.calls = v.calls \cup {c}]
    BY DEF g, h
  <2> QED
    BY <2>3, <2>4
<1>5. /\ w.verification = k /\ w.generation = v.generation + 1 /\ w.hook = v.hook + 1
      /\ w.refreshing /\ w.calls = {c} /\ w.user = v.user
  BY <1>3 DEF ViewType
<1>6. ~Opens("waiting")
  BY DEF Opens, Console!Role
<1>7. Sound(w)
  <2>1. v.hook \in Nat /\ v.generation \in Nat /\ v.hook <= v.generation
    BY DEF ViewType, Sound
  <2>2. c.hook = v.hook + 1 /\ c.layout = v.generation + 1 /\ c.vouches /\ c.result = "waiting"
    OBVIOUS
  <2>3. k.status = "checking"
    OBVIOUS
  <2> HIDE DEF c, k, w
  <2> QED
    BY <1>5, <1>6, <2>1, <2>2, <2>3 DEF Sound
<1>8. Owed(w) = 0
  BY <1>5 DEF Owed, Console!Matches
<1>9. Console!triggerRefresh(v) = w
  BY DEF Console!triggerRefresh
<1> QED
  BY <1>4, <1>5, <1>7, <1>8, <1>9

LEMMA EffectsView ==
  ASSUME NEW v \in ViewType, Sound(v), signedIn \in Visitor \cup {Nobody}
  PROVE  LET w == Console!Effects(v) IN
         /\ w \in ViewType /\ Sound(w)
         /\ w.generation + Owed(w) <= v.generation + 1
         /\ v.refreshing \/ Console!Matches(v) => w = v
         /\ w = v \/ w.generation + Owed(w) = v.generation + 1
<1>1. v.generation \in Nat /\ v.user \in Visitor \cup {Nobody} /\ Owed(v) \in {0, 1}
  BY DEF ViewType, Owed
<1>2. CASE v.loading \/ v.refreshing \/ v.user = Nobody \/ v.user \in Anonymous
             \/ Console!Matches(v)
  <2>1. Console!Effects(v) = v
    BY <1>2 DEF Console!Effects
  <2> QED
    BY <1>1, <2>1
<1>3. CASE ~(v.loading \/ v.refreshing \/ v.user = Nobody \/ v.user \in Anonymous
               \/ Console!Matches(v))
  <2>1. Console!Effects(v) = Console!triggerRefresh(v)
    BY <1>3 DEF Console!Effects
  <2> HIDE DEF Owed
  <2>2. LET w == Console!triggerRefresh(v) IN
        /\ w \in ViewType /\ Sound(w) /\ Owed(w) = 0
        /\ w.generation = v.generation + 1
    BY <1>1, <1>3, RefreshView
  <2> QED
    BY <1>1, <1>3, <2>1, <2>2
<1> QED
  BY <1>2, <1>3

\* Another user is rendered: what was asked for before does not count.
LEMMA IdentityView ==
  ASSUME NEW v \in ViewType, Sound(v), NEW u \in Visitor \cup {Nobody}
  PROVE  LET w == [Console!IdentityChanged(v, u) EXCEPT !.loading = FALSE] IN
         /\ w \in ViewType /\ Sound(w) /\ w.refreshing = v.refreshing
         /\ w.generation <= v.generation + 1
         /\ w.generation + Owed(w) <= v.generation + Owed(v) + 2
         /\ ~w.refreshing => w.generation + Owed(w) <= v.generation + 1
<1> DEFINE i == Console!IdentityChanged(v, u)
           w == [i EXCEPT !.loading = FALSE]
<1>1. CASE u = v.user
  <2>1. i = v
    BY <1>1 DEF Console!IdentityChanged
  <2>2. /\ w \in ViewType /\ w.user = v.user /\ w.refreshing = v.refreshing
        /\ w.generation = v.generation
        /\ w.hook = v.hook /\ w.calls = v.calls /\ w.verification = v.verification
        /\ w.vouched = v.vouched
    BY <2>1 DEF ViewType
  <2> HIDE DEF w, i
  <2>3. Sound(w) /\ Owed(w) = Owed(v) /\ Owed(v) \in {0, 1} /\ (~w.refreshing => Owed(w) = 0)
    BY <2>2 DEF Sound, Owed, Console!Matches
  <2> QED
    BY <2>2, <2>3 DEF ViewType, w, i
<1>2. CASE u # v.user
  <2> DEFINE cs == {[c EXCEPT !.vouches = FALSE] : c \in v.calls}
             j == [v EXCEPT !.user = u, !.generation = @ + 1,
                            !.verification = [status |-> "idle"], !.vouched = FALSE,
                            !.calls = cs]
  <2>1. i = j
    BY <1>2 DEF Console!IdentityChanged
  <2>2. cs \in Calls
    <3>1. \A c \in Console!Call : [c EXCEPT !.vouches = FALSE] \in Console!Call
      BY DEF Console!Call
    <3> QED
      BY <3>1 DEF ViewType, Calls
  <2>3. [status |-> "idle"] \in Console!Verification
    BY DEF Console!Verification
  <2>4. /\ w \in ViewType /\ w.user = u /\ w.refreshing = v.refreshing
        /\ w.generation = v.generation + 1
        /\ w.hook = v.hook /\ w.calls = cs /\ w.verification = [status |-> "idle"]
        /\ w.vouched = FALSE
    <3> HIDE DEF cs
    <3> DEFINE k == [status |-> "idle"]
    <3>0. k \in Console!Verification
      BY <2>3
    <3> HIDE DEF k
    <3>1. j \in ViewType
      <4> DEFINE g == v.generation + 1
      <4>1. g \in Nat
        BY DEF ViewType
      <4> HIDE DEF g
      <4>2. [v EXCEPT !.user = u, !.generation = g, !.verification = k, !.vouched = FALSE,
                      !.calls = cs] \in ViewType
        BY <2>2, <3>0, <4>1 DEF ViewType
      <4>3. j = [v EXCEPT !.user = u, !.generation = g, !.verification = k, !.vouched = FALSE,
                          !.calls = cs]
        BY DEF g, k
      <4> QED
        BY <4>2, <4>3
    <3> QED
      BY <2>1, <3>1 DEF ViewType
  <2>5. cs # {} <=> v.calls # {}
    OBVIOUS
  <2>6. \A d \in cs : \E c \in v.calls :
          d = [c EXCEPT !.vouches = FALSE] /\ d.hook = c.hook /\ d.layout = c.layout /\ ~d.vouches
    BY DEF ViewType, Calls, Console!Call
  <2> HIDE DEF w, i, j, cs
  <2>7. \A c \in v.calls : c.layout \in Nat
    BY DEF ViewType, Calls, Console!Call
  <2>8. Sound(w)
    <3>1. \A c \in v.calls : c.hook = v.hook /\ c.layout <= v.generation /\ c.layout \in Nat
      BY <2>7 DEF Sound
    <3>2. \A c, d \in cs : c = d
      BY <2>6, ZenonT(30) DEF Sound
    <3>3. v.generation \in Nat /\ v.hook \in Nat /\ v.hook <= v.generation
      BY DEF ViewType, Sound
    <3>4. \A d \in cs : d.hook = w.hook /\ d.layout < w.generation /\ d.layout \in Nat /\ ~d.vouches
      BY <2>4, <2>6, <3>1, <3>3
    <3> QED
      BY <2>4, <2>5, <3>2, <3>3, <3>4 DEF Sound
  <2>9. Owed(w) \in {0, 1} /\ Owed(v) \in {0, 1} /\ (~w.refreshing => Owed(w) = 0)
    BY <2>4 DEF Owed
  <2> QED
    BY <2>4, <2>8, <2>9 DEF ViewType, w, i
<1> QED
  BY <1>1, <1>2

LEMMA ConsoleTypes ==
  ASSUME Console!AdminConsoleAssumption, ConsoleInv
  PROVE  Console!TypeOK
<1>1. generation \in Nat /\ hookRefreshes \in Nat /\ MaxGeneration \in Nat
  BY DEF ConsoleInv, ViewType, Console!View, Console!AdminConsoleAssumption
<1>2. Owed(Console!View) \in {0, 1} /\ Arriving \in {0, 2}
  BY DEF Owed, Arriving
<1>3. generation \in 0..MaxGeneration /\ hookRefreshes \in 0..MaxGeneration
  BY <1>1, <1>2 DEF ConsoleInv, Sound, Console!View
<1>4. /\ user \in Visitor \cup {Nobody} /\ loading \in BOOLEAN /\ refreshing \in BOOLEAN
      /\ vouched \in BOOLEAN /\ verification \in Console!Verification
      /\ calls \subseteq Console!Call
  BY DEF ConsoleInv, ViewType, Calls, Console!View
<1>5. refreshing <=> calls # {}
  BY DEF ConsoleInv, Sound, Console!View
<1> QED
  BY <1>3, <1>4, <1>5 DEF Console!TypeOK, ConsoleInv, ConsoleType

\* What an event and the rendering after it come to.
LEMMA ViewStep ==
  ASSUME NEW v \in ViewType, Sound(v), Console!Becomes(v), ConsoleType',
         v.generation + Owed(v) + Arriving' <= MaxGeneration
  PROVE  ConsoleInv'
<1>1. Console!View' = v
  BY BecomesView
<1>2. generation' = v.generation
  BY DEF Console!Becomes
<1>3. Sound(Console!View)' /\ Owed(Console!View)' = Owed(v)
  BY <1>1 DEF Sound, Owed, Console!Matches
<1> QED
  BY <1>1, <1>2, <1>3 DEF ConsoleInv

\* A page that is opened or left: nothing is under way.
LEMMA ConsoleFresh ==
  ASSUME Console!AdminConsoleAssumption, Console!Becomes(Console!Fresh), ConsoleType'
  PROVE  ConsoleInv'
<1>1. 0 + 0 + Arriving' <= MaxGeneration
  BY DEF Arriving, Console!AdminConsoleAssumption
<1> QED
  BY <1>1, FreshView, ViewStep

LEMMA ConsoleInit == Console!AdminConsoleAssumption /\ Console!Init => ConsoleInv
<1> SUFFICES ASSUME Console!AdminConsoleAssumption, Console!Init PROVE ConsoleInv
  OBVIOUS
<1>1. Console!View = Console!Fresh
  BY DEF Console!Init, Console!View, Console!Fresh
<1>2. ConsoleType
  <2>1. 0 \in 0..MaxRoleChanges
    BY DEF Console!AdminConsoleAssumption
  <2> QED
    BY <2>1 DEF Console!Init, ConsoleType
<1>3. generation = 0 /\ Arriving = 0
  BY DEF Console!Init, Arriving
<1> QED
  BY <1>1, <1>2, <1>3, FreshView DEF ConsoleInv, Console!AdminConsoleAssumption

LEMMA ConsoleArrives ==
  ASSUME Console!AdminConsoleAssumption, ConsoleInv, Console!SessionArrives
  PROVE  ConsoleInv'
<1> DEFINE v == Console!View
           w == [Console!IdentityChanged(v, arriving) EXCEPT !.loading = FALSE]
           x == Console!Effects(w)
<1>1. arriving \in Visitor \cup {Nobody} /\ signedIn \in Visitor \cup {Nobody} /\ Arriving = 2
  BY DEF Console!SessionArrives, ConsoleInv, ConsoleType, Arriving
<1>2. v \in ViewType /\ Sound(v)
  BY DEF ConsoleInv
<1>3. /\ w \in ViewType /\ Sound(w) /\ w.refreshing = v.refreshing
      /\ w.generation <= v.generation + 1
      /\ w.generation + Owed(w) <= v.generation + Owed(v) + 2
      /\ ~w.refreshing => w.generation + Owed(w) <= v.generation + 1
  BY <1>1, <1>2, IdentityView
<1>4. /\ x \in ViewType /\ Sound(x)
      /\ x.generation + Owed(x) <= w.generation + 1
      /\ w.refreshing \/ Console!Matches(w) => x = w
  BY <1>1, <1>3, EffectsView
<1>5. Console!Becomes(x) /\ arriving' = Console!NoArrival
      /\ UNCHANGED <<role, signedIn, refreshable, page, changes>>
  BY DEF Console!SessionArrives
<1>6. /\ v.generation \in Nat /\ w.generation \in Nat /\ x.generation \in Nat
      /\ Owed(v) \in {0, 1} /\ Owed(w) \in {0, 1} /\ Owed(x) \in {0, 1}
  <2>1. \A y \in ViewType : y.generation \in Nat /\ Owed(y) \in {0, 1}
    BY DEF ViewType, Owed
  <2> QED
    BY <1>2, <1>3, <1>4, <2>1
<1>7. v.generation = generation /\ generation + Owed(v) + 2 <= MaxGeneration
  BY <1>1 DEF ConsoleInv, Console!View
<1> HIDE DEF v, w, x
<1>8. x.generation + Owed(x) <= v.generation + Owed(v) + 2
  BY <1>3, <1>4, <1>6
<1>9. Arriving' = 0
  BY <1>5 DEF Arriving
<1>10. ConsoleType'
  BY <1>5 DEF ConsoleInv, ConsoleType
<1>11. x.generation + Owed(x) + Arriving' <= MaxGeneration
  BY <1>6, <1>7, <1>8, <1>9 DEF Console!AdminConsoleAssumption
<1> QED
  BY <1>4, <1>5, <1>10, <1>11, ViewStep

\* An answer that counts vouches for the user if it opens the console.
LEMMA ConsoleAnswer ==
  ASSUME Console!AdminConsoleAssumption, ConsoleInv, NEW c \in calls, Console!Answer(c)
  PROVE  ConsoleInv'
<1> DEFINE v == Console!View
           k == Console!Verified(v, c)
           r == v.refreshing /\ c.hook # hookRefreshes
           w == [v EXCEPT !.calls = @ \ {c}, !.refreshing = @ /\ c.hook # hookRefreshes,
                          !.verification = k]
           x == Console!Effects(w)
<1>1. v \in ViewType /\ Sound(v)
  BY DEF ConsoleInv
<1>2. c \in v.calls /\ v.calls = {c} /\ c \in Console!Call /\ c.hook = v.hook
      /\ v.hook = hookRefreshes /\ v.refreshing
  BY <1>1 DEF Sound, ViewType, Calls, Console!View
<1>3. k \in Console!Verification
  BY <1>1, <1>2 DEF Console!Verified, Console!Verification, ViewType, Console!Call, Console!Role
<1>4. w = [v EXCEPT !.calls = {}, !.refreshing = FALSE, !.verification = k]
  <2>1. v.calls \ {c} = {} /\ (v.refreshing /\ c.hook # hookRefreshes) = FALSE
    BY <1>2
  <2> HIDE DEF k, v
  <2> QED
    BY <2>1
<1>5. /\ w \in ViewType /\ w.calls = {} /\ ~w.refreshing /\ w.verification = k
      /\ w.user = v.user /\ w.generation = v.generation /\ w.hook = v.hook
      /\ w.vouched = v.vouched
  <2>1. {} \in Calls
    BY DEF Calls
  <2> HIDE DEF k, v, w
  <2> QED
    BY <1>1, <1>3, <1>4, <2>1 DEF ViewType
<1>6. /\ k.status = "verified" /\ k.uid = v.user /\ Opens(k.role)
      => v.vouched
  <2> SUFFICES ASSUME k.status = "verified", k.uid = v.user, Opens(k.role)
               PROVE  v.vouched
    OBVIOUS
  <2>1. CASE k = v.verification
    BY <1>1, <2>1 DEF Sound
  <2>2. CASE k # v.verification
    <3>1. c.layout = v.generation /\ v.user = c.expected
      BY <2>2 DEF Console!Verified
    <3>2. c.asked = v.user /\ k.role = c.result
      BY <3>1 DEF Console!Verified
    <3> QED
      BY <1>1, <1>2, <3>1, <3>2 DEF Sound
  <2> QED
    BY <2>1, <2>2
<1>7. Sound(w)
  <2> HIDE DEF k, v, w
  <2> QED
    BY <1>1, <1>5, <1>6 DEF Sound
<1>8. Console!Matches(v) => Console!Matches(w)
  <2>1. k = v.verification \/ (v.user = c.expected /\ k.uid = c.expected /\ k.status # "idle")
    BY DEF Console!Verified
  <2> HIDE DEF k, v, w
  <2> QED
    BY <1>5, <2>1 DEF Console!Matches
<1>9. signedIn \in Visitor \cup {Nobody}
  BY DEF ConsoleInv, ConsoleType
<1> HIDE DEF k, v, w
<1>10. /\ x \in ViewType /\ Sound(x)
       /\ x.generation + Owed(x) <= w.generation + 1
       /\ Console!Matches(w) => x = w
  BY <1>5, <1>7, <1>9, EffectsView
<1>11. Owed(v) = 1 \/ Console!Matches(v)
  BY <1>2 DEF Owed
<1>12. Owed(w) = 0 /\ Owed(v) \in {0, 1} /\ Owed(x) \in {0, 1} /\ v.generation \in Nat
       /\ w.generation \in Nat /\ x.generation \in Nat
  BY <1>1, <1>5, <1>10 DEF Owed, ViewType
<1>13. x.generation + Owed(x) <= v.generation + Owed(v)
  BY <1>5, <1>8, <1>10, <1>11, <1>12
<1>14. Console!Becomes(x) /\ UNCHANGED <<role, signedIn, refreshable, page, arriving, changes>>
  BY DEF Console!Answer, v, w, k
<1>15. ConsoleType' /\ Arriving' = Arriving /\ Arriving \in {0, 2}
  BY <1>14 DEF ConsoleInv, ConsoleType, Arriving
<1>16. v.generation + Owed(v) + Arriving <= MaxGeneration
  BY DEF ConsoleInv, v, Console!View
<1>17. x.generation + Owed(x) + Arriving' <= MaxGeneration
  BY <1>12, <1>13, <1>15, <1>16 DEF Console!AdminConsoleAssumption
<1> QED
  BY <1>10, <1>14, <1>15, <1>17, ViewStep

\* The server vouches with an answer that it gives for the user shown.
LEMMA ConsoleServe ==
  ASSUME Console!AdminConsoleAssumption, ConsoleInv, NEW c \in calls, Console!Serve(c)
  PROVE  ConsoleInv'
<1> DEFINE v == Console!View
<1>1. v \in ViewType /\ Sound(v) /\ c \in v.calls /\ v.calls = calls /\ v.user = user
      /\ v.vouched = vouched
  BY DEF ConsoleInv, Console!View
<1>2. calls = {c} /\ c \in Console!Call
  BY <1>1 DEF Sound, ViewType, Calls
<1>3. PICK r \in Console!Role \cup {"error", "null"} :
        /\ calls' = (calls \ {c}) \cup {[c EXCEPT !.result = r]}
        /\ vouched' = (vouched \/ (c.vouches /\ c.asked = user /\ r \in Console!Role
                                     /\ Console!ClientPermissions(r) # {}))
  <2>1. c.asked = Nobody \/ role[c.asked] \in Console!Role
    BY <1>2 DEF ConsoleInv, ConsoleType, Console!AdminConsoleAssumption, Console!Call
  <2> QED
    BY <2>1 DEF Console!Serve
<1> DEFINE d == [c EXCEPT !.result = r]
<1>4. d \in Console!Call /\ d.hook = c.hook /\ d.layout = c.layout /\ d.vouches = c.vouches
      /\ d.asked = c.asked /\ d.result = r
  BY <1>2 DEF Console!Call
<1>5. calls' = {d} /\ calls' \in Calls
  BY <1>2, <1>3, <1>4 DEF Calls
<1>6. vouched' \in BOOLEAN /\ (vouched => vouched')
      /\ (c.vouches /\ c.asked = user /\ Opens(r) => vouched')
  BY <1>1, <1>3 DEF ViewType, Opens
<1>7. UNCHANGED <<user, loading, refreshing, hookRefreshes, generation, verification,
                  role, signedIn, refreshable, page, arriving, changes>>
  BY DEF Console!Serve
<1>8. Console!View' \in ViewType
  <2>1. /\ user \in Visitor \cup {Nobody} /\ loading \in BOOLEAN /\ refreshing \in BOOLEAN
        /\ hookRefreshes \in Nat /\ generation \in Nat /\ verification \in Console!Verification
    BY <1>1 DEF ViewType, Console!View
  <2> QED
    BY <1>5, <1>6, <1>7, <2>1 DEF ViewType, Console!View
<1>9. /\ Sound(v) /\ c \in v.calls
      => /\ refreshing <=> calls # {}
         /\ hookRefreshes <= generation
         /\ c.hook = hookRefreshes /\ c.layout <= generation
         /\ c.layout = generation => c.vouches
         /\ c.vouches /\ c.asked = user /\ Opens(c.result) => vouched
         /\ /\ verification.status = "verified" /\ verification.uid = user
            /\ Opens(verification.role)
            => vouched
  BY DEF Sound, Console!View
<1> HIDE DEF d
<1>10. Sound(Console!View)'
  BY <1>1, <1>2, <1>4, <1>5, <1>6, <1>7, <1>9 DEF Sound, Console!View
<1>11. Owed(Console!View)' = Owed(Console!View)
  BY <1>7 DEF Owed, Console!View, Console!Matches
<1>12. ConsoleType' /\ Arriving' = Arriving
  BY <1>7 DEF ConsoleInv, ConsoleType, Arriving
<1> QED
  BY <1>7, <1>8, <1>10, <1>11, <1>12 DEF ConsoleInv

LEMMA ConsoleRetry ==
  ASSUME Console!AdminConsoleAssumption, ConsoleInv, Console!Retry
  PROVE  ConsoleInv'
<1> DEFINE v == Console!View
           w == Console!triggerRefresh(v)
<1>1. v \in ViewType /\ Sound(v) /\ v.generation = generation /\ v.user = user
      /\ v.refreshing = refreshing
  BY DEF ConsoleInv, Console!View
<1>2. ~refreshing /\ user \in Visitor
  <2>1. ~refreshing /\ Console!Error
    BY DEF Console!Retry, Console!OnConsole, Console!evaluateAdminRouteDecision
  <2>2. verification \in Console!Verification
    BY <1>1 DEF ViewType, Console!View
  <2> QED
    BY <2>1, <2>2 DEF Console!Error, Console!Verification
<1>3. /\ w \in ViewType /\ Sound(w) /\ Owed(w) = 0 /\ w.generation = v.generation + 1
  <2>1. signedIn \in Visitor \cup {Nobody}
    BY DEF ConsoleInv, ConsoleType
  <2> HIDE DEF v
  <2> QED
    BY <1>1, <1>2, <2>1, RefreshView
<1>4. /\ generation + 4 <= MaxGeneration /\ Console!Becomes(w)
      /\ UNCHANGED <<role, signedIn, refreshable, page, arriving, changes>>
  BY DEF Console!Retry
<1>5. ConsoleType' /\ Arriving' \in {0, 2} /\ generation \in Nat
  BY <1>1, <1>4 DEF ConsoleInv, ConsoleType, Arriving, ViewType
<1> HIDE DEF v, w
<1>6. w.generation + Owed(w) + Arriving' <= MaxGeneration
  <2>1. MaxGeneration \in Nat
    BY DEF Console!AdminConsoleAssumption
  <2>2. w.generation = generation + 1 /\ Owed(w) = 0
    BY <1>1, <1>3
  <2> QED
    <3>1. Arriving' = 0 \/ Arriving' = 2
      BY <1>5
    <3>2. generation + 4 <= MaxGeneration /\ generation \in Nat
      BY <1>4, <1>5
    <3>3. CASE Arriving' = 0
      BY <2>1, <2>2, <3>2, <3>3
    <3>4. CASE Arriving' = 2
      BY <2>1, <2>2, <3>2, <3>4
    <3> QED
      BY <3>1, <3>3, <3>4
<1> QED
  BY <1>3, <1>4, <1>5, <1>6, ViewStep

\* Signing in, opening and leaving a page.
LEMMA ConsoleOpens ==
  ASSUME Console!AdminConsoleAssumption, ConsoleInv,
         \/ Console!Redirect \/ Console!EnterByAddress
         \/ Console!SignOut \/ Console!SignOutConsole \/ Console!SignOutDenied
         \/ \E u \in Visitor : Console!SignIn(u)
  PROVE  ConsoleInv'
<1>1. Console!Becomes(Console!Fresh)
  BY DEF Console!Redirect, Console!EnterByAddress, Console!Open, Console!Leave, Console!SignsOut,
         Console!SignOut, Console!SignOutConsole, Console!SignOutDenied, Console!SignIn
<1>2. /\ page' \in {"login", "console", "denied"} /\ signedIn' \in Visitor \cup {Nobody}
      /\ refreshable' \in BOOLEAN /\ arriving' \in Visitor \cup {Nobody, Console!NoArrival}
      /\ UNCHANGED <<role, changes>>
  BY DEF Console!Redirect, Console!EnterByAddress, Console!Open, Console!Leave, Console!SignsOut,
         Console!SignOut, Console!SignOutConsole, Console!SignOutDenied, Console!SignIn,
         ConsoleInv, ConsoleType
<1>3. ConsoleType'
  BY <1>2 DEF ConsoleInv, ConsoleType
<1> QED
  BY <1>1, <1>3, ConsoleFresh

\* What happens elsewhere leaves the controller's state alone.
LEMMA ConsoleElsewhere ==
  ASSUME Console!AdminConsoleAssumption, ConsoleInv,
         \/ \E u \in Visitor \cup {Nobody} : Console!ElsewhereSigned(u)
         \/ \E u \in Visitor, r \in Given : Console!RoleChanges(u, r)
         \/ UNCHANGED Console!vars
  PROVE  ConsoleInv'
<1>1. /\ Console!View' = Console!View /\ Sound(Console!View)' /\ generation' = generation
      /\ Owed(Console!View)' = Owed(Console!View)
  <2>1. UNCHANGED <<Console!shell, vouched>>
    BY DEF Console!ElsewhereSigned, Console!RoleChanges, Console!vars, Console!shell
  <2>2. Console!View' = Console!View /\ generation' = generation
    BY <2>1 DEF Console!View, Console!shell
  <2> QED
    BY <2>2 DEF Sound, Owed, Console!Matches, ConsoleInv
<1>2. ConsoleType'
  <2>1. ASSUME NEW u \in Visitor \cup {Nobody}, Console!ElsewhereSigned(u) PROVE ConsoleType'
    BY <2>1 DEF Console!ElsewhereSigned, ConsoleInv, ConsoleType, Console!shell
  <2>2. ASSUME NEW u \in Visitor, NEW r \in Given, Console!RoleChanges(u, r) PROVE ConsoleType'
    <3>1. role' \in [Visitor -> Given] /\ changes' \in 0..MaxRoleChanges
      BY <2>2 DEF Console!RoleChanges, ConsoleInv, ConsoleType, Console!AdminConsoleAssumption
    <3> QED
      BY <2>2, <3>1 DEF Console!RoleChanges, ConsoleInv, ConsoleType, Console!shell
  <2>3. CASE UNCHANGED Console!vars
    BY <2>3 DEF Console!vars, ConsoleInv, ConsoleType
  <2> QED
    BY <2>1, <2>2, <2>3
<1>3. generation + Owed(Console!View) + Arriving' <= MaxGeneration
  <2>1. CASE arriving' = arriving
    BY <2>1 DEF ConsoleInv, Arriving
  <2>2. CASE arriving' # arriving
    <3>1. generation + 3 <= MaxGeneration
      BY <2>2 DEF Console!ElsewhereSigned, Console!RoleChanges, Console!vars
    <3>2. Owed(Console!View) \in {0, 1} /\ Arriving' \in {0, 2} /\ generation \in Nat
      BY DEF Owed, Arriving, ConsoleInv, ViewType, Console!View
    <3> QED
      BY <3>1, <3>2 DEF Console!AdminConsoleAssumption
  <2> QED
    BY <2>1, <2>2
<1> QED
  BY <1>1, <1>2, <1>3 DEF ConsoleInv

\* The administrators' console is shown only after the server confirmed, since
\* the user is shown, a role that opens it (useAdminLayoutController and
\* useAuthSession): however users change under it in any tab, whatever roles
\* are given and taken away and however late and wrongly refreshes end.
THEOREM ConsoleNeedsFreshRole ==
  ASSUME Console!AdminConsoleAssumption
  PROVE  Console!Spec => [](Console!TypeOK /\ Console!ConsoleAfterFreshRole)
<1>1. Console!Init => ConsoleInv
  BY ConsoleInit
<1>2. ConsoleInv /\ [Console!Next]_Console!vars => ConsoleInv'
  BY ConsoleArrives, ConsoleAnswer, ConsoleServe, ConsoleRetry, ConsoleOpens, ConsoleElsewhere
     DEF Console!Next
<1>3. ConsoleInv => Console!TypeOK /\ Console!ConsoleAfterFreshRole
  <2>1. ConsoleInv => Console!TypeOK
    BY ConsoleTypes
  <2>2. ASSUME ConsoleInv, Console!Slot PROVE vouched /\ user \notin Anonymous
    <3>1. /\ Console!IsVerified /\ user \notin Anonymous
          /\ Console!ClientPermissions(verification.role) # {}
      BY <2>2 DEF Console!Slot, Console!OnConsole, Console!evaluateAdminRouteDecision
    <3>2. verification.role \in Console!Role
      BY <2>2, <3>1 DEF ConsoleInv, ViewType, Console!View, Console!Verification,
                        Console!IsVerified
    <3> QED
      BY <2>2, <3>1, <3>2 DEF ConsoleInv, Sound, Console!View, Opens, Console!IsVerified
  <2> QED
    BY <2>1, <2>2 DEF Console!ConsoleAfterFreshRole
<1> QED
  BY <1>1, <1>2, <1>3, PTL DEF Console!Spec

-----------------------------------------------------------------------------
(***************************************************************************)
(* What the application says of the writes under way.                      *)
(***************************************************************************)
\* A slow write is remembered until no write is under way.
SlowRemembered == (\E w \in LocalWrite : writes[w] = "slow") => slowPending

OfflineInv == Offline!TypeOK /\ Offline!PhaseTellsState /\ SlowRemembered

Phases == {"error", "offline", "pending", "synced", "syncing"}

LEMMA PhaseType ==
  ASSUME NEW e \in BOOLEAN, NEW c, NEW n \in Nat, NEW s \in BOOLEAN
  PROVE  /\ Offline!Phase(e, c, n, s) \in Phases
         /\ ~e /\ c # "offline" /\ n > 0 /\ s => Offline!Phase(e, c, n, s) = "pending"
         /\ e => Offline!Phase(e, c, n, s) = "error"
BY DEF Offline!Phase, Phases

\* FiniteSets means the same inside the instance.
LEMMA OfflineCounts ==
  \A S : (Offline!IsFiniteSet(S) <=> IsFiniteSet(S)) /\ Offline!Cardinality(S) = Cardinality(S)
BY DEF Offline!IsFiniteSet, IsFiniteSet, Offline!Cardinality, Cardinality

LEMMA WaitingFinite ==
  ASSUME Offline!OfflineStatusAssumption
  PROVE  IsFiniteSet(Offline!Waiting) /\ Cardinality(Offline!Waiting) \in Nat
<1>1. Offline!Waiting \subseteq LocalWrite
  BY DEF Offline!Waiting
<1> QED
  BY <1>1, OfflineCounts, FS_Subset, FS_CardinalityType DEF Offline!OfflineStatusAssumption

LEMMA OfflineInit == Offline!OfflineStatusAssumption /\ Offline!Init => OfflineInv
<1> SUFFICES ASSUME Offline!OfflineStatusAssumption, Offline!Init PROVE OfflineInv
  OBVIOUS
<1>1. Offline!Waiting = {}
  BY DEF Offline!Init, Offline!Waiting
<1>2. Offline!TypeOK
  BY <1>1, OfflineCounts, FS_EmptySet DEF Offline!Init, Offline!TypeOK, Offline!NoSync
<1>3. Offline!PhaseTellsState
  BY DEF Offline!Init, Offline!PhaseTellsState, Offline!Phase
<1> QED
  BY <1>2, <1>3 DEF OfflineInv, SlowRemembered, Offline!Init

\* A write that begins, that is slow or that ends.
LEMMA OfflineBegin ==
  ASSUME Offline!OfflineStatusAssumption, OfflineInv, NEW w \in LocalWrite, Offline!Begin(w)
  PROVE  OfflineInv'
<1>1. /\ writes' \in [LocalWrite -> {"idle", "waiting", "slow"}] /\ writes'[w] = "waiting"
      /\ \A x \in LocalWrite \ {w} : writes'[x] = writes[x]
      /\ writes[w] = "idle"
  BY DEF Offline!Begin, OfflineInv, Offline!TypeOK
<1>2. Offline!Waiting' = Offline!Waiting \cup {w} /\ w \notin Offline!Waiting
  BY <1>1 DEF Offline!Waiting
<1>3. /\ pendingWrites' = Cardinality(Offline!Waiting') /\ pendingWrites' = pendingWrites + 1
      /\ pendingWrites \in Nat
  BY <1>2, WaitingFinite, OfflineCounts, FS_AddElement DEF Offline!Begin, OfflineInv, Offline!TypeOK
<1>4. slowPending' = (pendingWrites # 0 /\ slowPending) /\ slowPending' \in BOOLEAN
      /\ lastError' = FALSE /\ UNCHANGED <<network, firstRead, connection, sync>>
  BY DEF Offline!Begin
<1>5. phase' = Offline!Phase(lastError', connection', pendingWrites', slowPending')
  BY DEF Offline!Begin, Offline!refreshPhase
<1>6. phase' \in Phases
  <2>1. pendingWrites' \in Nat
    BY <1>3
  <2>2. lastError' \in BOOLEAN /\ slowPending' \in BOOLEAN
    BY <1>4, Zenon
  <2> QED
    BY <1>5, <2>1, <2>2, PhaseType, Zenon
<1>7. Offline!TypeOK'
  BY <1>1, <1>2, <1>3, <1>4, <1>6, OfflineCounts DEF OfflineInv, Offline!TypeOK, Phases
<1>8. SlowRemembered'
  <2>1. ASSUME NEW x \in LocalWrite, writes'[x] = "slow" PROVE slowPending'
    <3>1. writes[x] = "slow" /\ x \in Offline!Waiting
      BY <1>1, <2>1 DEF Offline!Waiting
    <3>2. Offline!Waiting # {} /\ pendingWrites = Cardinality(Offline!Waiting)
      BY <3>1, OfflineCounts DEF OfflineInv, Offline!TypeOK
    <3>3. pendingWrites # 0
      BY <3>2, WaitingFinite, FS_EmptySet
    <3> QED
      BY <1>4, <3>1, <3>3 DEF OfflineInv, SlowRemembered
  <2> QED
    BY <2>1 DEF SlowRemembered
<1> QED
  BY <1>5, <1>7, <1>8 DEF OfflineInv, Offline!PhaseTellsState

LEMMA OfflineSlow ==
  ASSUME Offline!OfflineStatusAssumption, OfflineInv, NEW w \in LocalWrite, Offline!SlowTimer(w)
  PROVE  OfflineInv'
<1>1. /\ writes' \in [LocalWrite -> {"idle", "waiting", "slow"}] /\ writes'[w] = "slow"
      /\ \A x \in LocalWrite \ {w} : writes'[x] = writes[x]
      /\ writes[w] = "waiting"
  BY DEF Offline!SlowTimer, OfflineInv, Offline!TypeOK
<1>2. Offline!Waiting' = Offline!Waiting
  BY <1>1 DEF Offline!Waiting
<1>3. slowPending' = TRUE
      /\ UNCHANGED <<network, firstRead, connection, pendingWrites, lastError, sync>>
      /\ phase' = Offline!Phase(lastError', connection', pendingWrites', slowPending')
  BY DEF Offline!SlowTimer, Offline!refreshPhase
<1>4. pendingWrites \in Nat /\ lastError \in BOOLEAN
  BY WaitingFinite, OfflineCounts DEF OfflineInv, Offline!TypeOK
<1>5. phase' \in Phases
  BY <1>3, <1>4, PhaseType
<1>6. Offline!TypeOK'
  BY <1>1, <1>2, <1>3, <1>5 DEF OfflineInv, Offline!TypeOK, Phases
<1> QED
  BY <1>3, <1>6 DEF OfflineInv, Offline!PhaseTellsState, SlowRemembered

LEMMA OfflineFinish ==
  ASSUME Offline!OfflineStatusAssumption, OfflineInv, NEW w \in LocalWrite, NEW ok \in BOOLEAN,
         Offline!Finish(w, ok)
  PROVE  OfflineInv'
<1>1. /\ writes' \in [LocalWrite -> {"idle", "waiting", "slow"}] /\ writes'[w] = "idle"
      /\ \A x \in LocalWrite \ {w} : writes'[x] = writes[x]
      /\ writes[w] # "idle"
  BY DEF Offline!Finish, OfflineInv, Offline!TypeOK
<1>2. Offline!Waiting' = Offline!Waiting \ {w} /\ w \in Offline!Waiting
  BY <1>1 DEF Offline!Waiting
<1>3. /\ IsFiniteSet(Offline!Waiting') /\ Cardinality(Offline!Waiting') \in Nat
      /\ pendingWrites' = Cardinality(Offline!Waiting')
  <2>1. pendingWrites = Cardinality(Offline!Waiting) /\ pendingWrites' = pendingWrites - 1
    BY OfflineCounts DEF Offline!Finish, OfflineInv, Offline!TypeOK
  <2>2. /\ IsFiniteSet(Offline!Waiting \ {w})
        /\ Cardinality(Offline!Waiting \ {w}) = Cardinality(Offline!Waiting) - 1
    BY <1>2, WaitingFinite, FS_RemoveElement
  <2>3. Cardinality(Offline!Waiting \ {w}) \in Nat
    BY <2>2, FS_CardinalityType
  <2> QED
    BY <1>2, <2>1, <2>2, <2>3
<1>4. /\ slowPending' = (pendingWrites' # 0 /\ slowPending) /\ slowPending' \in BOOLEAN
      /\ lastError' \in BOOLEAN /\ UNCHANGED <<network, firstRead, connection>>
      /\ sync' = [sync EXCEPT !.awaits = @ \ {w}]
      /\ phase' = Offline!Phase(lastError', connection', pendingWrites', slowPending')
  BY DEF Offline!Finish, Offline!refreshPhase, OfflineInv, Offline!TypeOK
<1>5. sync' \in [running : BOOLEAN, awaits : SUBSET LocalWrite] /\ sync'.awaits = sync.awaits \ {w}
  BY <1>4 DEF OfflineInv, Offline!TypeOK
<1>6. phase' \in Phases
  BY <1>3, <1>4, PhaseType
<1>7. Offline!TypeOK'
  BY <1>1, <1>2, <1>3, <1>4, <1>5, <1>6, OfflineCounts DEF OfflineInv, Offline!TypeOK, Phases
<1>8. SlowRemembered'
  <2>1. ASSUME NEW x \in LocalWrite, writes'[x] = "slow" PROVE slowPending'
    <3>1. writes[x] = "slow" /\ Offline!Waiting' # {}
      BY <1>1, <2>1 DEF Offline!Waiting
    <3>2. pendingWrites' # 0
      BY <1>3, <3>1, FS_EmptySet
    <3> QED
      BY <1>4, <3>1, <3>2 DEF OfflineInv, SlowRemembered
  <2> QED
    BY <2>1 DEF SlowRemembered
<1> QED
  BY <1>4, <1>7, <1>8 DEF OfflineInv, Offline!PhaseTellsState

\* Syncs and the network leave the writes alone.
LEMMA OfflineRest ==
  ASSUME Offline!OfflineStatusAssumption, OfflineInv,
         \/ Offline!RetrySync \/ Offline!SyncDone \/ Offline!SyncFails \/ Offline!Report
         \/ Offline!FirstReadComes \/ Offline!NetworkChanges \/ UNCHANGED Offline!vars
  PROVE  OfflineInv'
<1>1. UNCHANGED <<writes, pendingWrites, slowPending>>
  BY DEF Offline!RetrySync, Offline!SyncDone, Offline!SyncFails, Offline!Report,
         Offline!FirstReadComes, Offline!NetworkChanges, Offline!updateConnection, Offline!vars
<1>2. Offline!Waiting' = Offline!Waiting
  BY <1>1 DEF Offline!Waiting
<1>3. pendingWrites \in Nat
  BY WaitingFinite, OfflineCounts DEF OfflineInv, Offline!TypeOK
<1>4. /\ network' \in {"online", "offline"}
      /\ firstRead' \in {"online", "offline", "none"}
      /\ connection' \in {"online", "offline", "unknown"}
      /\ lastError' \in BOOLEAN
      /\ \/ sync' = sync
         \/ sync' = Offline!NoSync
         \/ sync' = [running |-> TRUE, awaits |-> Offline!Waiting]
  BY DEF Offline!RetrySync, Offline!SyncDone, Offline!SyncFails, Offline!Report,
         Offline!FirstReadComes, Offline!NetworkChanges, Offline!updateConnection, Offline!vars,
         Offline!StartSync, OfflineInv, Offline!TypeOK
<1>5. Offline!PhaseTellsState' /\ phase' \in Phases
  <2>1. CASE phase' = Offline!Phase(lastError', connection', pendingWrites', slowPending')
    <3>1. slowPending' \in BOOLEAN /\ pendingWrites' \in Nat
      BY <1>1, <1>3 DEF OfflineInv, Offline!TypeOK
    <3> QED
      BY <1>4, <2>1, <3>1, PhaseType DEF Offline!PhaseTellsState
  <2>2. CASE sync'.running /\ phase' = "syncing"
    BY <2>2 DEF Offline!PhaseTellsState, Phases
  <2>3. CASE UNCHANGED <<phase, sync, lastError, connection>>
    BY <1>1, <2>3 DEF Offline!PhaseTellsState, OfflineInv, Offline!TypeOK, Phases
  <2>4. CASE lastError' = TRUE /\ phase' = "error"
    <3>1. phase' = Offline!Phase(lastError', connection', pendingWrites', slowPending')
      BY <2>4 DEF Offline!Phase
    <3> QED
      BY <2>4, <3>1 DEF Offline!PhaseTellsState, Phases
  <2>5. \/ phase' = Offline!Phase(lastError', connection', pendingWrites', slowPending')
        \/ sync'.running /\ phase' = "syncing"
        \/ UNCHANGED <<phase, sync, lastError, connection>>
        \/ lastError' = TRUE /\ phase' = "error"
    BY DEF Offline!RetrySync, Offline!SyncDone, Offline!SyncFails, Offline!Report,
           Offline!FirstReadComes, Offline!NetworkChanges, Offline!updateConnection,
           Offline!vars, Offline!StartSync, Offline!refreshPhase
  <2> QED
    BY <2>1, <2>2, <2>3, <2>4, <2>5
<1>6. sync' \in [running : BOOLEAN, awaits : SUBSET LocalWrite] /\ sync'.awaits \subseteq Offline!Waiting
  <2>1. Offline!Waiting \in SUBSET LocalWrite /\ {} \in SUBSET LocalWrite
    BY DEF Offline!Waiting
  <2>2. CASE sync' = sync
    BY <2>2 DEF OfflineInv, Offline!TypeOK
  <2>3. ASSUME NEW b \in BOOLEAN, NEW s \in SUBSET LocalWrite, s \subseteq Offline!Waiting,
               sync' = [running |-> b, awaits |-> s]
        PROVE  sync' \in [running : BOOLEAN, awaits : SUBSET LocalWrite]
               /\ sync'.awaits \subseteq Offline!Waiting
    BY <2>3
  <2> QED
    BY <1>4, <2>1, <2>2, <2>3 DEF Offline!NoSync
<1>7. Offline!TypeOK'
  BY <1>1, <1>2, <1>4, <1>5, <1>6, OfflineCounts DEF OfflineInv, Offline!TypeOK, Phases
<1> QED
  BY <1>1, <1>5, <1>7 DEF OfflineInv, SlowRemembered

\* What the banner says of synchronization is the case
\* (FirebaseOfflineStatusGateway): for any number of writes that begin, are slow
\* and end in any order, while the network comes and goes and syncs run, the
\* phase is what the error, the connection and the waiting writes add up to,
\* and a slow write shows.
THEOREM BannerTellsSync ==
  ASSUME Offline!OfflineStatusAssumption
  PROVE  Offline!Spec => [](Offline!TypeOK /\ Offline!SyncTold)
<1>1. Offline!Init => OfflineInv
  BY OfflineInit
<1>2. OfflineInv /\ [Offline!Next]_Offline!vars => OfflineInv'
  BY OfflineBegin, OfflineSlow, OfflineFinish, OfflineRest DEF Offline!Next
<1>3. OfflineInv => Offline!TypeOK /\ Offline!SyncTold
  <2>1. ASSUME OfflineInv PROVE Offline!SlowShown
    <3> SUFFICES ASSUME NEW w \in LocalWrite, writes[w] = "slow", ~lastError, connection # "offline"
                 PROVE  phase = "pending" \/ (sync.running /\ phase = "syncing")
      BY DEF Offline!SlowShown
    <3>1. slowPending
      BY <2>1 DEF OfflineInv, SlowRemembered
    <3>2. w \in Offline!Waiting
      BY DEF Offline!Waiting
    <3>3. pendingWrites \in Nat /\ pendingWrites # 0
      BY <2>1, <3>2, WaitingFinite, OfflineCounts, FS_EmptySet DEF OfflineInv, Offline!TypeOK
    <3>4. Offline!Phase(lastError, connection, pendingWrites, slowPending) = "pending"
      <4>1. lastError \in BOOLEAN /\ slowPending \in BOOLEAN /\ pendingWrites > 0
        BY <2>1, <3>3 DEF OfflineInv, Offline!TypeOK
      <4> QED
        BY <3>1, <3>3, <4>1, PhaseType, Zenon
    <3> QED
      BY <2>1, <3>4 DEF OfflineInv, Offline!PhaseTellsState
  <2> QED
    BY <2>1 DEF OfflineInv, Offline!SyncTold
<1> QED
  BY <1>1, <1>2, <1>3, PTL DEF Offline!Spec

-----------------------------------------------------------------------------
(***************************************************************************)
(* Identity verification.                                                  *)
(***************************************************************************)
LEMMA IdentityCounts ==
  \A S : (Identity!IsFiniteSet(S) <=> IsFiniteSet(S)) /\ Identity!Cardinality(S) = Cardinality(S)
BY DEF Identity!IsFiniteSet, IsFiniteSet, Identity!Cardinality, Cardinality

LEMMA Appended ==
  ASSUME NEW E, NEW s \in Seq(E), NEW x \in E
  PROVE  /\ Append(s, x) \in Seq(E) /\ Len(Append(s, x)) = Len(s) + 1 /\ Append(s, x) # <<>>
         /\ \A i \in 1..Len(s) : Append(s, x)[i] = s[i]
         /\ Append(s, x)[Len(s) + 1] = x
         /\ SubSeq(Append(s, x), 1, Len(s)) = s
         /\ SubSeq(s, 1, Len(s)) = s
         /\ Len(s) \in Nat
OBVIOUS

\* What is so of the record and of every write that waits.
Kept(r) ==
  /\ r \in Identity!Verification /\ Len(r.events) <= MaxEvents
  /\ r.status \notin {"unverified", "draft"} => r.documents # {}

\* HistoryTellsStatus of any record.
History(r) ==
  LET e == r.events IN
  /\ r.level = Identity!getVerificationLevel(r.status)
  /\ r # Identity!NoRecord =>
       e # <<>> /\ e[1].from = "unverified" /\ e[Len(e)].to = r.status
  /\ \A i \in DOMAIN e : /\ e[i].to \in Identity!allowedTransitions[e[i].from]
                         /\ i > 1 => e[i].from = e[i - 1].to

IdentityInv ==
  /\ Identity!TypeOK /\ Kept(record) /\ History(record)
  /\ \A d \in Device : \A i \in 1..Len(queue[d]) : Kept(queue[d][i].data)

LEMMA NoRecordKept ==
  ASSUME Identity!IdentityVerificationAssumption
  PROVE  Kept(Identity!NoRecord) /\ History(Identity!NoRecord)
BY DEF Kept, History, Identity!NoRecord, Identity!Verification, Identity!Status,
       Identity!getVerificationLevel, Identity!IdentityVerificationAssumption

\* A transition continues the history from where the record is.
LEMMA Transitioned ==
  ASSUME NEW c \in Identity!Verification, NEW n \in Identity!Status,
         NEW by \in {"user", "reviewer", "system"}
  PROVE  LET t == Identity!Transition(c, n, by)
             x == [from |-> c.status, to |-> n, by |-> by] IN
         /\ t \in Identity!Verification /\ t.status = n
         /\ t.level = Identity!getVerificationLevel(n)
         /\ x \in Identity!Event /\ t.events = Append(c.events, x)
         /\ t.documents = c.documents
<1> DEFINE x == [from |-> c.status, to |-> n, by |-> by]
           l == Identity!getVerificationLevel(n)
           e == Append(c.events, x)
           t == [c EXCEPT !.status = n, !.level = l, !.events = e]
<1>1. x \in Identity!Event
  BY DEF Identity!Event, Identity!Verification
<1>2. l \in {"none", "basic", "identity_verified"}
  BY DEF Identity!getVerificationLevel
<1>3. e \in Seq(Identity!Event)
  BY <1>1 DEF Identity!Verification
<1>4. Identity!Transition(c, n, by) = t
  BY DEF Identity!Transition
<1> HIDE DEF x, l, e
<1>5. t \in Identity!Verification /\ t.status = n /\ t.level = l /\ t.events = e
      /\ t.documents = c.documents
  BY <1>2, <1>3 DEF Identity!Verification
<1> QED
  BY <1>1, <1>4, <1>5 DEF x, l, e

\* What else a use case sets.
LEMMA Amended ==
  ASSUME NEW c \in Identity!Verification, NEW s \in BOOLEAN, NEW r \in BOOLEAN,
         NEW y \in {"none", "rejected", "revoked"}
  PROVE  LET t == [c EXCEPT !.submitted = s, !.reviewed = r, !.reason = y] IN
         /\ t \in Identity!Verification /\ t.status = c.status /\ t.level = c.level
         /\ t.events = c.events /\ t.documents = c.documents
BY DEF Identity!Verification

LEMMA HistoryGrows ==
  ASSUME NEW c \in Identity!Verification, History(c), c # Identity!NoRecord,
         NEW n \in Identity!allowedTransitions[c.status],
         NEW by, NEW t,
         t.status = n, t.level = Identity!getVerificationLevel(n),
         [from |-> c.status, to |-> n, by |-> by] \in Identity!Event,
         t.events = Append(c.events, [from |-> c.status, to |-> n, by |-> by])
  PROVE  History(t)
<1> DEFINE x == [from |-> c.status, to |-> n, by |-> by]
           e == c.events
<1>1. e \in Seq(Identity!Event) /\ e # <<>> /\ e[1].from = "unverified"
      /\ e[Len(e)].to = c.status
  BY DEF History, Identity!Verification
<1>2. x.from = c.status /\ x.to = n
  OBVIOUS
<1> HIDE DEF x, e
<1>3. /\ Len(t.events) = Len(e) + 1 /\ t.events # <<>> /\ Len(e) \in Nat
      /\ \A i \in 1..Len(e) : t.events[i] = e[i]
      /\ t.events[Len(e) + 1] = x
      /\ t.events \in Seq(Identity!Event)
  BY <1>1, Appended DEF x, e
<1>4. Len(e) >= 1 /\ t.events[1].from = "unverified"
  BY <1>1, <1>3
<1>5. ASSUME NEW i \in DOMAIN t.events
      PROVE  /\ t.events[i].to \in Identity!allowedTransitions[t.events[i].from]
             /\ i > 1 => t.events[i].from = t.events[i - 1].to
  <2>1. i \in 1..(Len(e) + 1)
    BY <1>3
  <2>2. CASE i = Len(e) + 1
    BY <1>1, <1>2, <1>3, <1>4, <2>2
  <2>3. CASE i # Len(e) + 1
    <3>1. i \in 1..Len(e) /\ i \in DOMAIN e
      BY <1>1, <1>3, <2>1, <2>3
    <3>2. i > 1 => i - 1 \in 1..Len(e)
      BY <1>3, <3>1
    <3> QED
      BY <1>3, <3>1, <3>2 DEF History, e
  <2> QED
    BY <2>2, <2>3
<1>6. t.events[Len(t.events)].to = t.status
  BY <1>2, <1>3
<1> QED
  BY <1>3, <1>4, <1>5, <1>6 DEF History

LEMMA IdentityInit == Identity!IdentityVerificationAssumption /\ Identity!Init => IdentityInv
<1> SUFFICES ASSUME Identity!IdentityVerificationAssumption, Identity!Init PROVE IdentityInv
  OBVIOUS
<1>1. Kept(record) /\ History(record)
  BY NoRecordKept DEF Identity!Init
<1>2. Cardinality(record.documents) <= MaxDocuments
  BY FS_EmptySet DEF Identity!Init, Identity!NoRecord, Identity!IdentityVerificationAssumption
<1>3. /\ queue \in [Device -> Seq(Identity!Write)] /\ \A d \in Device : queue[d] = <<>>
  BY DEF Identity!Init
<1>4. 0 <= MaxQueue
  BY DEF Identity!IdentityVerificationAssumption
<1>5. Identity!TypeOK
  BY <1>1, <1>2, <1>3, <1>4, IdentityCounts DEF Identity!TypeOK, Identity!Init, Kept
<1> QED
  BY <1>1, <1>3, <1>5 DEF IdentityInv

\* A device sees the stored record or the last of its writes.
LEMMA Viewed ==
  ASSUME IdentityInv, NEW d \in Device
  PROVE  Kept(Identity!View(d))
<1>1. queue[d] \in Seq(Identity!Write)
  BY DEF IdentityInv, Identity!TypeOK
<1>2. CASE queue[d] = <<>>
  BY <1>2 DEF IdentityInv, Identity!View
<1>3. CASE queue[d] # <<>>
  <2>1. Len(queue[d]) \in 1..Len(queue[d])
    BY <1>1, <1>3
  <2> QED
    BY <1>3, <2>1 DEF IdentityInv, Identity!View
<1> QED
  BY <1>2, <1>3

LEMMA IdentitySave ==
  ASSUME IdentityInv, NEW d \in Device, NEW r, Kept(r), NEW k \in BOOLEAN,
         Identity!IdentityVerificationAssumption, Identity!Save(d, r, k)
  PROVE  IdentityInv'
<1> DEFINE w == [data |-> r, kept |-> k]
<1>1. w \in Identity!Write /\ w.data = r
  BY DEF Identity!Write, Kept
<1>2. queue[d] \in Seq(Identity!Write) /\ Len(queue[d]) < MaxQueue /\ MaxQueue \in Nat
  BY DEF IdentityInv, Identity!TypeOK, Identity!Save, Identity!IdentityVerificationAssumption
<1>3. /\ queue' = [queue EXCEPT ![d] = Append(queue[d], w)] /\ UNCHANGED <<record, ahead>>
  BY DEF Identity!Save
<1> HIDE DEF w
<1>4. /\ Append(queue[d], w) \in Seq(Identity!Write)
      /\ Len(Append(queue[d], w)) = Len(queue[d]) + 1 /\ Len(queue[d]) \in Nat
      /\ \A i \in 1..Len(queue[d]) : Append(queue[d], w)[i] = queue[d][i]
      /\ Append(queue[d], w)[Len(queue[d]) + 1] = w
  BY <1>1, <1>2, Appended
<1>5. /\ queue' \in [Device -> Seq(Identity!Write)] /\ queue'[d] = Append(queue[d], w)
      /\ \A e \in Device \ {d} : queue'[e] = queue[e]
  BY <1>3, <1>4 DEF IdentityInv, Identity!TypeOK
<1>6. ASSUME NEW e \in Device PROVE Len(queue'[e]) <= MaxQueue
  <2>1. CASE e = d
    BY <1>2, <1>4, <1>5, <2>1
  <2>2. CASE e # d
    BY <1>5, <2>2 DEF IdentityInv, Identity!TypeOK
  <2> QED
    BY <2>1, <2>2
<1>7. Identity!TypeOK'
  BY <1>3, <1>5, <1>6 DEF IdentityInv, Identity!TypeOK
<1>8. ASSUME NEW e \in Device, NEW i \in 1..Len(queue'[e]) PROVE Kept(queue'[e][i].data)
  <2>1. CASE e # d
    BY <1>5, <2>1 DEF IdentityInv
  <2>2. CASE e = d
    <3>1. i \in 1..Len(queue[d]) \/ i = Len(queue[d]) + 1
      BY <1>4, <1>5, <2>2
    <3> QED
      BY <1>1, <1>4, <1>5, <2>2, <3>1 DEF IdentityInv
  <2> QED
    BY <2>1, <2>2
<1>9. Kept(record)' /\ History(record)'
  BY <1>3 DEF IdentityInv, Kept, History
<1> QED
  BY <1>7, <1>8, <1>9 DEF IdentityInv

\* What the user does on a device waits there.
LEMMA IdentityUser ==
  ASSUME Identity!IdentityVerificationAssumption, IdentityInv, NEW d \in Device,
         \/ Identity!StartDraft(d) \/ Identity!SubmitVerification(d)
         \/ \E x \in DocumentId : Identity!UpdateDocumentMetadata(d, x)
  PROVE  IdentityInv' /\ UNCHANGED record
<1> DEFINE c == Identity!View(d)
<1>1. Kept(c) /\ c \in Identity!Verification /\ c.events \in Seq(Identity!Event)
  BY Viewed DEF Kept, Identity!Verification
<1> HIDE DEF c
<1>2. MaxEvents \in Nat /\ MaxEvents > 0
  BY DEF Identity!IdentityVerificationAssumption
<1>3. ASSUME NEW r \in Identity!Verification, NEW n \in Identity!Status,
             Len(r.events) < MaxEvents
      PROVE  LET t == Identity!Transition(r, n, "user") IN
             t \in Identity!Verification /\ Len(t.events) <= MaxEvents /\ t.status = n
             /\ t.documents = r.documents
  <2>1. r.events \in Seq(Identity!Event)
    BY DEF Identity!Verification
  <2> DEFINE t == Identity!Transition(r, n, "user")
             x == [from |-> r.status, to |-> n, by |-> "user"]
  <2>2. /\ t \in Identity!Verification /\ t.status = n /\ x \in Identity!Event
        /\ t.events = Append(r.events, x) /\ t.documents = r.documents
    BY Transitioned
  <2> HIDE DEF t, x
  <2>3. Len(t.events) = Len(r.events) + 1 /\ Len(r.events) \in Nat
    BY <2>1, <2>2, Appended
  <2>4. Len(t.events) <= MaxEvents
    BY <1>2, <1>3, <2>3
  <2> QED
    BY <2>2, <2>4 DEF t
<1>4. \A s : Identity!allowedTransitions[c.status] \subseteq Identity!Status
  BY <1>1 DEF Identity!allowedTransitions, Identity!Verification, Identity!Status
<1>5. CASE Identity!StartDraft(d)
  <2>1. CASE Identity!Save(d, Identity!FirstDraft, FALSE)
    <3>1. Identity!NoRecord \in Identity!Verification /\ Len(Identity!NoRecord.events) < MaxEvents
      BY <1>2, NoRecordKept DEF Kept, Identity!NoRecord
    <3>2. Kept(Identity!FirstDraft)
      BY <1>3, <3>1 DEF Identity!FirstDraft, Kept, Identity!Status
    <3> QED
      BY <2>1, <3>2, IdentitySave DEF Identity!Save
  <2>2. CASE Identity!MayTransition(c, "draft") /\ Identity!Save(d, Identity!Redraft(c), TRUE)
    <3> DEFINE t == Identity!Transition(c, "draft", "user")
    <3>1. t \in Identity!Verification /\ Len(t.events) <= MaxEvents /\ t.status = "draft"
      BY <1>1, <1>3, <2>2 DEF Identity!MayTransition, Identity!Status
    <3>2. Identity!Redraft(c) = [t EXCEPT !.submitted = FALSE, !.reviewed = FALSE, !.reason = "none"]
      BY SMTT(30) DEF Identity!Redraft
    <3> HIDE DEF t
    <3>3. LET s == [t EXCEPT !.submitted = FALSE, !.reviewed = FALSE, !.reason = "none"] IN
          s \in Identity!Verification /\ s.status = t.status /\ s.events = t.events
      BY <3>1, Amended, ZenonT(30)
    <3>4. Kept(Identity!Redraft(c))
      BY <3>1, <3>2, <3>3 DEF Kept
    <3> QED
      BY <2>2, <3>4, IdentitySave DEF Identity!Save
  <2> QED
    BY <1>5, <2>1, <2>2 DEF Identity!StartDraft, c
<1>6. ASSUME NEW x \in DocumentId, Identity!UpdateDocumentMetadata(d, x)
      PROVE  IdentityInv' /\ UNCHANGED record
  <2> DEFINE ds == c.documents \cup {x}
  <2>1. ds \in SUBSET DocumentId
    BY <1>1 DEF Identity!Verification
  <2>2. c.status = "draft" /\ Identity!Save(d, [c EXCEPT !.documents = ds], TRUE)
    BY <1>6 DEF Identity!UpdateDocumentMetadata, c
  <2> HIDE DEF ds
  <2>3. LET t == [c EXCEPT !.documents = ds] IN
        t \in Identity!Verification /\ t.events = c.events /\ t.status = c.status
    BY <1>1, <2>1 DEF Identity!Verification
  <2>4. Kept([c EXCEPT !.documents = ds])
    BY <1>1, <2>2, <2>3 DEF Kept
  <2> QED
    BY <2>2, <2>4, IdentitySave DEF Identity!Save
<1>7. CASE Identity!SubmitVerification(d)
  <2> DEFINE t == Identity!Transition(c, "submitted", "user")
  <2>1. c.documents # {} /\ Len(c.events) < MaxEvents
        /\ Identity!Save(d, [t EXCEPT !.submitted = TRUE], TRUE)
    BY <1>7 DEF Identity!SubmitVerification, Identity!MayTransition, c
  <2>2. t \in Identity!Verification /\ Len(t.events) <= MaxEvents /\ t.documents = c.documents
    BY <1>1, <1>3, <2>1 DEF Identity!Status
  <2> HIDE DEF t
  <2>3. LET s == [t EXCEPT !.submitted = TRUE] IN
        s \in Identity!Verification /\ s.events = t.events /\ s.documents = t.documents
    BY <2>2 DEF Identity!Verification
  <2>4. Kept([t EXCEPT !.submitted = TRUE])
    BY <2>1, <2>2, <2>3 DEF Kept
  <2> QED
    BY <2>1, <2>4, IdentitySave DEF Identity!Save
<1> QED
  BY <1>5, <1>6, <1>7

\* The record after a step: it stays, a draft begins or is edited without a
\* trace in the history, or the history goes on by one transition.
Grows(n, by) ==
  /\ record # Identity!NoRecord /\ n \in Identity!allowedTransitions[record.status]
  /\ record'.status = n /\ record'.level = Identity!getVerificationLevel(n)
  /\ [from |-> record.status, to |-> n, by |-> by] \in Identity!Event
  /\ record'.events = Append(record.events, [from |-> record.status, to |-> n, by |-> by])
  /\ n # "draft" => record'.documents = record.documents
Edited ==
  /\ record # Identity!NoRecord /\ record.status = "draft" /\ record'.status = "draft"
  /\ record'.level = "basic" /\ record'.events = record.events
Begun == record = Identity!NoRecord /\ Identity!MayCreate(record')

Recorded ==
  /\ Kept(record') /\ History(record')
  /\ Identity!Extended /\ Identity!AsSubmitted

LEMMA Reviewed ==
  ASSUME IdentityInv, Kept(record'),
         \/ UNCHANGED record \/ Begun \/ Edited
         \/ \E n \in Identity!Status : \E by : Grows(n, by)
  PROVE  Recorded
<1>1. /\ record \in Identity!Verification /\ record' \in Identity!Verification
      /\ record.events \in Seq(Identity!Event) /\ record'.events \in Seq(Identity!Event)
      /\ Kept(record) /\ History(record)
  BY DEF IdentityInv, Kept, Identity!Verification
<1>2. /\ Len(record.events) \in Nat
      /\ SubSeq(record.events, 1, Len(record.events)) = record.events
  <2>1. \A s \in Seq(Identity!Event) : Len(s) \in Nat /\ SubSeq(s, 1, Len(s)) = s
    OBVIOUS
  <2> QED
    BY <1>1, <2>1
<1>3. CASE UNCHANGED record
  <2>1. History(record') /\ record'.events = record.events /\ record'.documents = record.documents
    BY <1>1, <1>3
  <2>2. record.status \notin {"unverified", "draft"} => record.documents # {}
    BY <1>1 DEF Kept
  <2> QED
    BY <1>2, <1>3, <2>1, <2>2 DEF Recorded, Identity!Extended, Identity!AsSubmitted
<1>4. CASE Begun
  <2> DEFINE x == [from |-> "unverified", to |-> "draft", by |-> "user"]
  <2>1. record.events = <<>> /\ record'.events = <<x>> /\ record'.status = "draft"
        /\ record'.level = "basic"
    BY <1>4 DEF Begun, Identity!MayCreate, Identity!NoRecord
  <2>2. x.from = "unverified" /\ x.to = "draft" /\ "draft" \in Identity!allowedTransitions["unverified"]
    BY DEF Identity!allowedTransitions, Identity!Status
  <2> HIDE DEF x
  <2>3. History(record')
    BY <2>1, <2>2 DEF History, Identity!getVerificationLevel
  <2>4. Identity!Extended
    BY <2>1 DEF Identity!Extended
  <2> QED
    BY <2>1, <2>3, <2>4 DEF Recorded, Identity!AsSubmitted
<1>5. CASE Edited
  <2>1. History(record')
    BY <1>1, <1>5 DEF Edited, History, Identity!getVerificationLevel
  <2> QED
    BY <1>2, <1>5, <2>1 DEF Edited, Recorded, Identity!Extended, Identity!AsSubmitted
<1>6. ASSUME NEW n \in Identity!Status, NEW by, Grows(n, by)
      PROVE  Recorded
  <2> DEFINE x == [from |-> record.status, to |-> n, by |-> by]
  <2>1. x \in Identity!Event /\ record'.events = Append(record.events, x)
    BY <1>6 DEF Grows
  <2>2. History(record')
    BY <1>1, <1>6, HistoryGrows DEF Grows
  <2> HIDE DEF x
  <2>3. Identity!Extended
    BY <1>1, <2>1, Appended DEF Identity!Extended
  <2>4. Identity!AsSubmitted
    BY <1>6 DEF Grows, Identity!AsSubmitted, Kept
  <2> QED
    BY <2>2, <2>3, <2>4 DEF Recorded
<1> QED
  BY <1>3, <1>4, <1>5, <1>6

LEMMA IdentityServe ==
  ASSUME Identity!IdentityVerificationAssumption, IdentityInv, NEW d \in Device,
         Identity!Serve(d) \/ Identity!Close(d)
  PROVE  IdentityInv' /\ (UNCHANGED record \/ Recorded)
<1>1. queue[d] \in Seq(Identity!Write) /\ queue[d] # <<>>
  BY DEF IdentityInv, Identity!TypeOK, Identity!Serve, Identity!Close
<1> DEFINE q == queue[d]
           s == queue'[d]
           h == q[1].data
<1>2. /\ Len(q) \in Nat /\ 1 \in 1..Len(q) /\ Head(q) = q[1] /\ Tail(q) \in Seq(Identity!Write)
      /\ Len(Tail(q)) = Len(q) - 1 /\ \A i \in 1..Len(Tail(q)) : Tail(q)[i] = q[i + 1]
  BY <1>1
<1>3. /\ queue' = [queue EXCEPT ![d] = <<>>] \/ queue' = [queue EXCEPT ![d] = Tail(q)]
      /\ UNCHANGED ahead
  BY DEF Identity!Serve, Identity!Close
<1>4. /\ queue' \in [Device -> Seq(Identity!Write)] /\ s \in {<<>>, Tail(q)}
      /\ \A e \in Device \ {d} : queue'[e] = queue[e]
  <2>1. PICK r \in {<<>>, Tail(q)} : queue' = [queue EXCEPT ![d] = r]
    BY <1>3
  <2>2. r \in Seq(Identity!Write)
    <3>1. <<>> \in Seq(Identity!Write)
      OBVIOUS
    <3> QED
      BY <1>2, <3>1
  <2> HIDE DEF q
  <2> QED
    BY <2>1, <2>2 DEF IdentityInv, Identity!TypeOK
<1>5. \A e \in Device : Len(queue'[e]) <= MaxQueue
  <2>1. Len(q) <= MaxQueue /\ MaxQueue \in Nat /\ Len(<<>>) = 0
    BY DEF IdentityInv, Identity!TypeOK, Identity!IdentityVerificationAssumption
  <2>2. Len(s) <= MaxQueue
    BY <1>2, <1>4, <2>1
  <2> HIDE DEF s, q
  <2>3. ASSUME NEW e \in Device, e # d PROVE Len(queue'[e]) <= MaxQueue
    BY <1>4, <2>3 DEF IdentityInv, Identity!TypeOK
  <2> QED
    BY <2>2, <2>3 DEF s
<1>6. ASSUME NEW e \in Device, NEW i \in 1..Len(queue'[e]) PROVE Kept(queue'[e][i].data)
  <2>1. CASE e # d
    BY <1>4, <2>1 DEF IdentityInv
  <2>2. CASE e = d
    <3>1. s = Tail(q)
      <4>1. i \in 1..Len(s) /\ Len(<<>>) = 0
        BY <2>2
      <4> HIDE DEF s, q
      <4> QED
        BY <1>4, <4>1
    <3>2. i \in 1..Len(Tail(q))
      BY <2>2, <3>1
    <3>3. i + 1 \in 1..Len(q) /\ queue'[e][i] = q[i + 1]
      BY <1>2, <2>2, <3>1, <3>2
    <3> QED
      BY <3>3 DEF IdentityInv
  <2> QED
    BY <2>1, <2>2
<1>7. Kept(h) /\ Kept(record)
  BY <1>2 DEF IdentityInv
<1>8. \/ UNCHANGED record
      \/ record' = h /\ record = Identity!NoRecord /\ Identity!MayCreate(h)
      \/ record' = h /\ record # Identity!NoRecord /\ (Identity!MayEdit(h) \/ Identity!MaySubmit(h))
  BY <1>2 DEF Identity!Serve, Identity!Close, Identity!Permitted
<1> HIDE DEF q, s, h
<1>9. /\ \/ UNCHANGED record \/ Begun \/ Edited \/ Grows("submitted", "user")
      /\ Kept(record')
      /\ Cardinality(record'.documents) <= MaxDocuments
  <2>0. MaxDocuments \in Nat
    BY DEF Identity!IdentityVerificationAssumption
  <2>1. CASE UNCHANGED record
    BY <1>7, <2>1, IdentityCounts DEF IdentityInv, Identity!TypeOK
  <2>2. CASE record' = h /\ record = Identity!NoRecord /\ Identity!MayCreate(h)
    BY <1>7, <2>0, <2>2, FS_EmptySet DEF Begun, Identity!MayCreate
  <2>3. CASE record' = h /\ record # Identity!NoRecord /\ Identity!MayEdit(h)
    BY <1>7, <2>3, IdentityCounts DEF Edited, Identity!MayEdit
  <2>4. CASE record' = h /\ record # Identity!NoRecord /\ Identity!MaySubmit(h)
    <3>1. Grows("submitted", "user")
      <4>1. "submitted" \in Identity!allowedTransitions["draft"]
        BY DEF Identity!allowedTransitions, Identity!Status
      <4>2. [from |-> "draft", to |-> "submitted", by |-> "user"] \in Identity!Event
        BY DEF Identity!Event, Identity!Status
      <4>3. Identity!getVerificationLevel("submitted") = "basic"
        BY DEF Identity!getVerificationLevel
      <4> QED
        BY <2>4, <4>1, <4>2, <4>3 DEF Grows, Identity!MaySubmit
    <3>2. record'.documents = record.documents
      BY <2>4 DEF Identity!MaySubmit
    <3> QED
      BY <1>7, <2>4, <3>1, <3>2, IdentityCounts DEF IdentityInv, Identity!TypeOK
  <2> QED
    BY <1>8, <2>1, <2>2, <2>3, <2>4
<1>10. Recorded
  <2>1. "submitted" \in Identity!Status
    BY DEF Identity!Status
  <2> QED
    BY <1>9, <2>1, Reviewed
<1>11. Identity!TypeOK'
  BY <1>3, <1>4, <1>5, <1>9, IdentityCounts DEF Identity!TypeOK, Kept, IdentityInv
<1>12. Kept(record)' /\ History(record)'
  BY <1>10 DEF Recorded, Kept, History
<1> QED
  BY <1>6, <1>10, <1>11, <1>12 DEF IdentityInv

\* What the trusted server does to the record is a transition.
LEMMA IdentityTrusted ==
  ASSUME Identity!IdentityVerificationAssumption, IdentityInv,
         record # Identity!NoRecord, UNCHANGED <<queue, ahead>>,
         NEW n \in Identity!Status \ {"submitted"}, NEW by \in {"user", "reviewer", "system"},
         Identity!MayTransition(record, n),
         LET t == Identity!Transition(record, n, by) IN
         /\ record' \in Identity!Verification /\ record'.status = t.status
         /\ record'.level = t.level /\ record'.events = t.events
         /\ record'.documents = t.documents
  PROVE  IdentityInv' /\ Recorded
<1> DEFINE t == Identity!Transition(record, n, by)
           x == [from |-> record.status, to |-> n, by |-> by]
<1>1. record \in Identity!Verification /\ Kept(record) /\ record.events \in Seq(Identity!Event)
      /\ n \in Identity!Status
  BY DEF IdentityInv, Kept, Identity!Verification
<1>2. n \in Identity!allowedTransitions[record.status] /\ Len(record.events) < MaxEvents
  BY DEF Identity!MayTransition
<1>3. /\ t \in Identity!Verification /\ t.status = n
      /\ t.level = Identity!getVerificationLevel(n)
      /\ x \in Identity!Event /\ t.events = Append(record.events, x)
      /\ t.documents = record.documents
  BY <1>1, Transitioned
<1> HIDE DEF t, x
<1>4. /\ record'.status = n /\ record'.level = Identity!getVerificationLevel(n)
      /\ record'.events = Append(record.events, x) /\ record'.documents = record.documents
  BY <1>3 DEF t
<1>5. Grows(n, by)
  BY <1>2, <1>3, <1>4 DEF Grows, x
<1>6. Len(record'.events) <= MaxEvents
  <2>1. Len(record'.events) = Len(record.events) + 1 /\ Len(record.events) \in Nat
    BY <1>1, <1>3, <1>4, Appended
  <2> QED
    BY <1>2, <2>1 DEF Identity!IdentityVerificationAssumption
<1>7. n \notin {"unverified", "draft"} => record.documents # {}
  <2>1. record.status \in Identity!Status /\ n # "submitted"
    BY <1>1 DEF Identity!Verification
  <2>2. record.status \in {"unverified", "draft"} => n \in {"draft"}
    BY <1>2, <2>1 DEF Identity!allowedTransitions, Identity!Status
  <2> QED
    BY <1>1, <2>2 DEF Kept
<1>8. Kept(record')
  BY <1>4, <1>6, <1>7 DEF Kept
<1>9. Recorded
  BY <1>5, <1>8, Reviewed
<1>10. Identity!TypeOK'
  BY <1>4, <1>6 DEF Identity!TypeOK, IdentityInv
<1>11. Kept(record)' /\ History(record)'
  BY <1>9 DEF Recorded, Kept, History
<1> QED
  BY <1>9, <1>10, <1>11 DEF IdentityInv

LEMMA IdentityReview ==
  ASSUME Identity!IdentityVerificationAssumption, IdentityInv,
         NEW n \in Identity!Status \ {"submitted"}, NEW by \in {"user", "reviewer", "system"},
         NEW r \in BOOLEAN, NEW y \in {"none", "rejected", "revoked"},
         Identity!ReviewTransition(n, by, r, y)
  PROVE  IdentityInv' /\ Recorded
<1> DEFINE t == Identity!Transition(record, n, by)
<1>1. record \in Identity!Verification /\ n \in Identity!Status
  BY DEF IdentityInv, Kept
<1> HIDE DEF t
<1>2. t \in Identity!Verification
  BY <1>1, Transitioned, Zenon DEF t
<1>3. /\ record # Identity!NoRecord /\ Identity!MayTransition(record, n)
      /\ record' = [t EXCEPT !.reviewed = r, !.reason = y] /\ UNCHANGED <<queue, ahead>>
  BY DEF Identity!ReviewTransition, Identity!Trusted, t
<1>4. /\ record' \in Identity!Verification /\ record'.status = t.status
      /\ record'.level = t.level /\ record'.events = t.events
      /\ record'.documents = t.documents
  BY <1>2, <1>3 DEF Identity!Verification
<1> QED
  BY <1>3, <1>4, IdentityTrusted DEF t

LEMMA IdentityServer ==
  ASSUME Identity!IdentityVerificationAssumption, IdentityInv,
         \/ Identity!MoveToUnderReview \/ Identity!Verify \/ Identity!Reject \/ Identity!Expire
         \/ Identity!Revoke \/ Identity!RedraftByServer
  PROVE  IdentityInv' /\ Recorded
<1>1. /\ record \in Identity!Verification /\ record.reviewed \in BOOLEAN
      /\ record.reason \in {"none", "rejected", "revoked"}
  BY DEF IdentityInv, Kept, Identity!Verification
<1>2. {"under_review", "verified", "rejected", "expired", "revoked", "draft"}
        \subseteq Identity!Status \ {"submitted"}
  BY DEF Identity!Status
<1>3. CASE Identity!MoveToUnderReview
  BY <1>1, <1>2, <1>3, IdentityReview DEF Identity!MoveToUnderReview
<1>4. CASE Identity!Verify
  BY <1>1, <1>2, <1>4, IdentityReview DEF Identity!Verify
<1>5. CASE Identity!Reject
  BY <1>1, <1>2, <1>5, IdentityReview DEF Identity!Reject
<1>6. CASE Identity!Expire
  BY <1>1, <1>2, <1>6, IdentityReview DEF Identity!Expire
<1>7. CASE Identity!Revoke
  BY <1>1, <1>2, <1>7, IdentityReview DEF Identity!Revoke
<1>8. CASE Identity!RedraftByServer
  <2> DEFINE t == Identity!Transition(record, "draft", "user")
  <2>1. t \in Identity!Verification
    BY <1>1, <1>2, Transitioned
  <2>2. /\ record # Identity!NoRecord /\ Identity!MayTransition(record, "draft")
        /\ record' = [t EXCEPT !.submitted = FALSE, !.reviewed = FALSE, !.reason = "none"]
        /\ UNCHANGED <<queue, ahead>>
    BY <1>8 DEF Identity!RedraftByServer, Identity!Trusted, Identity!Redraft
  <2> HIDE DEF t
  <2>3. /\ record' \in Identity!Verification /\ record'.status = t.status
        /\ record'.level = t.level /\ record'.events = t.events
        /\ record'.documents = t.documents
    BY <2>1, <2>2 DEF Identity!Verification
  <2> QED
    BY <1>2, <2>2, <2>3, IdentityTrusted DEF t
<1> QED
  BY <1>3, <1>4, <1>5, <1>6, <1>7, <1>8

LEMMA IdentityNext ==
  ASSUME Identity!IdentityVerificationAssumption, IdentityInv,
         [Identity!Next]_Identity!vars
  PROVE  IdentityInv' /\ [Identity!Extended /\ Identity!AsSubmitted]_Identity!vars
<1>1. ASSUME UNCHANGED record
      PROVE  Identity!Extended /\ Identity!AsSubmitted
  <2>1. Kept(record')
    BY <1>1 DEF IdentityInv
  <2> QED
    BY <1>1, <2>1, Reviewed DEF Recorded
<1>2. CASE UNCHANGED Identity!vars
  BY <1>2 DEF Identity!vars, IdentityInv, Identity!TypeOK, Kept, History
<1> QED
  BY <1>1, <1>2, IdentityUser, IdentityServe, IdentityServer DEF Identity!Next, Recorded

\* Who is verified was reviewed on what they submitted
\* (IdentityVerificationService and the rules), for any number of devices with
\* writes waiting: the history accounts for the status and only ever grows, and
\* what is submitted is what was stored, not empty, and not changed in review.
THEOREM ReviewsAreOfSubmissions ==
  ASSUME Identity!IdentityVerificationAssumption
  PROVE  Identity!Spec => /\ [](Identity!TypeOK /\ Identity!HistoryTellsStatus)
                          /\ [][Identity!Extended]_Identity!vars
                          /\ Identity!ReviewedAsSubmitted
<1>1. Identity!Init => IdentityInv
  BY IdentityInit
<1>2. IdentityInv /\ [Identity!Next]_Identity!vars => IdentityInv'
  BY IdentityNext
<1>3. IdentityInv /\ [Identity!Next]_Identity!vars
        => [Identity!Extended]_Identity!vars /\ [Identity!AsSubmitted]_Identity!vars
  BY IdentityNext
<1>4. IdentityInv => Identity!TypeOK /\ Identity!HistoryTellsStatus
  BY DEF IdentityInv, History, Identity!HistoryTellsStatus
<1> QED
  BY <1>1, <1>2, <1>3, <1>4, PTL DEF Identity!Spec, Identity!ReviewedAsSubmitted

-----------------------------------------------------------------------------
(***************************************************************************)
(* Signing out of an installation that is registered for notifications.    *)
(***************************************************************************)
LEMMA Removed ==
  ASSUME NEW E, NEW s \in Seq(E), NEW i \in 1..Len(s)
  PROVE  LET r == Push!RemoveAt(s, i) IN
         /\ r \in Seq(E) /\ Len(r) = Len(s) - 1
         /\ \A j \in 1..Len(r) : r[j] = IF j < i THEN s[j] ELSE s[j + 1]
<1> DEFINE a == SubSeq(s, 1, i - 1)
           b == SubSeq(s, i + 1, Len(s))
<1>1. a \in Seq(E) /\ Len(a) = i - 1 /\ \A j \in 1..(i - 1) : a[j] = s[j]
  OBVIOUS
<1>2. b \in Seq(E) /\ Len(b) = Len(s) - i /\ \A j \in 1..(Len(s) - i) : b[j] = s[j + i]
  OBVIOUS
<1>3. Push!RemoveAt(s, i) = a \o b /\ Len(s) \in Nat
  BY DEF Push!RemoveAt
<1> HIDE DEF a, b
<1>4. /\ a \o b \in Seq(E) /\ Len(a \o b) = Len(s) - 1
      /\ \A j \in 1..(Len(s) - 1) :
           (a \o b)[j] = IF j < i THEN a[j] ELSE b[j - (i - 1)]
  <2>1. /\ a \o b \in Seq(E) /\ Len(a \o b) = Len(a) + Len(b)
        /\ \A j \in 1..(Len(a) + Len(b)) :
             (a \o b)[j] = IF j <= Len(a) THEN a[j] ELSE b[j - Len(a)]
    <3> HIDE DEF a, b
    <3> QED
      BY <1>1, <1>2, ConcatProperties
  <2>2. Len(a) = i - 1 /\ Len(b) = Len(s) - i
    BY <1>1, <1>2
  <2> HIDE DEF a, b
  <2> QED
    BY <1>3, <2>1, <2>2
<1>5. ASSUME NEW j \in 1..(Len(s) - 1)
      PROVE  (a \o b)[j] = IF j < i THEN s[j] ELSE s[j + 1]
  <2>1. CASE j < i
    BY <1>1, <1>4, <2>1
  <2>2. CASE ~(j < i)
    <3>1. j - (i - 1) \in 1..(Len(s) - i) /\ j - (i - 1) + i = j + 1
      BY <1>3, <2>2
    <3> QED
      BY <1>2, <1>4, <2>2, <3>1
  <2> QED
    BY <2>1, <2>2
<1> QED
  BY <1>3, <1>4, <1>5

LEMMA Tailed ==
  ASSUME NEW E, NEW s \in Seq(E), s # <<>>
  PROVE  /\ Tail(s) \in Seq(E) /\ Len(Tail(s)) = Len(s) - 1 /\ Head(s) = s[1]
         /\ Len(s) \in Nat /\ Len(s) > 0 /\ 1 \in DOMAIN s
         /\ \A j \in 1..Len(Tail(s)) : Tail(s)[j] = s[j + 1] /\ j + 1 \in 1..Len(s)
OBVIOUS

\* Operations of the authentication service run in the order of their numbers,
\* and at most one of them signs out.
AuthOrdered ==
  /\ since <= asked
  /\ \A i \in DOMAIN auth : since < auth[i].nr /\ auth[i].nr <= asked
  /\ \A i, j \in DOMAIN auth : i < j => auth[i].nr < auth[j].nr
  /\ \A i, j \in DOMAIN auth : auth[i].does = "out" /\ auth[j].does = "out" => i = j

\* Every generation has the sign-out that began it.
GenerationsCounted ==
  /\ registrations <= asked
  /\ \A i \in DOMAIN auth : auth[i].does = "out" /\ auth[i].at # "signing" => registrations < asked

\* Of one generation the first operation alone may have started.
PushOrdered ==
  /\ \A i \in DOMAIN push : push[i].gen <= registrations
  /\ \A i, j \in DOMAIN push : j < i /\ push[j].gen = push[i].gen => push[i].at = "queued"

\* The card waits for the one operation it asked for.
CardWaits ==
  /\ \A i, j \in DOMAIN push : push[i].by = "card" /\ push[j].by = "card" => i = j
  /\ \A i \in DOMAIN push :
       push[i].by = "card" => card.busy /\ (~card.stale => push[i].who = shown)
  /\ Push!CardTellsItsUser

\* Nothing is registered without an installation id; an unregistration that was
\* served holds unless something stray was served after it; and nothing is to
\* register a user who left clean.
CleanKept ==
  /\ ~installation => registered = {} /\ late = {}
                        /\ \A i \in DOMAIN push : push[i].at \in {"queued", "preparing"}
  /\ \A i \in DOMAIN push :
       push[i].does = "unregister" /\ push[i].at = "answered" /\ push[i].gen = registrations
         /\ push[i].who \in registered => push[i].who \in strayed
  /\ \A i \in DOMAIN push : push[i].does = "register" => push[i].who \notin clean
  /\ Push!CleanSignOut

PushInv ==
  /\ Push!TypeOK /\ AuthOrdered /\ GenerationsCounted
  /\ PushOrdered /\ CardWaits /\ CleanKept

LEMMA PushInit == Push!PushSessionAssumption /\ Push!Init => PushInv
<1> SUFFICES ASSUME Push!PushSessionAssumption, Push!Init PROVE PushInv
  OBVIOUS
<1>1. 0 \in 0..MaxSessions /\ 0 \in 0..MaxPresses /\ 0 \in 0..MaxRestarts
  BY DEF Push!PushSessionAssumption
<1>2. Push!TypeOK
  <2>1. Push!IdleCard \in [busy : BOOLEAN, stale : BOOLEAN, told : User \cup {Nobody}]
    BY DEF Push!IdleCard
  <2>2. <<>> \in Seq(Push!AuthOp) /\ <<>> \in Seq(Push!PushOp)
    OBVIOUS
  <2> QED
    BY <1>1, <2>1, <2>2 DEF Push!Init, Push!TypeOK
<1>3. AuthOrdered /\ GenerationsCounted /\ PushOrdered
  BY DEF Push!Init, AuthOrdered, GenerationsCounted, PushOrdered
<1>4. CardWaits /\ CleanKept
  BY DEF Push!Init, CardWaits, CleanKept, Push!CardTellsItsUser, Push!CleanSignOut, Push!IdleCard
<1> QED
  BY <1>2, <1>3, <1>4 DEF PushInv

\* A sign-in or sign-out that is asked for
LEMMA PushAsks ==
  ASSUME Push!PushSessionAssumption, PushInv,
         (\E u \in User : Push!AskSignIn(u)) \/ Push!AskSignOut
  PROVE  PushInv'
<1>1. PICK d \in {"in", "out"}, u \in User \cup {Nobody} :
        /\ auth' = Append(auth, [does |-> d, who |-> u, nr |-> asked + 1, at |-> "queued"])
        /\ d = "out" => \A i \in DOMAIN auth : auth[i].does # "out"
        /\ asked < MaxSessions /\ asked' = asked + 1
  BY DEF Push!AskSignIn, Push!AskSignOut
<1>2. UNCHANGED <<current, shown, push, registrations, installation, card, registered, late,
                  pressed, restarts, clean, strayed, since>>
  BY DEF Push!AskSignIn, Push!AskSignOut, Push!serverVars
<1> DEFINE x == [does |-> d, who |-> u, nr |-> asked + 1, at |-> "queued"]
<1>3. asked \in Nat /\ MaxSessions \in Nat /\ asked + 1 \in 1..MaxSessions
      /\ since \in Nat /\ registrations \in Nat /\ auth \in Seq(Push!AuthOp)
  BY <1>1 DEF PushInv, Push!TypeOK, Push!PushSessionAssumption
<1>4. x \in Push!AuthOp /\ x.nr = asked + 1 /\ x.does = d /\ x.at = "queued"
  BY <1>3 DEF Push!AuthOp
<1> HIDE DEF x
<1>5. /\ auth' \in Seq(Push!AuthOp) /\ Len(auth') = Len(auth) + 1 /\ Len(auth) \in Nat
      /\ \A i \in 1..Len(auth) : auth'[i] = auth[i]
      /\ auth'[Len(auth) + 1] = x
  BY <1>1, <1>3, <1>4, Appended DEF x
<1>6. Push!TypeOK'
  BY <1>1, <1>2, <1>3, <1>5 DEF PushInv, Push!TypeOK
<1>7. \A i \in DOMAIN auth' : (i \in DOMAIN auth /\ auth'[i] = auth[i] /\ i < Len(auth) + 1)
                              \/ (i = Len(auth) + 1 /\ auth'[i] = x)
  BY <1>3, <1>5
<1>8. \A i \in DOMAIN auth : auth[i].nr \in Nat
  <2>1. \A i \in DOMAIN auth : auth[i] \in Push!AuthOp
    BY <1>3
  <2>2. \A y \in Push!AuthOp : y.nr \in 1..MaxSessions
    BY DEF Push!AuthOp
  <2> QED
    BY <1>3, <2>1, <2>2
<1>9. AuthOrdered'
  BY <1>1, <1>2, <1>3, <1>4, <1>7, <1>8 DEF PushInv, AuthOrdered
<1>10. GenerationsCounted'
  BY <1>1, <1>2, <1>3, <1>4, <1>7 DEF PushInv, GenerationsCounted
<1>11. PushOrdered' /\ CardWaits' /\ CleanKept'
  BY <1>2 DEF PushInv, PushOrdered, CardWaits, CleanKept, Push!CardTellsItsUser,
              Push!CleanSignOut
<1> QED
  BY <1>6, <1>9, <1>10, <1>11 DEF PushInv

\* An operation of the authentication service ends.
LEMMA AuthEnds ==
  ASSUME Push!PushSessionAssumption, PushInv, Push!SignIn \/ Push!SignOut
  PROVE  PushInv'
<1>1. auth \in Seq(Push!AuthOp) /\ auth # <<>> /\ auth' = Tail(auth)
      /\ UNCHANGED <<shown, push, registrations, installation, card, registered, late, pressed,
                     asked, restarts, strayed>>
  BY DEF PushInv, Push!TypeOK, Push!SignIn, Push!SignOut, Push!Running, Push!serverVars,
         Push!countVars
<1>2. /\ auth' \in Seq(Push!AuthOp) /\ Len(auth') = Len(auth) - 1 /\ Head(auth) = auth[1]
      /\ Len(auth) \in Nat /\ 1 \in DOMAIN auth
      /\ \A j \in DOMAIN auth' : auth'[j] = auth[j + 1] /\ j + 1 \in DOMAIN auth /\ j \in Nat /\ j >= 1
  BY <1>1, Tailed
<1>3. auth[1] \in Push!AuthOp /\ auth[1].nr \in 1..MaxSessions
      /\ auth[1].who \in User \cup {Nobody}
  <2>1. auth[1] \in Push!AuthOp
    BY <1>1, <1>2
  <2> QED
    BY <2>1 DEF Push!AuthOp
<1>4. /\ current' \in User \cup {Nobody}
      /\ since' = since \/ since' = auth[1].nr
      /\ clean' \subseteq clean
  BY <1>2, <1>3 DEF PushInv, Push!TypeOK, Push!SignIn, Push!SignOut
<1>5. since' \in 0..MaxSessions
  BY <1>3, <1>4 DEF PushInv, Push!TypeOK
<1>6. Push!TypeOK'
  BY <1>1, <1>2, <1>4, <1>5 DEF PushInv, Push!TypeOK
<1>7. \A j \in DOMAIN auth' : auth[1].nr < auth[j + 1].nr
  <2> SUFFICES ASSUME NEW j \in DOMAIN auth' PROVE auth[1].nr < auth[j + 1].nr
    OBVIOUS
  <2>1. j + 1 \in DOMAIN auth /\ 1 < j + 1
    BY <1>2
  <2> QED
    BY <1>2, <2>1 DEF PushInv, AuthOrdered
<1>8. AuthOrdered'
  BY <1>1, <1>2, <1>4, <1>7 DEF PushInv, AuthOrdered
<1>9. GenerationsCounted'
  BY <1>1, <1>2 DEF PushInv, GenerationsCounted
<1>10. PushOrdered' /\ CardWaits' /\ CleanKept'
  BY <1>1, <1>4 DEF PushInv, PushOrdered, CardWaits, CleanKept, Push!CardTellsItsUser,
                    Push!CleanSignOut
<1> QED
  BY <1>6, <1>8, <1>9, <1>10 DEF PushInv

\* The sign-out takes the user it signs out, and its clean-up is queued.
LEMMA PushBegins ==
  ASSUME Push!PushSessionAssumption, PushInv, Push!BeginSignOut \/ Push!TimeOut
  PROVE  PushInv'
<1>1. /\ auth \in Seq(Push!AuthOp) /\ auth # <<>> /\ Head(auth) = auth[1] /\ 1 \in DOMAIN auth
      /\ auth[1].does = "out" /\ auth[1].at # "signing"
  BY Tailed, SMTT(30) DEF PushInv, Push!TypeOK, Push!BeginSignOut, Push!TimeOut, Push!Running
<1>2. PICK w \in User \cup {Nobody}, a \in {"cleaning", "signing"} :
        /\ auth' = [auth EXCEPT ![1] = [auth[1] EXCEPT !.who = w, !.at = a]]
        /\ w = current \/ w = auth[1].who
  <2>1. auth[1] \in Push!AuthOp /\ current \in User \cup {Nobody}
    BY <1>1 DEF PushInv, Push!TypeOK
  <2>2. auth[1].who \in User \cup {Nobody} /\ auth[1] = [auth[1] EXCEPT !.who = auth[1].who]
    BY <2>1 DEF Push!AuthOp
  <2> QED
    BY <1>1, <2>1, <2>2 DEF Push!BeginSignOut, Push!TimeOut
<1> DEFINE x == [auth[1] EXCEPT !.who = w, !.at = a]
<1>3. x \in Push!AuthOp /\ x.does = "out" /\ x.nr = auth[1].nr /\ x.at = a
  <2>1. auth[1] \in Push!AuthOp
    BY <1>1
  <2> QED
    BY <1>1, <2>1 DEF Push!AuthOp
<1> HIDE DEF x
<1>4. /\ auth' \in Seq(Push!AuthOp) /\ DOMAIN auth' = DOMAIN auth /\ auth'[1] = x
      /\ \A j \in DOMAIN auth : j # 1 => auth'[j] = auth[j]
  BY <1>1, <1>2, <1>3 DEF x
<1>5. UNCHANGED <<current, shown, installation, card, registered, late,
                  pressed, asked, restarts, clean, strayed, since>>
  BY DEF Push!BeginSignOut, Push!TimeOut, Push!serverVars, Push!countVars
<1>6. AuthOrdered'
  BY <1>1, <1>3, <1>4, <1>5 DEF PushInv, AuthOrdered
<1>7. registrations < asked /\ asked \in 0..MaxSessions /\ registrations \in Nat /\ MaxSessions \in Nat
  BY <1>1 DEF PushInv, GenerationsCounted, Push!TypeOK, Push!PushSessionAssumption
<1>8. CASE Push!TimeOut
  <2>1. registrations' = registrations + 1 /\ a = "signing" /\ UNCHANGED push
    <3>1. auth'[1].at = "signing" /\ auth'[1].at = a
      <4>1. auth' = [auth EXCEPT ![1] = [auth[1] EXCEPT !.at = "signing"]]
        BY <1>8 DEF Push!TimeOut
      <4>2. auth[1] \in Push!AuthOp
        BY <1>1
      <4>3. [auth[1] EXCEPT !.at = "signing"].at = "signing"
        BY <4>2 DEF Push!AuthOp
      <4>4. auth'[1] = [auth[1] EXCEPT !.at = "signing"]
        BY <1>1, <4>1
      <4> QED
        BY <1>3, <1>4, <4>3, <4>4
    <3> QED
      BY <1>8, <3>1 DEF Push!TimeOut
  <2>2. GenerationsCounted'
    BY <1>1, <1>3, <1>4, <1>5, <1>7, <2>1 DEF PushInv, GenerationsCounted, AuthOrdered
  <2>3. Push!TypeOK'
    BY <1>4, <1>5, <1>7, <2>1 DEF PushInv, Push!TypeOK
  <2>4. \A i \in DOMAIN push : push[i].gen \in Nat
    <3>1. \A i \in DOMAIN push : push[i] \in Push!PushOp
      BY DEF PushInv, Push!TypeOK
    <3>2. \A y \in Push!PushOp : y.gen \in Nat
      BY DEF Push!PushOp
    <3> QED
      BY <3>1, <3>2
  <2>5. PushOrdered' /\ CardWaits' /\ CleanKept'
    BY <1>5, <1>7, <2>1, <2>4 DEF PushInv, PushOrdered, CardWaits, CleanKept,
                                  Push!CardTellsItsUser, Push!CleanSignOut
  <2> QED
    BY <1>6, <2>2, <2>3, <2>5 DEF PushInv
<1>9. CASE Push!BeginSignOut
  <2>1. UNCHANGED registrations
    BY <1>9 DEF Push!BeginSignOut
  <2>2. GenerationsCounted'
    BY <1>1, <1>3, <1>4, <1>5, <1>7, <2>1 DEF PushInv, GenerationsCounted
  <2>3. CASE current = Nobody
    <3>1. UNCHANGED push
      BY <1>9, <2>3 DEF Push!BeginSignOut
    <3>2. Push!TypeOK'
      BY <1>4, <1>5, <2>1, <3>1 DEF PushInv, Push!TypeOK
    <3>3. PushOrdered' /\ CardWaits' /\ CleanKept'
      BY <1>5, <2>1, <3>1 DEF PushInv, PushOrdered, CardWaits, CleanKept,
                              Push!CardTellsItsUser, Push!CleanSignOut
    <3> QED
      BY <1>6, <2>2, <3>2, <3>3 DEF PushInv
  <2>4. CASE current # Nobody
    <3> DEFINE y == [does |-> "unregister", who |-> current, gen |-> registrations,
                     by |-> "signOut", at |-> "queued"]
    <3>1. push' = Append(push, y) /\ push \in Seq(Push!PushOp)
      BY <1>9, <2>4 DEF PushInv, Push!TypeOK, Push!BeginSignOut
    <3>2. y \in Push!PushOp /\ y.does = "unregister" /\ y.gen = registrations
          /\ y.by = "signOut" /\ y.at = "queued"
      BY <1>7, <2>4 DEF Push!PushOp, PushInv, Push!TypeOK
    <3> HIDE DEF y
    <3>3. push' \in Seq(Push!PushOp)
          /\ \A i \in DOMAIN push' :
               (i \in DOMAIN push /\ push'[i] = push[i] /\ i < Len(push) + 1)
               \/ (i = Len(push) + 1 /\ push'[i] = y)
      BY <3>1, <3>2, Appended
    <3>4. Push!TypeOK'
      BY <1>4, <1>5, <2>1, <3>3 DEF PushInv, Push!TypeOK
    <3>5. PushOrdered'
      BY <1>7, <2>1, <3>2, <3>3 DEF PushInv, PushOrdered
    <3>6. CardWaits'
      BY <1>5, <3>2, <3>3 DEF PushInv, CardWaits, Push!CardTellsItsUser
    <3>7. CleanKept'
      BY <1>5, <2>1, <3>2, <3>3 DEF PushInv, CleanKept, Push!CleanSignOut
    <3> QED
      BY <1>6, <2>2, <3>4, <3>5, <3>6, <3>7 DEF PushInv
  <2> QED
    BY <2>3, <2>4
<1> QED
  BY <1>8, <1>9

\* What leaves the two queues alone
LEMMA PushShows ==
  ASSUME Push!PushSessionAssumption, PushInv, Push!ShowUser
  PROVE  PushInv'
<1>1. /\ shown' = current /\ card' = [card EXCEPT !.told = Nobody, !.stale = card.busy]
      /\ UNCHANGED <<current, auth, push, registrations, installation, registered, late,
                     pressed, asked, restarts, clean, strayed, since>>
  BY DEF Push!ShowUser, Push!serverVars, Push!countVars
<1>2. /\ card' \in [busy : BOOLEAN, stale : BOOLEAN, told : User \cup {Nobody}]
      /\ card'.busy = card.busy /\ card'.stale = card.busy /\ card'.told = Nobody
  BY <1>1 DEF PushInv, Push!TypeOK
<1>3. Push!TypeOK'
  BY <1>1, <1>2 DEF PushInv, Push!TypeOK
<1>4. AuthOrdered' /\ GenerationsCounted' /\ PushOrdered'
  BY <1>1 DEF PushInv, AuthOrdered, GenerationsCounted, PushOrdered
<1>5. CardWaits'
  BY <1>1, <1>2 DEF PushInv, CardWaits, Push!CardTellsItsUser
<1>6. CleanKept'
  BY <1>1 DEF PushInv, CleanKept, Push!CleanSignOut
<1> QED
  BY <1>3, <1>4, <1>5, <1>6 DEF PushInv

LEMMA PushServesLate ==
  ASSUME Push!PushSessionAssumption, PushInv, Push!ServeLate
  PROVE  PushInv'
<1>1. PICK x \in late :
        /\ late' = late \ {x} /\ Push!Registers(x) /\ strayed' = strayed \cup {x.who}
        /\ UNCHANGED <<current, shown, auth, push, registrations, installation, card,
                       pressed, asked, restarts, clean, since>>
  BY DEF Push!ServeLate, Push!countVars
<1>2. x \in Push!Request /\ x.who \in User
  BY DEF PushInv, Push!TypeOK, Push!Request
<1>3. registered' \subseteq registered \cup {x.who} /\ registered' \subseteq User
  BY <1>1, <1>2 DEF Push!Registers, PushInv, Push!TypeOK
<1>4. Push!TypeOK'
  BY <1>1, <1>2, <1>3 DEF PushInv, Push!TypeOK
<1>5. AuthOrdered' /\ GenerationsCounted' /\ PushOrdered' /\ CardWaits'
  BY <1>1 DEF PushInv, AuthOrdered, GenerationsCounted, PushOrdered, CardWaits,
              Push!CardTellsItsUser
<1>6. installation
  BY <1>1 DEF PushInv, CleanKept
<1>7. CleanKept'
  BY <1>1, <1>3, <1>6 DEF PushInv, CleanKept, Push!CleanSignOut
<1> QED
  BY <1>4, <1>5, <1>7 DEF PushInv

LEMMA PushPressed ==
  ASSUME Push!PushSessionAssumption, PushInv,
         NEW d \in {"register", "unregister"}, Push!PressButton(d)
  PROVE  PushInv'
<1> DEFINE y == [does |-> d, who |-> shown, gen |-> registrations, by |-> "card", at |-> "queued"]
<1>1. /\ push' = Append(push, y) /\ push \in Seq(Push!PushOp) /\ ~card.busy
      /\ card' = [Push!IdleCard EXCEPT !.busy = TRUE]
      /\ pressed < MaxPresses /\ pressed' = pressed + 1
      /\ clean' = IF d = "register" THEN clean \ {shown} ELSE clean
      /\ UNCHANGED <<current, shown, auth, registrations, installation, registered, late,
                     asked, restarts, strayed, since>>
  BY DEF PushInv, Push!TypeOK, Push!PressButton, Push!serverVars
<1>2. y \in Push!PushOp /\ y.does = d /\ y.gen = registrations /\ y.who = shown
      /\ y.by = "card" /\ y.at = "queued" /\ registrations \in Nat
  BY DEF Push!PushOp, PushInv, Push!TypeOK, Push!PressButton
<1> HIDE DEF y
<1>3. push' \in Seq(Push!PushOp)
      /\ \A i \in DOMAIN push' :
           (i \in DOMAIN push /\ push'[i] = push[i] /\ i < Len(push) + 1)
           \/ (i = Len(push) + 1 /\ push'[i] = y)
  BY <1>1, <1>2, Appended
<1>4. /\ card' \in [busy : BOOLEAN, stale : BOOLEAN, told : User \cup {Nobody}]
      /\ card'.busy /\ card'.told = Nobody
  BY <1>1 DEF Push!IdleCard
<1>5. pressed' \in 0..MaxPresses
  BY <1>1 DEF PushInv, Push!TypeOK, Push!PushSessionAssumption
<1>6. Push!TypeOK'
  BY <1>1, <1>3, <1>4, <1>5 DEF PushInv, Push!TypeOK
<1>7. AuthOrdered' /\ GenerationsCounted'
  BY <1>1 DEF PushInv, AuthOrdered, GenerationsCounted
<1>8. PushOrdered'
  BY <1>1, <1>2, <1>3 DEF PushInv, PushOrdered
<1>9. CardWaits'
  BY <1>1, <1>2, <1>3, <1>4 DEF PushInv, CardWaits, Push!CardTellsItsUser
<1>10. CleanKept'
  BY <1>1, <1>2, <1>3 DEF PushInv, CleanKept, Push!CleanSignOut
<1> QED
  BY <1>6, <1>7, <1>8, <1>9, <1>10 DEF PushInv

LEMMA PushRestarts ==
  ASSUME Push!PushSessionAssumption, PushInv, Push!Restart
  PROVE  PushInv'
<1>1. /\ restarts < MaxRestarts /\ restarts' = restarts + 1
      /\ auth' = <<>> /\ push' = <<>> /\ registrations' = 0
      /\ shown' = Nobody /\ card' = Push!IdleCard /\ clean' = clean \ {current}
      /\ UNCHANGED <<current, installation, registered, pressed, asked, strayed, since>>
  BY DEF Push!Restart
<1>2. late' = late \cup {[does |-> push[i].does, who |-> push[i].who] :
                           i \in {j \in DOMAIN push : push[j].at = "sent"}}
  BY DEF Push!Restart
<1>3. late' \subseteq Push!Request
  <2>1. \A i \in DOMAIN push : [does |-> push[i].does, who |-> push[i].who] \in Push!Request
    <3>1. \A i \in DOMAIN push : push[i] \in Push!PushOp
      BY DEF PushInv, Push!TypeOK
    <3>2. \A y \in Push!PushOp : [does |-> y.does, who |-> y.who] \in Push!Request
      BY DEF Push!PushOp, Push!Request
    <3> QED
      BY <3>1, <3>2
  <2> QED
    BY <1>2, <2>1 DEF PushInv, Push!TypeOK
<1>4. ~installation => late' = {}
  BY <1>2 DEF PushInv, CleanKept
<1>5. Push!IdleCard \in [busy : BOOLEAN, stale : BOOLEAN, told : User \cup {Nobody}]
      /\ Push!IdleCard.told = Nobody
  BY DEF Push!IdleCard
<1>6. restarts' \in 0..MaxRestarts /\ 0 \in 0..MaxSessions /\ asked \in Nat
  BY <1>1 DEF PushInv, Push!TypeOK, Push!PushSessionAssumption
<1>7. Push!TypeOK'
  <2>1. <<>> \in Seq(Push!AuthOp) /\ <<>> \in Seq(Push!PushOp)
    OBVIOUS
  <2> QED
    BY <1>1, <1>3, <1>5, <1>6, <2>1 DEF PushInv, Push!TypeOK
<1>8. AuthOrdered' /\ GenerationsCounted' /\ PushOrdered'
  BY <1>1, <1>6 DEF PushInv, AuthOrdered, GenerationsCounted, PushOrdered
<1>9. CardWaits'
  BY <1>1, <1>5 DEF CardWaits, Push!CardTellsItsUser
<1>10. CleanKept'
  BY <1>1, <1>4 DEF PushInv, CleanKept, Push!CleanSignOut
<1> QED
  BY <1>7, <1>8, <1>9, <1>10 DEF PushInv

\* An operation of the registration service that goes on
LEMMA PushGoesOn ==
  ASSUME Push!PushSessionAssumption, PushInv, NEW i \in DOMAIN push,
         NEW a \in {"preparing", "sent", "answered"},
         push' = [push EXCEPT ![i].at = a],
         \/ push[i].at # "queued"
         \/ \A j \in DOMAIN push : j < i => push[j].gen # push[i].gen,
         a # "preparing" => installation',
         installation' \in BOOLEAN, installation => installation',
         registered' \subseteq User, strayed' \in SUBSET User, strayed \subseteq strayed',
         registered' # registered => installation,
         \A u \in registered' : u \in registered \/ u \in strayed'
                                  \/ (u = push[i].who /\ push[i].does = "register"
                                      /\ push[i].gen = registrations),
         a = "answered" /\ push[i].does = "unregister" /\ push[i].gen = registrations
            => push[i].who \notin registered',
         push[i].does = "register" /\ a = "answered" /\ push[i].at # "sent" => FALSE,
         UNCHANGED <<current, shown, auth, registrations, card, late, pressed, asked, restarts,
                     clean, since>>
  PROVE  PushInv'
<1> DEFINE x == [push[i] EXCEPT !.at = a]
<1>1. push \in Seq(Push!PushOp) /\ push[i] \in Push!PushOp
  BY DEF PushInv, Push!TypeOK
<1>2. /\ x \in Push!PushOp /\ x.does = push[i].does /\ x.who = push[i].who
      /\ x.gen = push[i].gen /\ x.by = push[i].by /\ x.at = a
  BY <1>1 DEF Push!PushOp
<1> HIDE DEF x
<1>3. /\ push' \in Seq(Push!PushOp) /\ DOMAIN push' = DOMAIN push /\ push'[i] = x
      /\ \A j \in DOMAIN push : j # i => push'[j] = push[j]
  BY <1>1, <1>2 DEF x
<1>4. Push!TypeOK'
  BY <1>3 DEF PushInv, Push!TypeOK
<1>5. AuthOrdered' /\ GenerationsCounted'
  BY DEF PushInv, AuthOrdered, GenerationsCounted
<1>6. PushOrdered'
  BY <1>2, <1>3 DEF PushInv, PushOrdered
<1>7. CardWaits'
  BY <1>2, <1>3 DEF PushInv, CardWaits, Push!CardTellsItsUser
<1>8. i \in Nat /\ \A j \in DOMAIN push : j \in Nat
  BY <1>1
<1>9. push[i].does = "register" => push[i].who \notin clean
  BY DEF PushInv, CleanKept
<1>10. CleanKept'
  <2>1. ASSUME ~installation'
        PROVE  registered' = {} /\ late' = {}
               /\ \A j \in DOMAIN push' : push'[j].at \in {"queued", "preparing"}
    BY <1>2, <1>3, <2>1 DEF PushInv, CleanKept
  <2>2. ASSUME NEW j \in DOMAIN push', push'[j].does = "unregister", push'[j].at = "answered",
               push'[j].gen = registrations', push'[j].who \in registered'
        PROVE  push'[j].who \in strayed'
    <3>1. CASE j = i
      BY <1>2, <1>3, <2>2, <3>1
    <3>2. CASE j # i
      <4>1. push'[j] = push[j] /\ j \in DOMAIN push
        BY <1>3, <2>2, <3>2
      <4>2. push[j].who \in registered => push[j].who \in strayed
        BY <2>2, <4>1 DEF PushInv, CleanKept
      <4>3. ~(push[i].gen = registrations /\ push[i].at # "queued")
        BY <1>8, <2>2, <3>2, <4>1 DEF PushInv, PushOrdered
      <4>4. CASE push[i].gen = registrations /\ push[i].at = "queued"
        <5>1. i < j
          BY <1>8, <2>2, <3>2, <4>1, <4>4
        <5> QED
          BY <1>8, <2>2, <4>1, <4>4, <5>1 DEF PushInv, PushOrdered
      <4> QED
        BY <2>2, <4>1, <4>2, <4>3, <4>4
    <3> QED
      BY <3>1, <3>2
  <2>3. \A j \in DOMAIN push' : push'[j].does = "register" => push'[j].who \notin clean'
    BY <1>2, <1>3 DEF PushInv, CleanKept
  <2>4. Push!CleanSignOut'
    BY <1>9 DEF PushInv, CleanKept, Push!CleanSignOut
  <2> QED
    BY <2>1, <2>2, <2>3, <2>4 DEF CleanKept
<1> QED
  BY <1>4, <1>5, <1>6, <1>7, <1>10 DEF PushInv

LEMMA PushServed ==
  ASSUME Push!PushSessionAssumption, PushInv, NEW i \in DOMAIN push, Push!ServePush(i)
  PROVE  PushInv'
<1>1. /\ push[i].at = "sent" /\ Push!Registers(push[i])
      /\ push' = [push EXCEPT ![i].at = "answered"]
      /\ strayed' = IF push[i].gen # registrations THEN strayed \cup {push[i].who} ELSE strayed
      /\ UNCHANGED <<current, shown, auth, registrations, installation, card, late,
                     pressed, asked, restarts, clean, since>>
  BY DEF Push!ServePush, Push!Fenced, Push!countVars
<1>2. push[i] \in Push!PushOp /\ installation \in BOOLEAN /\ installation
  <2>1. push \in Seq(Push!PushOp) /\ installation \in BOOLEAN
    BY DEF PushInv, Push!TypeOK
  <2> QED
    BY <1>1, <2>1 DEF PushInv, CleanKept
<1>3. push[i].who \in User /\ push[i].does \in {"register", "unregister"}
  BY <1>2 DEF Push!PushOp
<1>4. /\ registered' = IF push[i].does = "register" THEN registered \cup {push[i].who}
                       ELSE registered \ {push[i].who}
      /\ registered' \subseteq User /\ strayed' \in SUBSET User /\ strayed \subseteq strayed'
  BY <1>1, <1>3 DEF Push!Registers, PushInv, Push!TypeOK
<1>5. \A u \in registered' : u \in registered \/ u \in strayed'
                               \/ (u = push[i].who /\ push[i].does = "register"
                                   /\ push[i].gen = registrations)
  BY <1>1, <1>4
<1>6. push[i].does = "unregister" => push[i].who \notin registered'
  BY <1>4
<1> QED
  BY <1>1, <1>2, <1>4, <1>5, <1>6, PushGoesOn

\* An operation of the registration service that ends, and lets the sign-out
\* that waits for it go on.  Only an unregistration that was served, or that
\* nothing was registered for, makes the user leave clean.
LEMMA PushEnds ==
  ASSUME Push!PushSessionAssumption, PushInv, NEW i \in DOMAIN push,
         \/ Push!End(i, FALSE)
         \/ Push!End(i, TRUE) /\ (push[i].who \in registered => push[i].who \in strayed),
         installation' \in BOOLEAN, installation => installation',
         late' \subseteq Push!Request, late' # late => installation,
         UNCHANGED <<current, shown, registrations, registered, pressed, asked, restarts, strayed,
                     since>>
  PROVE  PushInv'
<1> DEFINE f(k) == IF k < i THEN k ELSE k + 1
           Waits == push[i].by = "signOut" /\ Push!Running("out", "cleaning")
<1>1. push \in Seq(Push!PushOp) /\ push[i] \in Push!PushOp /\ push[i].who \in User /\ i \in Nat
      /\ i \in 1..Len(push) /\ Len(push) \in Nat
  <2>1. push \in Seq(Push!PushOp) /\ push[i] \in Push!PushOp
    BY DEF PushInv, Push!TypeOK
  <2> QED
    BY <2>1 DEF Push!PushOp
<1>2. /\ push' = Push!RemoveAt(push, i)
      /\ auth' = auth \/ (Waits /\ auth' = [auth EXCEPT ![1].at = "signing"])
      /\ \/ clean' = clean
         \/ /\ clean' = clean \cup {push[i].who}
            /\ push[i].who \in registered => push[i].who \in strayed
            /\ \A j \in DOMAIN push : push[j].does = "register" => push[j].who # push[i].who
      /\ card' = IF push[i].by = "card"
                 THEN [Push!IdleCard EXCEPT !.told = IF card.stale THEN Nobody ELSE push[i].who]
                 ELSE card
  BY DEF Push!End
<1>3. /\ push' \in Seq(Push!PushOp)
      /\ \A k \in DOMAIN push' : f(k) \in DOMAIN push /\ f(k) # i /\ push'[k] = push[f(k)]
      /\ \A j, k \in DOMAIN push' : (j < k => f(j) < f(k)) /\ (f(j) = f(k) => j = k)
  <2>1. /\ push' \in Seq(Push!PushOp) /\ Len(push') = Len(push) - 1
        /\ \A k \in 1..Len(push') : push'[k] = IF k < i THEN push[k] ELSE push[k + 1]
    BY <1>1, <1>2, Removed
  <2>2. DOMAIN push' = 1..(Len(push) - 1) /\ DOMAIN push = 1..Len(push)
    BY <1>1, <2>1
  <2> QED
    BY <1>1, <2>1, <2>2
<1> HIDE DEF f
<1>4. /\ auth' \in Seq(Push!AuthOp) /\ DOMAIN auth' = DOMAIN auth
      /\ \A k \in DOMAIN auth : auth'[k].nr = auth[k].nr /\ auth'[k].does = auth[k].does
                                /\ (auth'[k].at = auth[k].at \/ auth'[k].at = "signing")
  <2>1. auth \in Seq(Push!AuthOp)
    BY DEF PushInv, Push!TypeOK
  <2>2. CASE auth' = auth
    BY <2>1, <2>2
  <2>3. CASE Waits /\ auth' = [auth EXCEPT ![1].at = "signing"]
    <3>1. auth # <<>> /\ 1 \in DOMAIN auth
      BY <2>1, <2>3, Tailed DEF Push!Running
    <3> DEFINE x == [auth[1] EXCEPT !.at = "signing"]
    <3>2. x \in Push!AuthOp /\ x.nr = auth[1].nr /\ x.does = auth[1].does /\ x.at = "signing"
      <4>1. auth[1] \in Push!AuthOp
        BY <2>1, <3>1
      <4> QED
        BY <4>1 DEF Push!AuthOp
    <3>3. auth' = [auth EXCEPT ![1] = x]
      BY <2>3
    <3> HIDE DEF x
    <3> QED
      BY <2>1, <3>1, <3>2, <3>3
  <2> QED
    BY <1>2, <2>2, <2>3
<1>5. card' \in [busy : BOOLEAN, stale : BOOLEAN, told : User \cup {Nobody}]
  BY <1>1, <1>2 DEF Push!IdleCard, PushInv, Push!TypeOK
<1>6. Push!TypeOK'
  BY <1>1, <1>2, <1>3, <1>4, <1>5 DEF PushInv, Push!TypeOK
<1>7. AuthOrdered' /\ GenerationsCounted'
  BY <1>4 DEF PushInv, AuthOrdered, GenerationsCounted
<1>8. PushOrdered'
  BY <1>3 DEF PushInv, PushOrdered
<1>9. CardWaits'
  <2>1. CASE push[i].by = "card"
    <3>1. \A k \in DOMAIN push' : push'[k].by # "card"
      BY <1>3, <2>1 DEF PushInv, CardWaits
    <3>2. card'.told = IF card.stale THEN Nobody ELSE push[i].who
      BY <1>2, <2>1 DEF Push!IdleCard
    <3>3. card.stale \/ push[i].who = shown
      BY <2>1 DEF PushInv, CardWaits
    <3> QED
      BY <3>1, <3>2, <3>3 DEF CardWaits, Push!CardTellsItsUser
  <2>2. CASE push[i].by # "card"
    BY <1>2, <1>3, <2>2 DEF PushInv, CardWaits, Push!CardTellsItsUser
  <2> QED
    BY <2>1, <2>2
<1>10. CleanKept'
  BY <1>2, <1>3 DEF PushInv, CleanKept, Push!CleanSignOut
<1> QED
  BY <1>6, <1>7, <1>8, <1>9, <1>10 DEF PushInv

LEMMA PushStarts ==
  ASSUME Push!PushSessionAssumption, PushInv, NEW i \in DOMAIN push, Push!StartPush(i)
  PROVE  PushInv'
<1>1. /\ push[i].at = "queued" /\ Push!MayStart(i)
      /\ UNCHANGED <<current, shown, registrations, installation, registered, late, pressed,
                     asked, restarts, strayed, since>>
  BY DEF Push!StartPush, Push!serverVars, Push!countVars
<1>2. installation \in BOOLEAN /\ late \subseteq Push!Request /\ registered \subseteq User
      /\ strayed \in SUBSET User /\ push \in Seq(Push!PushOp)
  BY DEF PushInv, Push!TypeOK
<1>3. CASE Push!Fenced(i)
  <2>1. Push!End(i, FALSE)
    BY <1>3 DEF Push!StartPush
  <2>2. installation' \in BOOLEAN /\ (installation => installation')
        /\ late' \subseteq Push!Request /\ late' = late
    BY <1>1, <1>2
  <2> QED
    BY <1>1, <2>1, <2>2, PushEnds
<1>4. CASE ~Push!Fenced(i)
  <2>1. push' = [push EXCEPT ![i].at = "preparing"] /\ UNCHANGED <<auth, card, clean>>
    BY <1>4 DEF Push!StartPush
  <2>2. \A j \in DOMAIN push : j < i => push[j].gen # push[i].gen
    BY <1>1, <1>2 DEF Push!MayStart
  <2> QED
    BY <1>1, <1>2, <2>1, <2>2, PushGoesOn
<1> QED
  BY <1>3, <1>4

LEMMA PushPrepares ==
  ASSUME Push!PushSessionAssumption, PushInv, NEW i \in DOMAIN push, Push!PreparePush(i)
  PROVE  PushInv'
<1>1. /\ push[i].at = "preparing"
      /\ UNCHANGED <<current, shown, registrations, registered, late, pressed,
                     asked, restarts, strayed, since>>
  BY DEF Push!PreparePush, Push!serverVars, Push!countVars
<1>2. installation \in BOOLEAN /\ late \subseteq Push!Request /\ registered \subseteq User
      /\ strayed \in SUBSET User /\ push \in Seq(Push!PushOp)
  BY DEF PushInv, Push!TypeOK
<1>3. CASE Push!End(i, FALSE)
           /\ installation' \in {installation, installation \/ push[i].does = "register"}
  BY <1>1, <1>2, <1>3, PushEnds
<1>4. CASE ~Push!Fenced(i) /\ push[i].does = "unregister" /\ ~installation
           /\ Push!End(i, TRUE) /\ UNCHANGED installation
  <2>1. registered = {}
    BY <1>4 DEF PushInv, CleanKept
  <2> QED
    BY <1>1, <1>2, <1>4, <2>1, PushEnds
<1>5. CASE installation' = TRUE /\ push' = [push EXCEPT ![i].at = "sent"]
           /\ UNCHANGED <<auth, card, clean>>
  BY <1>1, <1>2, <1>5, PushGoesOn
<1>6. CASE installation' = TRUE /\ Push!End(i, FALSE)
  BY <1>1, <1>2, <1>6, PushEnds
<1> QED
  BY <1>3, <1>4, <1>5, <1>6 DEF Push!PreparePush

LEMMA PushAnswered ==
  ASSUME Push!PushSessionAssumption, PushInv, NEW i \in DOMAIN push,
         Push!AnswerPush(i) \/ Push!LosePush(i)
  PROVE  PushInv'
<1>1. push[i] \in Push!PushOp /\ installation \in BOOLEAN /\ late \subseteq Push!Request
      /\ push[i].does \in {"register", "unregister"} /\ push[i].who \in User
  <2>1. push[i] \in Push!PushOp /\ installation \in BOOLEAN /\ late \subseteq Push!Request
    BY DEF PushInv, Push!TypeOK
  <2> QED
    BY <2>1 DEF Push!PushOp
<1>2. installation
  BY DEF PushInv, CleanKept, Push!AnswerPush, Push!LosePush
<1>3. UNCHANGED <<current, shown, registrations, installation, registered, pressed, asked, restarts,
                  strayed, since>>
  BY DEF Push!AnswerPush, Push!LosePush, Push!serverVars, Push!countVars
<1>4. late' \subseteq Push!Request
  <2>1. [does |-> push[i].does, who |-> push[i].who] \in Push!Request
    BY <1>1 DEF Push!Request
  <2> QED
    BY <1>1, <2>1 DEF Push!AnswerPush, Push!LosePush, Push!serverVars
<1>5. CASE Push!End(i, FALSE)
  BY <1>1, <1>2, <1>3, <1>4, <1>5, PushEnds
<1>6. CASE push[i].at = "answered" /\ Push!End(i, ~Push!Fenced(i))
  <2>1. CASE Push!Fenced(i)
    BY <1>1, <1>2, <1>3, <1>4, <1>6, <2>1, PushEnds DEF Push!End
  <2>2. CASE ~Push!Fenced(i) /\ push[i].does = "unregister"
    <3>1. push[i].who \in registered => push[i].who \in strayed
      BY <1>6, <2>2 DEF PushInv, CleanKept, Push!Fenced
    <3>2. Push!End(i, TRUE)
      BY <1>6, <2>2 DEF Push!End
    <3> QED
      BY <1>1, <1>2, <1>3, <1>4, <3>1, <3>2, PushEnds
  <2>3. CASE ~Push!Fenced(i) /\ push[i].does = "register"
    <3>1. Push!End(i, FALSE)
      BY <1>6, <2>3 DEF Push!End
    <3> QED
      BY <1>1, <1>2, <1>3, <1>4, <3>1, PushEnds
  <2> QED
    BY <1>1, <2>1, <2>2, <2>3
<1> QED
  BY <1>5, <1>6 DEF Push!AnswerPush, Push!LosePush

\* A sign-out that leaves nobody signed in was asked for after the sign-in.
LEMMA SignOutsInOrder ==
  ASSUME PushInv, [Push!Next]_Push!vars
  PROVE  [Push!InOrder]_Push!vars
<1>1. CASE Push!SignOut
  <2>1. auth \in Seq(Push!AuthOp) /\ auth # <<>>
    BY <1>1 DEF PushInv, Push!TypeOK, Push!SignOut, Push!Running
  <2>2. Head(auth) = auth[1] /\ 1 \in DOMAIN auth
    BY <2>1, Tailed
  <2> QED
    BY <2>2 DEF PushInv, AuthOrdered, Push!InOrder
<1>2. CASE ~Push!SignOut /\ ~Push!SignIn
  BY <1>2 DEF Push!Next, Push!AuthStep, Push!PushStep, Push!vars, Push!InOrder, Push!AskSignIn,
              Push!AskSignOut, Push!BeginSignOut, Push!TimeOut, Push!ShowUser, Push!PressButton,
              Push!StartPush, Push!PreparePush, Push!ServePush, Push!AnswerPush, Push!LosePush,
              Push!ServeLate, Push!Restart
<1>3. CASE Push!SignIn
  <2>1. auth \in Seq(Push!AuthOp) /\ auth # <<>>
    BY <1>3 DEF PushInv, Push!TypeOK, Push!SignIn, Push!Running
  <2>2. Head(auth) = auth[1] /\ 1 \in DOMAIN auth
    BY <2>1, Tailed
  <2> QED
    BY <2>2 DEF PushInv, AuthOrdered, Push!InOrder
<1> QED
  BY <1>1, <1>2, <1>3

LEMMA PushNext ==
  ASSUME Push!PushSessionAssumption, PushInv, [Push!Next]_Push!vars
  PROVE  PushInv'
<1>1. CASE UNCHANGED Push!vars
  BY <1>1 DEF Push!vars, PushInv, Push!TypeOK, AuthOrdered, GenerationsCounted, PushOrdered,
              CardWaits, CleanKept, Push!CardTellsItsUser, Push!CleanSignOut
<1>2. CASE Push!AuthStep
  BY <1>2, AuthEnds, PushBegins DEF Push!AuthStep
<1>3. CASE Push!PushStep
  BY <1>3, PushStarts, PushPrepares, PushServed, PushAnswered DEF Push!PushStep
<1> QED
  BY <1>1, <1>2, <1>3, PushAsks, PushShows, PushPressed, PushServesLate, PushRestarts
     DEF Push!Next

\* AuthSessionService.signOut and PushRegistrationService, for any number of
\* users, sign-ins and presses: whoever signed out after a confirmed clean-up
\* is not registered on the installation, unless a request given up was served
\* late; the card tells a user of their own; no sign-in is undone by an earlier
\* sign-out.
THEOREM SignOutLeavesNothing ==
  ASSUME Push!PushSessionAssumption
  PROVE  Push!Spec => [](Push!TypeOK) /\ Push!SignedOutClean
<1>1. Push!Init => PushInv
  BY PushInit
<1>2. PushInv /\ [Push!Next]_Push!vars => PushInv'
  BY PushNext
<1>3. PushInv /\ [Push!Next]_Push!vars => [Push!InOrder]_Push!vars
  BY SignOutsInOrder
<1>4. PushInv => Push!TypeOK /\ Push!CleanSignOut /\ Push!CardTellsItsUser
  BY DEF PushInv, CleanKept, CardWaits
<1> QED
  BY <1>1, <1>2, <1>3, <1>4, PTL DEF Push!Spec, Push!SignedOutClean

\* The operation whose turn it is, and whether an operation is still to end.
Turn(n) == auth # <<>> /\ Head(auth).nr = n
Waiting(n) == \E i \in DOMAIN auth : auth[i].nr = n

\* The queue of AuthSessionService goes on: what weak fairness says of
\* Push!AuthStep, with the condition under which it can be taken in the place
\* of ENABLED.
QueueGoesOn == []<>(auth = <<>>) \/ []<><<Push!AuthStep>>_Push!vars

\* How the first operation fares in a step
LEMMA HeadSteps ==
  ASSUME Push!PushSessionAssumption, PushInv, auth # <<>>, [Push!Next]_Push!vars
  PROVE  \/ auth' = <<>> \/ auth' = Tail(auth)
         \/ /\ auth' # <<>> /\ Head(auth').nr = Head(auth).nr
            /\ \/ Head(auth').at = Head(auth).at /\ ~Push!AuthStep
               \/ Head(auth).at = "queued" /\ Head(auth').at \in {"cleaning", "signing"}
               \/ Head(auth).at = "cleaning" /\ Head(auth').at = "signing"
<1>1. /\ auth \in Seq(Push!AuthOp) /\ Head(auth) = auth[1] /\ 1 \in DOMAIN auth
      /\ auth[1] \in Push!AuthOp /\ Len(auth) \in Nat /\ Len(auth) > 0
  BY DEF PushInv, Push!TypeOK
<1>2. ASSUME NEW r \in Push!AuthOp, auth' = [auth EXCEPT ![1] = r], r.nr = Head(auth).nr
      PROVE  auth' # <<>> /\ Head(auth').nr = Head(auth).nr /\ Head(auth').at = r.at
  BY <1>1, <1>2
<1>3. CASE Push!SignIn \/ Push!SignOut
  BY <1>3 DEF Push!SignIn, Push!SignOut
<1>4. CASE Push!BeginSignOut
  <2> DEFINE r == [auth[1] EXCEPT !.who = current,
                     !.at = IF current = Nobody THEN "signing" ELSE "cleaning"]
  <2>1. current \in User \cup {Nobody}
    BY DEF PushInv, Push!TypeOK
  <2>2. auth' = [auth EXCEPT ![1] = r] /\ Head(auth).at = "queued"
    BY <1>1, <1>4 DEF Push!BeginSignOut, Push!Running, Push!AuthOp
  <2>3. r \in Push!AuthOp /\ r.nr = Head(auth).nr /\ r.at \in {"cleaning", "signing"}
    BY <1>1, <2>1 DEF Push!AuthOp
  <2> HIDE DEF r
  <2> QED
    BY <1>2, <2>2, <2>3
<1> DEFINE signing == [auth[1] EXCEPT !.at = "signing"]
<1>5. signing \in Push!AuthOp /\ signing.nr = Head(auth).nr /\ signing.at = "signing"
  BY <1>1 DEF Push!AuthOp
<1>6. auth' = [auth EXCEPT ![1].at = "signing"] => auth' = [auth EXCEPT ![1] = signing]
  BY <1>1 DEF Push!AuthOp
<1> HIDE DEF signing
<1>7. CASE Push!TimeOut
  BY <1>2, <1>5, <1>6, <1>7 DEF Push!TimeOut, Push!Running
<1>8. CASE ~Push!AuthStep
  <2>1. ASSUME NEW i \in DOMAIN push, NEW done \in BOOLEAN, Push!End(i, done)
        PROVE  \/ auth' = auth
               \/ auth' = [auth EXCEPT ![1].at = "signing"] /\ Head(auth).at = "cleaning"
    BY <2>1 DEF Push!End, Push!Running
  <2>2. CASE Push!PushStep
    <3>1. PICK i \in DOMAIN push :
            \/ Push!StartPush(i) \/ Push!PreparePush(i) \/ Push!ServePush(i)
            \/ Push!AnswerPush(i) \/ Push!LosePush(i)
      BY <2>2 DEF Push!PushStep
    <3>2. auth' = auth \/ \E done \in BOOLEAN : Push!End(i, done)
      BY <3>1 DEF Push!StartPush, Push!PreparePush, Push!ServePush, Push!AnswerPush,
                  Push!LosePush, Push!Fenced
    <3>3. \/ auth' = auth
          \/ auth' = [auth EXCEPT ![1].at = "signing"] /\ Head(auth).at = "cleaning"
      BY <2>1, <3>2
    <3> QED
      BY <1>2, <1>5, <1>6, <1>8, <3>3
  <2>3. ASSUME NEW r \in Push!AuthOp, auth' = Append(auth, r)
        PROVE  auth' # <<>> /\ Head(auth') = Head(auth)
    BY <1>1, <2>3
  <2>4. CASE Push!AskSignOut \/ \E u \in User : Push!AskSignIn(u)
    <3>1. PICK does \in {"in", "out"}, who \in User \cup {Nobody} :
            /\ asked < MaxSessions /\ asked' = asked + 1
            /\ auth' = Append(auth, [does |-> does, who |-> who, nr |-> asked', at |-> "queued"])
      BY <2>4 DEF Push!AskSignOut, Push!AskSignIn
    <3>2. asked' \in 1..MaxSessions
      BY <3>1 DEF PushInv, Push!TypeOK, Push!PushSessionAssumption
    <3>3. [does |-> does, who |-> who, nr |-> asked', at |-> "queued"] \in Push!AuthOp
      BY <3>2 DEF Push!AuthOp
    <3> QED
      BY <1>8, <2>3, <3>1, <3>3
  <2>5. CASE Push!Restart
    BY <2>5 DEF Push!Restart
  <2>6. CASE auth' = auth
    BY <1>8, <2>6
  <2>7. \/ Push!PushStep \/ Push!AskSignOut \/ Push!Restart
        \/ \E u \in User : Push!AskSignIn(u)
        \/ auth' = auth
    BY <1>8 DEF Push!Next, Push!vars, Push!ShowUser, Push!PressButton, Push!ServeLate
  <2> QED
    BY <2>2, <2>4, <2>5, <2>6, <2>7
<1> QED
  BY <1>3, <1>4, <1>7, <1>8 DEF Push!AuthStep

\* An operation that had its turn and left the queue does not come again.
LEMMA LeftForGood ==
  ASSUME PushInv, NEW n, Turn(n), auth' = Tail(auth) \/ auth' = <<>>
  PROVE  ~Waiting(n)'
<1>1. auth \in Seq(Push!AuthOp) /\ auth # <<>>
  BY DEF PushInv, Push!TypeOK, Turn
<1>2. /\ Head(auth) = auth[1] /\ 1 \in DOMAIN auth
      /\ \A j \in DOMAIN Tail(auth) :
           Tail(auth)[j] = auth[j + 1] /\ j + 1 \in DOMAIN auth /\ 1 < j + 1
  BY <1>1, Tailed
<1>3. \A j \in DOMAIN Tail(auth) : n < Tail(auth)[j].nr /\ n \in Int /\ Tail(auth)[j].nr \in Int
  <2> SUFFICES ASSUME NEW j \in DOMAIN Tail(auth)
               PROVE  n < auth[j + 1].nr /\ n \in Int /\ auth[j + 1].nr \in Int
    BY <1>2
  <2>1. auth[1].nr < auth[j + 1].nr
    BY <1>2 DEF PushInv, AuthOrdered
  <2>2. auth[1] \in Push!AuthOp /\ auth[j + 1] \in Push!AuthOp
    BY <1>1, <1>2
  <2> QED
    BY <1>2, <2>1, <2>2 DEF Turn, Push!AuthOp
<1>4. CASE auth' = <<>>
  BY <1>4 DEF Waiting
<1>5. CASE auth' = Tail(auth)
  <2>1. \A j \in DOMAIN auth' : auth'[j].nr # n
    BY <1>3, <1>5
  <2> QED
    BY <2>1 DEF Waiting
<1> QED
  BY <1>4, <1>5

\* AuthSessionService: each sign-in and sign-out whose turn it is comes to its
\* end, although the clean-up of the push registration may hang for ever and
\* more is asked for meanwhile; only the queue itself goes on.
THEOREM TurnsEnd ==
  ASSUME Push!PushSessionAssumption, NEW n \in 1..MaxSessions
  PROVE  Push!Spec /\ QueueGoesOn => (Turn(n) ~> ~Waiting(n))
<1> DEFINE At(a) == PushInv /\ Turn(n) /\ Head(auth).at = a
           Q == At("queued")
           C == At("cleaning")
           S == At("signing")
           T == Turn(n)
           G == ~Waiting(n)
           E == auth = <<>>
           Step == Push!AuthStep
<1>1. Push!Init => PushInv
  BY PushInit
<1>2. PushInv /\ [Push!Next]_Push!vars => PushInv'
  BY PushNext
<1>3. PushInv /\ T => Q \/ C \/ S
  <2> SUFFICES ASSUME PushInv, Turn(n) PROVE Q \/ C \/ S
    OBVIOUS
  <2>1. Head(auth) \in Push!AuthOp
    BY DEF PushInv, Push!TypeOK, Turn
  <2> QED
    BY <2>1 DEF Push!AuthOp
<1>4. ASSUME Q \/ C \/ S, [Push!Next]_Push!vars
      PROVE  /\ Q => (Q' /\ ~Step) \/ C' \/ S' \/ G'
             /\ C => (C' /\ ~Step) \/ S' \/ G'
             /\ S => (S' /\ ~Step) \/ G'
  <2>1. PushInv /\ PushInv' /\ Turn(n) /\ auth # <<>>
    BY <1>2, <1>4 DEF Turn
  <2>2. CASE auth' = <<>> \/ auth' = Tail(auth)
    BY <2>1, <2>2, LeftForGood
  <2>3. CASE auth' # <<>> /\ Head(auth').nr = Head(auth).nr
    <3>1. Turn(n)'
      BY <2>1, <2>3 DEF Turn
    <3> QED
      BY <1>4, <2>1, <2>2, <2>3, <3>1, HeadSteps
  <2> QED
    BY <1>4, <2>1, <2>2, <2>3, HeadSteps
<1>5. /\ Q /\ [Push!Next]_Push!vars => Q' \/ C' \/ S' \/ G'
      /\ C /\ [Push!Next]_Push!vars => C' \/ S' \/ G'
      /\ S /\ [Push!Next]_Push!vars => S' \/ G'
      /\ Q /\ [Push!Next]_Push!vars /\ <<Step>>_Push!vars => C' \/ S' \/ G'
      /\ C /\ [Push!Next]_Push!vars /\ <<Step>>_Push!vars => S' \/ G'
      /\ S /\ [Push!Next]_Push!vars /\ <<Step>>_Push!vars => G'
  BY <1>4
<1>6. Q \/ C \/ S => ~E
  BY DEF Turn
<1>7. QueueGoesOn => []<>E \/ []<><<Step>>_Push!vars
  BY DEF QueueGoesOn
<1> HIDE DEF Q, C, S, T, G, E, Step
<1>8. Push!Spec /\ QueueGoesOn => (T ~> G)
  BY <1>1, <1>2, <1>3, <1>5, <1>6, <1>7, PTL DEF Push!Spec
<1> QED
  BY <1>8 DEF T, G

-----------------------------------------------------------------------------
(***************************************************************************)
(* Signing in with a link sent by email.                                   *)
(***************************************************************************)
LinkScreen ==
  [open : BOOLEAN, target : Email \cup {NoEmail}, loaded : BOOLEAN,
   url : 0..MaxLinks, attempted : SUBSET (1..MaxLinks), verifying : 0..MaxLinks,
   said : {"nothing", "noEmail", "failed", "exists", "done"}]
SentLink == [email : Email, used : BOOLEAN]

\* A link that is being completed
Completing == op.does \in {"upgrade", "signIn", "served", "done"}

\* A request to complete a link that was sent
Asks(r) ==
  /\ r.does \in {"upgrade", "signIn"} /\ r.email \in Email /\ r.link \in DOMAIN links
  /\ r.does = "upgrade" => r.uid # 0

\* The screen waits for the completion it asked for, and says nothing meanwhile.
ScreenWaits ==
  /\ screen.verifying # 0 => screen.said = "nothing"
  /\ screen.said = "done" => ~screen.open /\ screen.target \in Email
  /\ screen.said = "exists" => screen.target \in Email
  /\ Completing => screen.verifying # 0 /\ op.email = screen.target

\* A link that is used was sent.
LinksWereSent ==
  /\ screen.verifying # 0 => screen.verifying \in DOMAIN links
  /\ screen.url # 0 => screen.url \in DOMAIN links
  /\ op.does = "send" => op.email \in Email
  /\ op.does \in {"upgrade", "signIn"} => Asks(op)
  /\ \A r \in adrift : Asks(r)

\* An upgrade is of the session's anonymous account; a sign-in is not begun over
\* one unless the session had not been restored; and whoever a link signed in owns
\* its address.
AccountFollows ==
  /\ op.does = "upgrade" => restored /\ session.anonymous /\ op.uid = session.uid
  /\ op.does = "signIn" => op.early \/ ~session.anonymous
  /\ op.does = "served" => /\ op.uid = owner[op.email] /\ op.uid # 0
                           /\ op.early \/ ~session.anonymous \/ op.uid = session.uid
  /\ op.does = "done" => /\ session.uid = owner[op.email] /\ session.uid # 0
                         /\ ~session.anonymous
  /\ screen.said = "done" => session.uid # 0
  /\ Link!SignedInAsOwner /\ Link!CollisionIsReal

\* The anonymous account is the one from before; once it is no more anonymous, an
\* address owns it.
GuestKept ==
  /\ session.anonymous => session.uid = guest
  /\ guest # 0 /\ session.uid = guest /\ ~session.anonymous => Link!Owned(guest)
  /\ Link!NothingLeftBehind

LinkInv == Link!TypeOK /\ ScreenWaits /\ LinksWereSent /\ AccountFollows /\ GuestKept

\* An address keeps the account it has.
OwnersStay == \A e \in Email : owner[e] # 0 => owner'[e] = owner[e]

\* What TypeOK says of the records
LEMMA LinkTypes ==
  ASSUME Link!EmailSignInAssumption, Link!TypeOK
  PROVE  /\ screen \in LinkScreen /\ op \in Link!Operation /\ adrift \subseteq Link!Operation
         /\ links \in Seq(SentLink) /\ Len(links) \in Nat /\ Len(links) <= MaxLinks
         /\ session \in [uid : 0..MaxUid, anonymous : BOOLEAN]
         /\ owner \in [Email -> 0..MaxUid] /\ uids \in 0..MaxUid
         /\ MaxLinks \in Nat /\ MaxUid \in Nat /\ MaxUid > 0
         /\ DOMAIN links \subseteq 1..MaxLinks
         /\ restored \in BOOLEAN /\ pending \in Email \cup {NoEmail}
         /\ starts \in 0..MaxRestarts /\ MaxRestarts \in Nat /\ NoEmail \notin Email
         /\ guest \in 0..MaxUid /\ left \in {"no", "early", "chosen"}
<1>1. links \in Seq(SentLink) /\ Len(links) <= MaxLinks
  BY DEF Link!TypeOK, SentLink
<1>2. MaxLinks \in Nat /\ MaxUid \in Nat /\ MaxUid > 0 /\ MaxRestarts \in Nat
  BY DEF Link!EmailSignInAssumption
<1>3. DOMAIN links \subseteq 1..MaxLinks /\ Len(links) \in Nat
  BY <1>1, <1>2
<1> QED
  BY <1>1, <1>2, <1>3 DEF Link!TypeOK, LinkScreen, Link!EmailSignInAssumption

LEMMA LinkNothing ==
  ASSUME Link!EmailSignInAssumption
  PROVE  /\ Link!Closed \in LinkScreen /\ Link!Closed.verifying = 0 /\ Link!Closed.url = 0
         /\ Link!Closed.said = "nothing" /\ ~Link!Closed.open
         /\ Link!NoOp \in Link!Operation /\ Link!NoOp.does = "none"
<1>1. 0 \in 0..MaxLinks /\ 0 \in 0..MaxUid
  BY DEF Link!EmailSignInAssumption
<1>2. Link!Closed \in LinkScreen /\ Link!Closed.verifying = 0 /\ Link!Closed.url = 0
      /\ Link!Closed.said = "nothing" /\ ~Link!Closed.open
  BY <1>1 DEF Link!Closed, LinkScreen, Link!NoLink
<1>3. Link!NoOp \in Link!Operation /\ Link!NoOp.does = "none"
  BY <1>1 DEF Link!NoOp, Link!Operation, Link!NoLink, Link!NoUid
<1> QED
  BY <1>2, <1>3

LEMMA LinkInit == Link!EmailSignInAssumption /\ Link!Init => LinkInv
<1> SUFFICES ASSUME Link!EmailSignInAssumption, Link!Init PROVE LinkInv
  OBVIOUS
<1>1. MaxLinks \in Nat /\ MaxUid \in Nat /\ MaxUid > 0 /\ MaxRestarts \in Nat
  BY DEF Link!EmailSignInAssumption
<1>2. screen = Link!Closed /\ op = Link!NoOp /\ adrift = {} /\ guest = session.uid /\ left = "no"
  BY DEF Link!Init
<1>4. /\ session \in [uid : 0..MaxUid, anonymous : BOOLEAN]
      /\ session.anonymous => session.uid # 0
      /\ session.uid # 0 => session.anonymous
  <2>1. CASE session = [uid |-> 0, anonymous |-> FALSE]
    BY <1>1, <2>1
  <2>2. CASE session = [uid |-> 1, anonymous |-> TRUE]
    BY <1>1, <2>2
  <2> QED
    BY <2>1, <2>2 DEF Link!Init, Link!SignedOut, Link!NoUid
<1>5. uids \in 0..MaxUid /\ owner \in [Email -> 0..MaxUid]
  <2>1. PICK known \in Email \cup {NoEmail} :
          /\ uids = session.uid + IF known = NoEmail THEN 0 ELSE 1
          /\ owner = [e \in Email |-> IF e = known THEN uids ELSE 0]
    BY DEF Link!Init, Link!NoUid
  <2>2. uids \in Nat /\ uids <= MaxUid
    BY <1>4, <2>1 DEF Link!Init
  <2> QED
    BY <1>1, <2>1, <2>2
<1>6. links = <<>> /\ links \in Seq(SentLink) /\ Len(links) = 0
  BY DEF Link!Init
<1>7. Link!TypeOK
  BY <1>1, <1>2, <1>4, <1>5, <1>6, LinkNothing
     DEF Link!Init, Link!TypeOK, LinkScreen, SentLink, Link!NoUid, Link!NoLink
<1>8. ScreenWaits /\ LinksWereSent /\ AccountFollows
  BY <1>2, LinkNothing DEF ScreenWaits, Completing, LinksWereSent, AccountFollows,
                           Link!SignedInAsOwner, Link!CollisionIsReal
<1>9. GuestKept
  BY <1>2, <1>4 DEF GuestKept, Link!NothingLeftBehind, Link!Attached
<1> QED
  BY <1>7, <1>8, <1>9 DEF LinkInv

\* Reading the account anew, and addresses given to accounts, take nothing away.
LEMMA GuestStays ==
  ASSUME Link!EmailSignInAssumption, LinkInv, OwnersStay, session' \in {session, Link!Reloaded},
         UNCHANGED <<guest, left>>
  PROVE  GuestKept'
<1>1. /\ session'.uid = session.uid
      /\ session'.anonymous => session.anonymous
      /\ ~session'.anonymous => ~session.anonymous \/ Link!Owned(session.uid)
  <2>1. session \in [uid : 0..MaxUid, anonymous : BOOLEAN]
    BY LinkTypes DEF LinkInv
  <2>2. CASE session' = session
    BY <2>2
  <2>3. CASE session' = Link!Reloaded
    BY <2>1, <2>3 DEF Link!Reloaded
  <2> QED
    BY <2>2, <2>3
<1>2. guest # 0 /\ Link!Owned(guest) => Link!Owned(guest)'
  BY DEF Link!Owned, OwnersStay
<1>3. guest # 0 /\ session'.uid = guest /\ ~session'.anonymous => Link!Owned(guest)
  BY <1>1 DEF LinkInv, GuestKept
<1> QED
  BY <1>1, <1>2, <1>3 DEF LinkInv, GuestKept, Link!NothingLeftBehind, Link!Attached, Link!NoUid

\* What the user does on the screens while no link is being completed
LEMMA LinkShows ==
  ASSUME Link!EmailSignInAssumption, LinkInv,
         UNCHANGED <<session, restored, owner, uids, links, op, adrift, starts, guest, left>>,
         pending' \in Email \cup {NoEmail},
         screen' = screen \/ screen.verifying = 0, screen' \in LinkScreen,
         screen'.verifying # 0 => /\ screen'.open /\ screen'.target # NoEmail
                                  /\ screen'.verifying \in DOMAIN links
                                  /\ screen'.said = "nothing",
         screen'.url # 0 => screen'.url \in DOMAIN links,
         \/ screen'.said \notin {"done", "exists"}
         \/ /\ screen'.said = screen.said /\ screen'.target = screen.target
            /\ screen'.open = screen.open
  PROVE  LinkInv'
<1>1. screen' = screen \/ ~Completing
  BY DEF LinkInv, ScreenWaits
<1>2. Link!TypeOK'
  BY DEF LinkInv, Link!TypeOK, LinkScreen, Link!NoLink, Link!Operation
<1>3. ScreenWaits' /\ LinksWereSent'
  BY <1>1 DEF LinkInv, ScreenWaits, LinksWereSent, Completing, Asks
<1>4. AccountFollows'
  BY DEF LinkInv, AccountFollows, Link!SignedInAsOwner, Link!CollisionIsReal
<1>5. GuestKept'
  BY GuestStays DEF OwnersStay
<1> QED
  BY <1>2, <1>3, <1>4, <1>5 DEF LinkInv

LEMMA LinkUser ==
  ASSUME Link!EmailSignInAssumption, LinkInv,
         \/ Link!LoadPendingEmail \/ Link!AutoVerify \/ Link!Expire
         \/ \E e \in Email : Link!EnterEmail(e)
         \/ \E l \in 1..MaxLinks : Link!OpenLink(l) \/ Link!PasteLink(l)
  PROVE  LinkInv'
<1>1. /\ screen \in LinkScreen /\ DOMAIN links \subseteq 1..MaxLinks /\ MaxLinks \in Nat
      /\ pending \in Email \cup {NoEmail} /\ NoEmail \notin Email
      /\ screen.verifying # 0 => screen.open /\ screen.target # NoEmail
      /\ screen.verifying # 0 => screen.verifying \in DOMAIN links
      /\ screen.url # 0 => screen.url \in DOMAIN links
      /\ screen.open => screen.said # "done"
      /\ screen.target = NoEmail => screen.said # "exists"
      /\ screen.verifying # 0 => screen.said = "nothing"
  BY LinkTypes DEF LinkInv, ScreenWaits, Link!TypeOK, Link!NoLink, LinksWereSent
<1>2. CASE Link!LoadPendingEmail
  <2>1. screen' = [screen EXCEPT !.loaded = TRUE, !.target = pending] /\ screen.target = NoEmail
        /\ screen.open
        /\ UNCHANGED <<session, restored, owner, uids, links, pending, op, adrift, starts, guest, left>>
    BY <1>2 DEF Link!LoadPendingEmail, Link!ScreenOnly, Link!serverVars
  <2>2. screen' \in LinkScreen /\ screen'.verifying = 0 /\ screen'.url = screen.url
        /\ screen'.said = screen.said /\ screen.verifying = 0
    BY <1>1, <2>1 DEF LinkScreen
  <2> QED
    BY <1>1, <2>1, <2>2, LinkShows
<1>3. ASSUME NEW l \in DOMAIN links, NEW s \in LinkScreen,
             s.open, s.verifying = 0, s.url = screen.url, screen.verifying = 0,
             Link!HandleCompleteVerification(l, s), Link!ScreenOnly
      PROVE  LinkInv'
  <2>1. /\ screen' \in LinkScreen /\ screen'.url = s.url
        /\ screen'.said \notin {"done", "exists"}
        /\ screen'.verifying # 0 => screen'.open /\ screen'.target # NoEmail
                                    /\ screen'.verifying = l /\ screen'.said = "nothing"
    <3>1. l \in 0..MaxLinks
      BY <1>1
    <3>2. CASE s.target = NoEmail
      BY <1>3, <3>1, <3>2 DEF Link!HandleCompleteVerification, LinkScreen
    <3>3. CASE s.target # NoEmail
      <4>1. screen' = [s EXCEPT !.verifying = l, !.said = "nothing"]
        BY <1>3, <3>3 DEF Link!HandleCompleteVerification
      <4> QED
        BY <1>3, <3>1, <3>3, <4>1 DEF LinkScreen
    <3> QED
      BY <3>2, <3>3
  <2> QED
    BY <1>1, <1>3, <2>1, LinkShows DEF Link!ScreenOnly, Link!serverVars
<1>4. CASE Link!AutoVerify
  <2> DEFINE s == [screen EXCEPT !.attempted = @ \cup {screen.url}]
  <2>1. /\ screen.open /\ screen.url # 0 /\ screen.verifying = 0
        /\ Link!HandleCompleteVerification(screen.url, s) /\ Link!ScreenOnly
    BY <1>4 DEF Link!AutoVerify, Link!NoLink
  <2>2. screen.url \in DOMAIN links /\ screen.url \in 1..MaxLinks
    BY <1>1, <2>1
  <2>3. s \in LinkScreen /\ s.open /\ s.verifying = 0 /\ s.url = screen.url
    BY <1>1, <2>1, <2>2 DEF LinkScreen
  <2> HIDE DEF s
  <2> QED
    BY <1>3, <2>1, <2>2, <2>3
<1>5. CASE Link!Expire
  BY <1>1, <1>5, LinkShows DEF Link!Expire, Link!serverVars
<1>7. ASSUME NEW e \in Email, Link!EnterEmail(e) PROVE LinkInv'
  <2>1. screen' = [screen EXCEPT !.target = e] /\ screen.target = NoEmail /\ screen.open
        /\ screen.said = "noEmail" /\ Link!ScreenOnly
    BY <1>7 DEF Link!EnterEmail
  <2>2. screen' \in LinkScreen /\ screen'.verifying = 0 /\ screen'.url = screen.url
        /\ screen'.said = "noEmail" /\ screen.verifying = 0
    BY <1>1, <2>1 DEF LinkScreen
  <2> QED
    BY <1>1, <2>1, <2>2, LinkShows DEF Link!ScreenOnly, Link!serverVars
<1>8. ASSUME NEW l \in 1..MaxLinks, Link!OpenLink(l) PROVE LinkInv'
  <2>1. /\ screen' = IF screen.open THEN [screen EXCEPT !.url = l]
                     ELSE [Link!Closed EXCEPT !.open = TRUE, !.url = l]
        /\ screen.verifying = 0 /\ l \in DOMAIN links /\ Link!ScreenOnly
    BY <1>8 DEF Link!OpenLink, Link!NoLink
  <2>2. /\ screen' \in LinkScreen /\ screen'.verifying = 0 /\ screen'.url = l
        /\ \/ screen'.said \notin {"done", "exists"}
           \/ /\ screen'.said = screen.said /\ screen'.target = screen.target
              /\ screen'.open = screen.open
    <3>1. l \in 0..MaxLinks /\ 0 \in 0..MaxLinks
      BY <1>1
    <3>2. CASE screen.open
      BY <1>1, <2>1, <3>1, <3>2 DEF LinkScreen
    <3>3. CASE ~screen.open
      BY <2>1, <3>1, <3>3 DEF LinkScreen, Link!Closed, Link!NoLink
    <3> QED
      BY <3>2, <3>3
  <2> QED
    BY <1>1, <2>1, <2>2, LinkShows DEF Link!ScreenOnly, Link!serverVars
<1>9. ASSUME NEW l \in 1..MaxLinks, Link!PasteLink(l) PROVE LinkInv'
  <2>1. /\ screen.open /\ screen.verifying = 0 /\ l \in DOMAIN links
        /\ Link!HandleCompleteVerification(l, screen) /\ Link!ScreenOnly
    BY <1>9 DEF Link!PasteLink, Link!NoLink
  <2> QED
    BY <1>1, <1>3, <2>1
<1> QED
  BY <1>2, <1>4, <1>5, <1>7, <1>8, <1>9

LEMMA LinkSends ==
  ASSUME Link!EmailSignInAssumption, LinkInv,
         (\E e \in Email : Link!SendLink(e)) \/ Link!LinkSent
  PROVE  LinkInv'
<1> USE LinkTypes, LinkNothing DEF LinkInv
<1>1. CASE Link!LinkSent
  <2>1. op.does = "send" /\ op' = Link!NoOp /\ op.email \in Email /\ ~Completing
        /\ UNCHANGED <<session, restored, owner, uids, links, adrift, starts, guest, left>>
    BY <1>1 DEF Link!LinkSent, LinksWereSent, Completing, Link!serverVars
  <2>3. /\ screen' = screen \/ (screen' \in LinkScreen /\ screen'.verifying = 0
                                /\ screen'.url = 0 /\ screen'.said = "nothing")
        /\ pending' \in Email \cup {NoEmail}
    <3>1. CASE UNCHANGED <<pending, screen>>
      BY <3>1
    <3>2. CASE /\ pending' \in {op.email, pending}
               /\ screen' = IF screen.open THEN screen
                            ELSE [Link!Closed EXCEPT !.open = TRUE, !.target = op.email, !.loaded = TRUE]
      <4>1. CASE screen.open
        BY <2>1, <3>2, <4>1
      <4>2. CASE ~screen.open
        <5>1. screen' = [Link!Closed EXCEPT !.open = TRUE, !.target = op.email, !.loaded = TRUE]
          BY <3>2, <4>2
        <5> QED
          BY <2>1, <3>2, <5>1 DEF LinkScreen
      <4> QED
        BY <4>1, <4>2
    <3> QED
      BY <1>1, <3>1, <3>2 DEF Link!LinkSent
  <2>4. Link!TypeOK'
    BY <2>1, <2>3 DEF Link!TypeOK, LinkScreen, Link!Operation, Link!NoLink
  <2>5. ScreenWaits' /\ LinksWereSent'
    BY <2>1, <2>3 DEF ScreenWaits, LinksWereSent, Completing, Asks
  <2>6. AccountFollows'
    BY <2>1, <2>3 DEF AccountFollows, Link!SignedInAsOwner, Link!CollisionIsReal
  <2>7. GuestKept'
    BY <2>1, GuestStays DEF OwnersStay
  <2> QED
    BY <2>4, <2>5, <2>6, <2>7
<1>2. ASSUME NEW e \in Email, Link!SendLink(e) PROVE LinkInv'
  <2> DEFINE y == [email |-> e, used |-> FALSE]
  <2>1. /\ links' = Append(links, y) /\ Len(links) < MaxLinks
        /\ op' = [Link!NoOp EXCEPT !.does = "send", !.email = e]
        /\ UNCHANGED <<session, restored, owner, uids, pending, screen, adrift, starts, guest, left>>
    BY <1>2 DEF Link!SendLink
  <2>2. op' \in Link!Operation /\ op'.does = "send" /\ op'.email = e
    <3>1. 0 \in 0..MaxLinks /\ 0 \in 0..MaxUid
      OBVIOUS
    <3> QED
      BY <2>1, <3>1 DEF Link!NoOp, Link!Operation, Link!NoLink, Link!NoUid
  <2>3. y \in SentLink /\ Len(links) \in Nat /\ MaxLinks \in Nat
    BY DEF SentLink
  <2> HIDE DEF y
  <2>4. links' \in Seq(SentLink) /\ Len(links') = Len(links) + 1
        /\ DOMAIN links \subseteq DOMAIN links'
    BY <2>1, <2>3
  <2>5. Link!TypeOK'
    BY <2>1, <2>2, <2>3, <2>4 DEF Link!TypeOK, LinkScreen, SentLink
  <2>6. ScreenWaits' /\ LinksWereSent'
    BY <2>1, <2>2, <2>4 DEF ScreenWaits, LinksWereSent, Completing, Asks
  <2>7. AccountFollows'
    BY <2>1, <2>2 DEF AccountFollows, Link!SignedInAsOwner, Link!CollisionIsReal
  <2>8. GuestKept'
    BY <2>1, GuestStays DEF OwnersStay
  <2> QED
    BY <2>5, <2>6, <2>7, <2>8
<1> QED
  BY <1>1, <1>2

LEMMA LinkUsed ==
  ASSUME Link!EmailSignInAssumption, LinkInv, NEW l \in DOMAIN links,
         UNCHANGED <<links, adrift>> \/ Link!Use(l)
  PROVE  /\ links' \in Seq(SentLink) /\ Len(links') = Len(links) /\ DOMAIN links' = DOMAIN links
         /\ Len(links') <= MaxLinks /\ adrift' \subseteq adrift
<1>1. links \in Seq(SentLink) /\ Len(links) <= MaxLinks
  BY LinkTypes DEF LinkInv
<1> DEFINE y == [links[l] EXCEPT !.used = TRUE]
<1>2. y \in SentLink
  <2>1. links[l] \in SentLink
    BY <1>1
  <2> QED
    BY <2>1 DEF SentLink
<1>3. links' = links \/ links' = [links EXCEPT ![l] = y]
  BY DEF Link!Use
<1>4. adrift' \subseteq adrift
  BY DEF Link!Use
<1> HIDE DEF y
<1> QED
  BY <1>1, <1>2, <1>3, <1>4

\* What the server does with a request, whoever waits for it: addresses keep the
\* accounts they have, and this one has an account then, the one to upgrade if the
\* request asks for that.
LEMMA LinkCommits ==
  ASSUME Link!EmailSignInAssumption, LinkInv, NEW r \in Link!Operation, Asks(r),
         Link!LinkAccount(r) \/ Link!EnterAccount(r)
  PROVE  /\ owner' \in [Email -> 0..MaxUid] /\ uids' \in 0..MaxUid /\ OwnersStay
         /\ owner'[r.email] # 0 /\ (r.does = "upgrade" => owner'[r.email] = r.uid)
         /\ links' \in Seq(SentLink) /\ DOMAIN links' = DOMAIN links /\ Len(links') <= MaxLinks
         /\ adrift' \subseteq adrift
<1>1. /\ owner \in [Email -> 0..MaxUid] /\ uids \in 0..MaxUid /\ MaxUid \in Nat
      /\ r.uid \in 0..MaxUid /\ r.email \in Email /\ r.link \in DOMAIN links
  BY LinkTypes DEF LinkInv, Link!Operation, Asks
<1>2. Link!Use(r.link)
  BY DEF Link!LinkAccount, Link!EnterAccount
<1>3. /\ links' \in Seq(SentLink) /\ DOMAIN links' = DOMAIN links /\ Len(links') <= MaxLinks
      /\ adrift' \subseteq adrift
  BY <1>1, <1>2, LinkUsed
<1>4. CASE Link!LinkAccount(r)
  <2>1. r.does = "upgrade" /\ owner[r.email] = 0 /\ uids' = uids
        /\ owner' = [owner EXCEPT ![r.email] = r.uid]
    BY <1>4 DEF Link!LinkAccount, Link!NoUid
  <2> QED
    BY <1>1, <1>3, <2>1 DEF OwnersStay, Asks
<1>5. CASE Link!EnterAccount(r)
  <2>1. CASE owner[r.email] # 0 /\ UNCHANGED <<owner, uids>>
    BY <1>1, <1>3, <1>5, <2>1 DEF OwnersStay, Link!EnterAccount
  <2>2. CASE /\ owner[r.email] = 0 /\ uids < MaxUid /\ uids' = uids + 1
             /\ owner' = [owner EXCEPT ![r.email] = uids']
    <3>1. uids' \in 0..MaxUid /\ uids' # 0
      BY <1>1, <2>2
    <3> QED
      BY <1>1, <1>3, <1>5, <2>2, <3>1 DEF OwnersStay, Link!EnterAccount
  <2> QED
    BY <1>5, <2>1, <2>2 DEF Link!EnterAccount, Link!NoUid
<1> QED
  BY <1>4, <1>5

\* What holds of the link that is being completed
LEMMA LinkWaits ==
  ASSUME Link!EmailSignInAssumption, LinkInv, Completing
  PROVE  /\ screen.verifying # 0 /\ screen.said = "nothing" /\ screen.open
         /\ op.email = screen.target /\ op.email \in Email
<1>1. screen \in LinkScreen
  BY LinkTypes DEF LinkInv
<1> QED
  BY <1>1 DEF LinkInv, ScreenWaits, Link!TypeOK, Link!NoLink, LinkScreen

LEMMA LinkServes ==
  ASSUME Link!EmailSignInAssumption, LinkInv,
         Link!ServeCompletion \/ \E r \in adrift : Link!ServeLate(r)
  PROVE  LinkInv'
<1>1. ASSUME NEW r \in Link!Operation, Asks(r), Link!LinkAccount(r) \/ Link!EnterAccount(r),
             op' \in Link!Operation, op'.email = op.email,
             \/ op' = op
             \/ /\ Completing /\ op'.does = "served" /\ op'.uid = owner'[op.email] /\ op'.uid # 0
                /\ op'.early \/ ~session.anonymous \/ op'.uid = session.uid,
             UNCHANGED <<session, restored, pending, screen, starts, guest, left>>
      PROVE  LinkInv'
  <2>1. /\ owner' \in [Email -> 0..MaxUid] /\ uids' \in 0..MaxUid /\ OwnersStay
        /\ links' \in Seq(SentLink) /\ DOMAIN links' = DOMAIN links /\ Len(links') <= MaxLinks
        /\ adrift' \subseteq adrift
    BY <1>1, LinkCommits
  <2>2. Link!TypeOK'
    BY <1>1, <2>1 DEF LinkInv, Link!TypeOK, SentLink
  <2>3. ScreenWaits'
    BY <1>1 DEF LinkInv, ScreenWaits, Completing
  <2>4. LinksWereSent'
    BY <1>1, <2>1 DEF LinkInv, LinksWereSent, Asks
  <2>5. op.does \in {"served", "done"} => op.email \in Email
    BY LinkWaits DEF Completing
  <2>6. AccountFollows'
    <3>1. /\ op'.does = "upgrade" => restored' /\ session'.anonymous /\ op'.uid = session'.uid
          /\ op'.does = "signIn" => op'.early \/ ~session'.anonymous
      BY <1>1 DEF LinkInv, AccountFollows
    <3>2. op'.does = "served" => /\ op'.uid = owner'[op'.email] /\ op'.uid # 0
                                 /\ op'.early \/ ~session'.anonymous \/ op'.uid = session'.uid
      BY <1>1, <2>1, <2>5 DEF LinkInv, AccountFollows, OwnersStay
    <3>3. op'.does = "done" => /\ session'.uid = owner'[op'.email] /\ session'.uid # 0
                               /\ ~session'.anonymous
      BY <1>1, <2>1, <2>5 DEF LinkInv, AccountFollows, OwnersStay
    <3>4. screen'.said = "done" => session'.uid # 0
      BY <1>1 DEF LinkInv, AccountFollows
    <3>5. Link!SignedInAsOwner' /\ Link!CollisionIsReal'
      BY <1>1, <2>1 DEF LinkInv, AccountFollows, ScreenWaits, OwnersStay,
                        Link!SignedInAsOwner, Link!CollisionIsReal, Link!NoUid
    <3> QED
      BY <3>1, <3>2, <3>3, <3>4, <3>5 DEF AccountFollows
  <2>7. GuestKept'
    BY <1>1, <2>1, GuestStays
  <2> QED
    BY <2>2, <2>3, <2>4, <2>6, <2>7 DEF LinkInv
<1>2. CASE Link!ServeCompletion
  <2>1. /\ op \in Link!Operation /\ op.does \in {"upgrade", "signIn"} /\ Asks(op)
        /\ op' = [op EXCEPT !.does = "served", !.uid = owner'[op.email]]
        /\ Link!LinkAccount(op) \/ Link!EnterAccount(op)
        /\ UNCHANGED <<session, restored, pending, screen, starts, guest, left>>
    BY <1>2, LinkTypes DEF LinkInv, LinksWereSent, Link!ServeCompletion, Link!LinkAccount,
                           Link!EnterAccount
  <2>2. /\ owner' \in [Email -> 0..MaxUid] /\ owner'[op.email] # 0 /\ op.email \in Email
        /\ op.does = "upgrade" => owner'[op.email] = op.uid
    BY <2>1, LinkCommits DEF Asks
  <2>3. /\ op' \in Link!Operation /\ op'.email = op.email /\ op'.does = "served"
        /\ op'.uid = owner'[op.email] /\ op'.early = op.early
    BY <2>1, <2>2 DEF Link!Operation
  <2>4. op'.early \/ ~session.anonymous \/ op'.uid = session.uid
    BY <2>1, <2>2, <2>3 DEF LinkInv, AccountFollows
  <2>5. Completing
    BY <2>1 DEF Completing
  <2> QED
    BY <1>1, <2>1, <2>2, <2>3, <2>4, <2>5
<1>3. ASSUME NEW r \in adrift, Link!ServeLate(r) PROVE LinkInv'
  <2>1. r \in Link!Operation /\ Asks(r) /\ op \in Link!Operation
    BY LinkTypes DEF LinkInv, LinksWereSent
  <2> QED
    BY <1>1, <1>3, <2>1 DEF Link!ServeLate
<1> QED
  BY <1>2, <1>3

\* A request that was given up asks to complete a link that was sent.
LEMMA LinkUnserved ==
  ASSUME Link!EmailSignInAssumption, LinkInv, adrift' = adrift \cup Link!Unserved,
         UNCHANGED links
  PROVE  adrift' \subseteq Link!Operation /\ \A r \in adrift' : Asks(r)'
<1>1. op \in Link!Operation /\ adrift \subseteq Link!Operation
  BY LinkTypes DEF LinkInv
<1>2. \A r \in adrift : Asks(r)
  BY DEF LinkInv, LinksWereSent
<1>3. CASE op.does \in {"upgrade", "signIn"}
  <2> DEFINE r == [op EXCEPT !.early = FALSE]
  <2>1. r \in Link!Operation /\ Asks(r)
    BY <1>1, <1>3 DEF LinkInv, LinksWereSent, Asks, Link!Operation
  <2>2. adrift' \subseteq adrift \cup {r}
    BY DEF Link!Unserved
  <2> HIDE DEF r
  <2> QED
    BY <1>1, <1>2, <2>1, <2>2 DEF Asks
<1>4. CASE op.does \notin {"upgrade", "signIn"}
  BY <1>1, <1>2, <1>4 DEF Link!Unserved, Asks
<1> QED
  BY <1>3, <1>4

\* What reading the account anew does to the session
LEMMA LinkRereads ==
  ASSUME Link!EmailSignInAssumption, LinkInv, session' \in {session, Link!Reloaded}
  PROVE  /\ session' \in [uid : 0..MaxUid, anonymous : BOOLEAN] /\ session'.uid = session.uid
         /\ session'.anonymous => session.anonymous /\ session'.uid # 0
<1>1. session \in [uid : 0..MaxUid, anonymous : BOOLEAN] /\ (session.anonymous => session.uid # 0)
  BY LinkTypes DEF LinkInv, Link!TypeOK, Link!NoUid
<1>2. CASE session' = session
  BY <1>1, <1>2
<1>3. CASE session' = Link!Reloaded
  BY <1>1, <1>3 DEF Link!Reloaded, Link!Owned
<1> QED
  BY <1>2, <1>3

\* A completion that is refused, or fails
LEMMA LinkReports ==
  ASSUME Link!EmailSignInAssumption, LinkInv, Link!RefuseUpgrade \/ Link!FailComplete
  PROVE  LinkInv'
<1>1. ASSUME NEW said \in {"exists", "failed"}, Completing, Link!Report(said),
             links' \in Seq(SentLink), DOMAIN links' = DOMAIN links, Len(links') <= MaxLinks,
             adrift' \subseteq Link!Operation, \A r \in adrift' : Asks(r)',
             session' \in {session, Link!Reloaded},
             said = "exists" => owner[op.email] \notin {0, session.uid},
             UNCHANGED <<restored, owner, uids, pending, starts, guest, left>>
      PROVE  LinkInv'
  <2>1. /\ screen \in LinkScreen /\ 0 \in 0..MaxLinks /\ op.email = screen.target
        /\ screen.verifying # 0 /\ screen.open /\ screen.target \in Email
    BY <1>1, LinkTypes, LinkWaits DEF LinkInv
  <2>2. /\ screen' = [screen EXCEPT !.verifying = 0, !.said = said] /\ op' = Link!NoOp
    BY <1>1 DEF Link!Report, Link!NoLink
  <2>3. /\ screen' \in LinkScreen /\ screen'.verifying = 0 /\ screen'.url = screen.url
        /\ screen'.said = said /\ screen'.open /\ screen'.target = screen.target
    BY <2>1, <2>2 DEF LinkScreen
  <2>4. op' \in Link!Operation /\ op'.does = "none"
    BY <2>2, LinkNothing
  <2>5. /\ session' \in [uid : 0..MaxUid, anonymous : BOOLEAN] /\ session'.uid = session.uid
        /\ session'.anonymous => session.anonymous /\ session'.uid # 0
    BY <1>1, LinkRereads
  <2>6. Link!TypeOK'
    BY <1>1, <2>3, <2>4, <2>5 DEF LinkInv, Link!TypeOK, LinkScreen, SentLink, Link!NoLink, Link!NoUid
  <2>7. ScreenWaits' /\ LinksWereSent'
    BY <1>1, <2>1, <2>3, <2>4 DEF LinkInv, ScreenWaits, LinksWereSent, Completing
  <2>8. AccountFollows'
    BY <1>1, <2>1, <2>3, <2>4, <2>5 DEF AccountFollows, Link!SignedInAsOwner,
                                        Link!CollisionIsReal, Link!NoUid
  <2>9. GuestKept'
    BY <1>1, GuestStays DEF OwnersStay
  <2> QED
    BY <2>6, <2>7, <2>8, <2>9 DEF LinkInv
<1>2. CASE Link!RefuseUpgrade
  <2>1. /\ op.does = "upgrade" /\ Link!Report("exists") /\ owner[op.email] # 0
        /\ ~Link!Owned(op.uid) /\ UNCHANGED <<session, restored, owner, uids, pending, starts, guest, left>>
        /\ UNCHANGED <<links, adrift>> \/ Link!Use(op.link)
    BY <1>2 DEF Link!RefuseUpgrade, Link!NoUid
  <2>2. Completing /\ op.uid = session.uid /\ op.email \in Email /\ op.link \in DOMAIN links
    BY <2>1 DEF Completing, LinkInv, AccountFollows, LinksWereSent, Asks
  <2>3. owner[op.email] # session.uid
    BY <2>1, <2>2 DEF Link!Owned
  <2>4. /\ links' \in Seq(SentLink) /\ DOMAIN links' = DOMAIN links /\ Len(links') <= MaxLinks
        /\ adrift' \subseteq adrift
    BY <2>1, <2>2, LinkUsed
  <2>5. adrift' \subseteq Link!Operation /\ \A r \in adrift' : Asks(r)'
    BY <2>4, LinkTypes DEF LinkInv, LinksWereSent, Asks
  <2> QED
    BY <1>1, <2>1, <2>2, <2>3, <2>4, <2>5
<1>3. CASE Link!FailComplete
  <2>1. /\ Completing /\ Link!Report("failed") /\ adrift' = adrift \cup Link!Unserved
        /\ session' \in {session, Link!Reloaded}
        /\ UNCHANGED <<restored, owner, uids, links, pending, starts, guest, left>>
    BY <1>3 DEF Link!FailComplete, Completing
  <2>2. links' \in Seq(SentLink) /\ DOMAIN links' = DOMAIN links /\ Len(links') <= MaxLinks
    BY <2>1, LinkTypes DEF LinkInv
  <2>3. adrift' \subseteq Link!Operation /\ \A r \in adrift' : Asks(r)'
    BY <2>1, LinkUnserved
  <2> QED
    BY <1>1, <2>1, <2>2, <2>3
<1> QED
  BY <1>2, <1>3

LEMMA LinkReceives ==
  ASSUME Link!EmailSignInAssumption, LinkInv, Link!ReceiveCompletion
  PROVE  LinkInv'
<1>1. /\ op.does = "served" /\ op' = [op EXCEPT !.does = "done"]
      /\ session' = [uid |-> op.uid, anonymous |-> FALSE]
      /\ left' = IF session.anonymous /\ session.uid # op.uid /\ op.early THEN "early" ELSE left
      /\ UNCHANGED <<restored, owner, uids, links, adrift, pending, screen, starts, guest>>
  BY DEF Link!ReceiveCompletion, Link!serverVars
<1>2. /\ op \in Link!Operation /\ op.email = screen.target /\ op.email \in Email
      /\ screen.said = "nothing" /\ left \in {"no", "early", "chosen"}
  BY <1>1, LinkTypes, LinkWaits DEF LinkInv, Completing
<1>3. /\ op.uid = owner[op.email] /\ op.uid # 0
      /\ op.early \/ ~session.anonymous \/ op.uid = session.uid
  BY <1>1 DEF LinkInv, AccountFollows
<1>4. op' \in Link!Operation /\ op'.does = "done" /\ op'.email = op.email
  BY <1>1, <1>2 DEF Link!Operation
<1>5. /\ session' \in [uid : 0..MaxUid, anonymous : BOOLEAN] /\ session'.uid = op.uid
      /\ ~session'.anonymous /\ left' \in {"no", "early", "chosen"}
  BY <1>1, <1>2 DEF Link!Operation
<1>6. Link!TypeOK'
  BY <1>1, <1>4, <1>5 DEF LinkInv, Link!TypeOK
<1>7. ScreenWaits' /\ LinksWereSent'
  BY <1>1, <1>4 DEF LinkInv, ScreenWaits, LinksWereSent, Completing, Asks
<1>8. AccountFollows'
  BY <1>1, <1>2, <1>3, <1>4, <1>5 DEF AccountFollows, Link!SignedInAsOwner, Link!CollisionIsReal
<1>9. GuestKept'
  <2>1. Link!Owned(op.uid)' /\ (Link!Owned(guest) => Link!Owned(guest)')
    BY <1>1, <1>2, <1>3 DEF Link!Owned
  <2>2. guest # 0 => Link!Attached' \/ left' # "no"
    <3>1. CASE session.uid = guest /\ session.anonymous /\ op.uid # guest
      BY <1>1, <1>3, <3>1
    <3>2. CASE ~(session.uid = guest /\ session.anonymous /\ op.uid # guest)
      BY <1>1, <1>5, <2>1, <3>2
         DEF LinkInv, GuestKept, Link!NothingLeftBehind, Link!Attached, Link!NoUid
    <3> QED
      BY <3>1, <3>2
  <2> QED
    BY <1>1, <1>5, <2>1, <2>2 DEF GuestKept, Link!NothingLeftBehind, Link!NoUid
<1> QED
  BY <1>6, <1>7, <1>8, <1>9 DEF LinkInv

LEMMA LinkBegins ==
  ASSUME Link!EmailSignInAssumption, LinkInv, Link!BeginComplete
  PROVE  LinkInv'
<1>1. /\ op = Link!NoOp /\ screen.verifying # 0
      /\ op' = [does |-> IF Link!CurrentUser.anonymous THEN "upgrade" ELSE "signIn",
                email |-> screen.target, link |-> screen.verifying,
                uid |-> IF Link!CurrentUser.anonymous THEN Link!CurrentUser.uid ELSE 0,
                early |-> ~restored]
      /\ UNCHANGED <<session, restored, owner, uids, links, adrift, pending, screen, starts, guest, left>>
  BY DEF Link!BeginComplete, Link!NoLink, Link!NoUid, Link!serverVars
<1>2. /\ screen \in LinkScreen /\ screen.verifying \in DOMAIN links /\ screen.said = "nothing"
      /\ screen.target \in Email /\ session \in [uid : 0..MaxUid, anonymous : BOOLEAN]
      /\ restored \in BOOLEAN /\ 0 \in 0..MaxUid /\ (session.anonymous => session.uid # 0)
  BY <1>1, LinkTypes DEF LinkInv, LinksWereSent, ScreenWaits, Link!TypeOK, Link!NoLink, Link!NoUid,
                         LinkScreen
<1>3. /\ Link!CurrentUser.anonymous \in BOOLEAN /\ Link!CurrentUser.uid \in 0..MaxUid
      /\ Link!CurrentUser.anonymous => restored /\ session.anonymous
                                       /\ Link!CurrentUser.uid = session.uid
      /\ ~Link!CurrentUser.anonymous => ~restored \/ ~session.anonymous
  <2>1. CASE restored
    BY <1>2, <2>1 DEF Link!CurrentUser
  <2>2. CASE ~restored
    BY <1>2, <2>2 DEF Link!CurrentUser, Link!SignedOut, Link!NoUid
  <2> QED
    BY <2>1, <2>2
<1>4. /\ op' \in Link!Operation /\ op'.does \in {"upgrade", "signIn"}
      /\ op'.email = screen.target /\ op'.link = screen.verifying
      /\ op'.does = "upgrade" => restored /\ session.anonymous /\ op'.uid = session.uid
      /\ op'.does = "signIn" => op'.early \/ ~session.anonymous
  BY <1>1, <1>2, <1>3 DEF LinkScreen, Link!Operation
<1>5. Link!TypeOK'
  BY <1>1, <1>4 DEF LinkInv, Link!TypeOK
<1>6. ScreenWaits'
  BY <1>1, <1>2, <1>4 DEF LinkInv, ScreenWaits, Completing
<1>7. LinksWereSent'
  BY <1>1, <1>2, <1>4 DEF LinkInv, LinksWereSent, Asks
<1>8. AccountFollows'
  BY <1>1, <1>2, <1>4 DEF LinkInv, AccountFollows, Link!SignedInAsOwner, Link!CollisionIsReal
<1>9. GuestKept'
  BY <1>1, GuestStays DEF OwnersStay
<1> QED
  BY <1>5, <1>6, <1>7, <1>8, <1>9 DEF LinkInv

LEMMA LinkCompletes ==
  ASSUME Link!EmailSignInAssumption, LinkInv, Link!Complete
  PROVE  LinkInv'
<1>1. /\ op.does = "done" /\ op' = Link!NoOp /\ pending' \in {NoEmail, pending}
      /\ screen' = [Link!Closed EXCEPT !.said = "done", !.target = op.email]
      /\ UNCHANGED <<session, restored, owner, uids, links, adrift, starts, guest, left>>
  BY DEF Link!Complete, Link!serverVars
<1>2. op.email \in Email /\ pending \in Email \cup {NoEmail}
  BY <1>1, LinkWaits, LinkTypes DEF LinkInv, Completing
<1>3. /\ screen' \in LinkScreen /\ screen'.verifying = 0 /\ screen'.url = 0
      /\ screen'.said = "done" /\ ~screen'.open /\ screen'.target = op.email
  BY <1>1, <1>2, LinkNothing DEF LinkScreen
<1>4. op' \in Link!Operation /\ op'.does = "none"
  BY <1>1, LinkNothing
<1>5. Link!TypeOK'
  BY <1>1, <1>2, <1>3, <1>4 DEF LinkInv, Link!TypeOK, LinkScreen, Link!NoLink
<1>6. ScreenWaits' /\ LinksWereSent'
  BY <1>1, <1>2, <1>3, <1>4 DEF LinkInv, ScreenWaits, LinksWereSent, Completing, Asks
<1>7. AccountFollows'
  BY <1>1, <1>3, <1>4 DEF LinkInv, AccountFollows, Link!SignedInAsOwner, Link!CollisionIsReal
<1>8. GuestKept'
  BY <1>1, GuestStays DEF OwnersStay
<1> QED
  BY <1>5, <1>6, <1>7, <1>8 DEF LinkInv

\* The screen is left, for the account the address has too, or the application
\* starts again.
LEMMA LinkLeaves ==
  ASSUME Link!EmailSignInAssumption, LinkInv,
         Link!Leave \/ Link!SwitchToExistingAccount \/ Link!Restart
  PROVE  LinkInv'
<1>1. ASSUME screen' = Link!Closed, op' = Link!NoOp, starts' \in 0..MaxRestarts,
             restored' \in BOOLEAN, GuestKept',
             session' \in [uid : 0..MaxUid, anonymous : BOOLEAN],
             session'.anonymous => session'.uid # 0, left' \in {"no", "early", "chosen"},
             adrift' \subseteq Link!Operation, \A r \in adrift' : Asks(r)',
             UNCHANGED <<owner, uids, links, pending, guest>>
      PROVE  LinkInv'
  <2>1. Link!TypeOK'
    BY <1>1, LinkNothing DEF LinkInv, Link!TypeOK, LinkScreen, Link!NoLink, Link!NoUid
  <2>2. ScreenWaits' /\ LinksWereSent' /\ AccountFollows'
    BY <1>1, LinkNothing DEF ScreenWaits, LinksWereSent, Completing, AccountFollows,
                             Link!SignedInAsOwner, Link!CollisionIsReal
  <2> QED
    BY <1>1, <2>1, <2>2 DEF LinkInv
<1>2. /\ session \in [uid : 0..MaxUid, anonymous : BOOLEAN]
      /\ session.anonymous => session.uid # 0
      /\ adrift \subseteq Link!Operation /\ \A r \in adrift : Asks(r)
      /\ starts \in 0..MaxRestarts /\ MaxRestarts \in Nat /\ restored \in BOOLEAN
      /\ left \in {"no", "early", "chosen"}
  BY LinkTypes DEF LinkInv, Link!TypeOK, Link!NoUid, LinksWereSent
<1>3. CASE Link!Leave
  <2>1. GuestKept'
    BY <1>3, GuestStays DEF Link!Leave, Link!ScreenOnly, Link!serverVars, OwnersStay
  <2> QED
    BY <1>1, <1>2, <1>3, <2>1 DEF Link!Leave, Link!ScreenOnly, Link!serverVars, Asks
<1>4. CASE Link!SwitchToExistingAccount
  <2>1. /\ op = Link!NoOp /\ screen' = Link!Closed
        /\ UNCHANGED <<restored, owner, uids, links, adrift, pending, op, starts, guest>>
    BY <1>4 DEF Link!SwitchToExistingAccount, Link!serverVars
  <2>2. CASE UNCHANGED <<session, left>>
    <3>1. GuestKept'
      BY <2>1, <2>2, GuestStays DEF OwnersStay
    <3> QED
      BY <1>1, <1>2, <2>1, <2>2, <3>1 DEF Asks
  <2>3. CASE session' = Link!SignedOut /\ left' = IF session.anonymous THEN "chosen" ELSE left
    <3>1. /\ session' = [uid |-> 0, anonymous |-> FALSE] /\ 0 \in 0..MaxUid
      BY <2>3, LinkTypes DEF Link!SignedOut, Link!NoUid, LinkInv
    <3>2. GuestKept'
      BY <2>1, <2>3, <3>1 DEF LinkInv, GuestKept, Link!NothingLeftBehind, Link!Attached,
                              Link!Owned, Link!NoUid
    <3> QED
      BY <1>1, <1>2, <2>1, <2>3, <3>1, <3>2 DEF Asks
  <2> QED
    BY <1>4, <2>2, <2>3 DEF Link!SwitchToExistingAccount
<1>5. CASE Link!Restart
  <2>1. /\ screen' = Link!Closed /\ op' = Link!NoOp /\ restored' = FALSE
        /\ adrift' = adrift \cup Link!Unserved
        /\ UNCHANGED <<session, owner, uids, links, pending, guest, left>>
    BY <1>5 DEF Link!Restart
  <2>2. starts' \in 0..MaxRestarts
    BY <1>2, <1>5 DEF Link!Restart
  <2>3. adrift' \subseteq Link!Operation /\ \A r \in adrift' : Asks(r)'
    BY <2>1, LinkUnserved
  <2>4. GuestKept'
    BY <2>1, GuestStays DEF OwnersStay
  <2> QED
    BY <1>1, <1>2, <2>1, <2>2, <2>3, <2>4
<1> QED
  BY <1>3, <1>4, <1>5

LEMMA LinkRestores ==
  ASSUME Link!EmailSignInAssumption, LinkInv, Link!Restore
  PROVE  LinkInv'
<1>1. /\ ~restored /\ restored' = TRUE /\ session' \in {session, Link!Reloaded}
      /\ UNCHANGED <<owner, uids, links, adrift, pending, screen, op, starts, guest, left>>
  BY DEF Link!Restore, Link!serverVars
<1>2. /\ session' \in [uid : 0..MaxUid, anonymous : BOOLEAN] /\ session'.uid = session.uid
      /\ session'.anonymous => session.anonymous /\ session'.uid # 0
  BY <1>1, LinkRereads
<1>3. Link!TypeOK'
  BY <1>1, <1>2 DEF LinkInv, Link!TypeOK, Link!NoUid
<1>4. ScreenWaits' /\ LinksWereSent'
  BY <1>1 DEF LinkInv, ScreenWaits, LinksWereSent, Completing, Asks
<1>5. AccountFollows'
  BY <1>1, <1>2 DEF LinkInv, AccountFollows, Link!SignedInAsOwner, Link!CollisionIsReal
<1>6. GuestKept'
  BY <1>1, GuestStays DEF OwnersStay
<1> QED
  BY <1>3, <1>4, <1>5, <1>6 DEF LinkInv

LEMMA LinkNext ==
  ASSUME Link!EmailSignInAssumption, LinkInv, [Link!Next]_Link!vars
  PROVE  LinkInv'
<1>1. CASE UNCHANGED Link!vars
  BY <1>1 DEF Link!vars, LinkInv, Link!TypeOK, ScreenWaits, Completing, LinksWereSent, Asks,
              AccountFollows, Link!SignedInAsOwner, Link!CollisionIsReal,
              GuestKept, Link!NothingLeftBehind, Link!Attached, Link!Owned
<1> QED
  BY <1>1, LinkUser, LinkSends, LinkServes, LinkReports, LinkReceives, LinkBegins, LinkCompletes,
     LinkLeaves, LinkRestores
     DEF Link!Next, Link!Handle

\* completeEmailLinkSignIn and the verify screen, for any number of addresses,
\* accounts, links and starts of the application, with answers lost after the
\* server did its part, requests served late, and links handled before the session
\* is restored: a completed sign-in leaves the session with the account that owns
\* the address; a collision is reported only for an address of another account; and
\* the anonymous account stays the session's or gets an address, unless the user
\* gave it up or a link came before the session was restored.
THEOREM LinksKeepAccounts ==
  ASSUME Link!EmailSignInAssumption
  PROVE  Link!Spec => [](/\ Link!TypeOK
                         /\ Link!SignedInAsOwner /\ Link!CollisionIsReal
                         /\ Link!NothingLeftBehind)
<1> DEFINE Promise == /\ Link!TypeOK
                      /\ Link!SignedInAsOwner /\ Link!CollisionIsReal
                      /\ Link!NothingLeftBehind
<1>1. Link!Init => LinkInv
  BY LinkInit
<1>2. LinkInv /\ [Link!Next]_Link!vars => LinkInv'
  BY LinkNext
<1>3. LinkInv => Promise
  BY DEF LinkInv, AccountFollows, GuestKept
<1> HIDE DEF Promise
<1>4. Link!Spec => []Promise
  BY <1>1, <1>2, <1>3, PTL DEF Link!Spec
<1> QED
  BY <1>4 DEF Promise

-----------------------------------------------------------------------------
(***************************************************************************)
(* Notification preferences.                                               *)
(***************************************************************************)
\* A call is not younger than the hook's last request; the current one is of
\* the user signed in; and what is saved or answered is of the call's user.
CallFits(c) ==
  /\ c.id <= requestId
  /\ c.id = requestId => c.userId = reader
  /\ c.does = "save" \/ c.served => c.data \in Prefs!Preferences /\ c.data.userId = c.userId

PrefsInv ==
  /\ Prefs!TypeOK /\ \A c \in requests : CallFits(c)
  /\ Prefs!OwnPreferencesStored /\ Prefs!LoadingTellsRequest

\* Somebody's preferences are not those of nobody.
LEMMA SomePreferences ==
  ASSUME Prefs!NotificationPreferencesAssumption
  PROVE  /\ \A p \in Prefs!Preferences : p # Prefs!None /\ p.userId \in User /\ p.value \in Value
         /\ \A u \in User, v \in Value : [userId |-> u, value |-> v] \in Prefs!Preferences
         /\ Default \in Value /\ MaxRequests \in Nat
BY DEF Prefs!NotificationPreferencesAssumption, Prefs!Preferences, Prefs!None

LEMMA CallFields ==
  ASSUME NEW c \in Prefs!Call
  PROVE  /\ c.id \in 1..MaxRequests /\ c.does \in {"load", "save"} /\ c.userId \in User
         /\ c.data \in Prefs!Preferences \cup {Prefs!None} /\ c.served \in BOOLEAN
         /\ c.card \in BOOLEAN
BY DEF Prefs!Call

LEMMA PrefsInit == Prefs!NotificationPreferencesAssumption /\ Prefs!Init => PrefsInv
<1> SUFFICES ASSUME Prefs!NotificationPreferencesAssumption, Prefs!Init PROVE PrefsInv
  OBVIOUS
<1>1. 0 \in 0..MaxRequests
  BY SomePreferences
<1> QED
  BY <1>1 DEF Prefs!Init, PrefsInv, Prefs!TypeOK, Prefs!Mounted, Prefs!OwnPreferencesStored,
              Prefs!LoadingTellsRequest

\* The card has left the screen.
Unheard(c) == [c EXCEPT !.card = FALSE]

LEMMA UnheardCall ==
  ASSUME NEW c \in Prefs!Call
  PROVE  /\ Unheard(c) \in Prefs!Call /\ Unheard(c).id = c.id /\ Unheard(c).does = c.does
         /\ Unheard(c).userId = c.userId /\ Unheard(c).data = c.data
         /\ Unheard(c).served = c.served
BY DEF Unheard, Prefs!Call

\* The hook's calls after the user changed: out of date, but for a new reading
LEMMA PrefsUserChanges ==
  ASSUME Prefs!NotificationPreferencesAssumption, PrefsInv,
         NEW u \in User \cup {Nobody}, Prefs!UserChanges(u)
  PROVE  PrefsInv'
<1>1. /\ requestId \in Nat /\ requestId' = requestId + 2 /\ requestId' \in 1..MaxRequests
      /\ reader' = u /\ UNCHANGED chosen /\ MaxRequests \in Nat /\ requestId' \in 0..MaxRequests
  BY SomePreferences DEF Prefs!UserChanges, PrefsInv, Prefs!TypeOK
<1>2. /\ \A c \in requests : c \in Prefs!Call /\ c.id \in Nat /\ c.id <= requestId
      /\ \A c, d \in requests : c.id = d.id => c = d
  <2>1. \A c \in requests : c \in Prefs!Call
    BY DEF PrefsInv, Prefs!TypeOK
  <2>2. \A c \in requests : c.id \in Nat
    BY <1>1, <2>1, CallFields
  <2> QED
    BY <2>1, <2>2 DEF PrefsInv, CallFits, Prefs!TypeOK
<1>3. CASE u = Nobody
  <2>1. /\ reading' = FALSE /\ preferences' = Prefs!None /\ draft' = Prefs!None
        /\ saving' = FALSE /\ failed' = FALSE
        /\ requests' = {[c EXCEPT !.card = FALSE] : c \in requests}
    BY <1>3 DEF Prefs!UserChanges
  <2>2. requests' = {Unheard(c) : c \in requests}
    BY <2>1 DEF Unheard
  <2>3. requests' \subseteq Prefs!Call /\ \A c, d \in requests' : c.id = d.id => c = d
    <3>1. \A c \in requests : Unheard(c) \in Prefs!Call /\ Unheard(c).id = c.id
      BY <1>2, UnheardCall
    <3> QED
      BY <1>2, <2>2, <3>1
  <2>4. \A d \in requests' : CallFits(d)' /\ d.id # requestId'
    <3> SUFFICES ASSUME NEW c \in requests
                 PROVE  CallFits(Unheard(c))' /\ Unheard(c).id # requestId'
      BY <2>2
    <3>1. CallFits(c) /\ c.id \in Nat /\ c \in Prefs!Call
      BY <1>2 DEF PrefsInv
    <3>2. /\ Unheard(c).id = c.id /\ Unheard(c).does = c.does
          /\ Unheard(c).userId = c.userId /\ Unheard(c).data = c.data
          /\ Unheard(c).served = c.served
      BY <3>1, UnheardCall
    <3> QED
      BY <1>1, <3>1, <3>2 DEF CallFits
  <2>5. Prefs!TypeOK'
    <3>1. reader' \in User \cup {Nobody} /\ requestId' \in 0..MaxRequests
          /\ chosen' \in [User -> Prefs!Preferences \cup {Prefs!None}]
      BY <1>1 DEF PrefsInv, Prefs!TypeOK
    <3> QED
      BY <2>1, <2>3, <3>1 DEF Prefs!TypeOK, Prefs!Mounted
  <2>6. Prefs!OwnPreferencesStored' /\ Prefs!LoadingTellsRequest'
    BY <1>1, <2>1, <2>4 DEF PrefsInv, Prefs!OwnPreferencesStored, Prefs!LoadingTellsRequest,
                            Prefs!Current
  <2> QED
    BY <2>4, <2>5, <2>6 DEF PrefsInv
<1>4. CASE u # Nobody
  <2> DEFINE y == [id |-> requestId + 2, does |-> "load", userId |-> u,
                   data |-> Prefs!None, served |-> FALSE, card |-> FALSE]
  <2>1. /\ reading' = TRUE /\ requests' = requests \cup {y}
        /\ UNCHANGED <<preferences, draft, saving, failed>>
    BY <1>4 DEF Prefs!UserChanges
  <2>2. /\ y \in Prefs!Call /\ y.id = requestId' /\ y.userId = u /\ y.does = "load"
        /\ ~y.served
    BY <1>1, <1>4 DEF Prefs!Call
  <2> HIDE DEF y
  <2>3. \A c \in requests' : c \in requests \/ c = y
    BY <2>1
  <2>4. Prefs!TypeOK'
    <3>1. requests' \subseteq Prefs!Call
      BY <1>2, <2>2, <2>3
    <3>2. \A c \in requests : c.id # y.id
      BY <1>1, <1>2, <2>2
    <3>3. \A c, d \in requests' : c.id = d.id => c = d
      BY <1>2, <2>3, <3>2
    <3> QED
      BY <1>1, <2>1, <3>1, <3>3 DEF PrefsInv, Prefs!TypeOK, Prefs!Mounted
  <2>5. \A c \in requests' : CallFits(c)'
    BY <1>1, <1>2, <2>2, <2>3 DEF PrefsInv, CallFits
  <2>6. Prefs!OwnPreferencesStored' /\ Prefs!LoadingTellsRequest'
    BY <1>1, <2>1, <2>2 DEF PrefsInv, Prefs!OwnPreferencesStored, Prefs!LoadingTellsRequest,
                            Prefs!Current
  <2> QED
    BY <2>4, <2>5, <2>6 DEF PrefsInv
<1> QED
  BY <1>3, <1>4

LEMMA PrefsSave ==
  ASSUME Prefs!NotificationPreferencesAssumption, PrefsInv, Prefs!Save
  PROVE  PrefsInv'
<1>1. /\ requestId \in Nat /\ requestId' = requestId + 1 /\ requestId' \in 1..MaxRequests
      /\ UNCHANGED <<reader, preferences, draft, chosen>> /\ ~reading /\ Prefs!Mounted
      /\ requestId' \in 0..MaxRequests
  BY SomePreferences DEF Prefs!Save, PrefsInv, Prefs!TypeOK
<1>2. \A c \in requests : c \in Prefs!Call /\ c.id \in Nat /\ c.id <= requestId
  <2>1. \A c \in requests : c \in Prefs!Call
    BY DEF PrefsInv, Prefs!TypeOK
  <2>2. \A c \in requests : c.id \in Nat
    BY <2>1, CallFields, SomePreferences
  <2> QED
    BY <2>1, <2>2 DEF PrefsInv, CallFits, Prefs!TypeOK
<1>3. CASE reader # Nobody /\ Prefs!savePreferences(reader, draft)
  <2> DEFINE y == [id |-> requestId + 1, does |-> "save", userId |-> reader,
                   data |-> draft, served |-> FALSE, card |-> TRUE]
  <2>1. /\ reading' = TRUE /\ saving' = TRUE /\ failed' = FALSE /\ requests' = requests \cup {y}
    BY <1>3 DEF Prefs!Save
  <2>2. reader \in User /\ draft \in Prefs!Preferences /\ draft.userId = reader
    BY <1>1, <1>3 DEF PrefsInv, Prefs!TypeOK, Prefs!savePreferences
  <2>3. /\ y \in Prefs!Call /\ y.id = requestId' /\ y.userId = reader /\ y.data = draft
    BY <1>1, <2>2 DEF Prefs!Call
  <2> HIDE DEF y
  <2>4. \A c \in requests' : c \in requests \/ c = y
    BY <2>1
  <2>5. Prefs!TypeOK'
    <3>1. requests' \subseteq Prefs!Call
      BY <1>2, <2>3, <2>4
    <3>2. \A c \in requests : c.id # y.id
      BY <1>1, <1>2, <2>3
    <3>3. \A c, d \in requests' : c.id = d.id => c = d
      <4>1. \A c, d \in requests : c.id = d.id => c = d
        BY DEF PrefsInv, Prefs!TypeOK
      <4> QED
        BY <2>4, <3>2, <4>1
    <3> QED
      <4>1. /\ reader' \in User \cup {Nobody} /\ requestId' \in 0..MaxRequests
            /\ preferences' \in Prefs!Preferences \cup {Prefs!None} /\ preferences' # Prefs!None
            /\ draft' \in Prefs!Preferences \cup {Prefs!None} /\ draft' # Prefs!None
            /\ chosen' \in [User -> Prefs!Preferences \cup {Prefs!None}]
        BY <1>1 DEF PrefsInv, Prefs!TypeOK, Prefs!Mounted
      <4> QED
        BY <2>1, <3>1, <3>3, <4>1 DEF Prefs!TypeOK, Prefs!Mounted
  <2>6. \A c \in requests' : CallFits(c)'
    BY <1>1, <1>2, <2>2, <2>3, <2>4 DEF PrefsInv, CallFits
  <2>7. Prefs!OwnPreferencesStored' /\ Prefs!LoadingTellsRequest'
    BY <1>1, <2>1, <2>3 DEF PrefsInv, Prefs!OwnPreferencesStored, Prefs!LoadingTellsRequest,
                            Prefs!Current
  <2> QED
    BY <2>5, <2>6, <2>7 DEF PrefsInv
<1>4. CASE ~(reader # Nobody /\ Prefs!savePreferences(reader, draft))
  <2>1. failed' = TRUE /\ UNCHANGED <<reading, saving, requests>>
    BY <1>4 DEF Prefs!Save
  <2>2. Prefs!TypeOK'
    BY <1>1, <2>1 DEF PrefsInv, Prefs!TypeOK, Prefs!Mounted
  <2>3. \A c \in requests' : CallFits(c)' /\ c.id # requestId'
    BY <1>1, <1>2, <2>1 DEF PrefsInv, CallFits
  <2>4. Prefs!OwnPreferencesStored' /\ Prefs!LoadingTellsRequest'
    BY <1>1, <2>1, <2>3 DEF PrefsInv, Prefs!OwnPreferencesStored, Prefs!LoadingTellsRequest,
                            Prefs!Current
  <2> QED
    BY <2>2, <2>3, <2>4 DEF PrefsInv
<1> QED
  BY <1>3, <1>4

LEMMA PrefsServe ==
  ASSUME Prefs!NotificationPreferencesAssumption, PrefsInv, NEW c \in requests, Prefs!Serve(c)
  PROVE  PrefsInv'
<1> DEFINE p == IF c.does = "save" THEN c.data
                ELSE IF chosen[c.userId] # Prefs!None THEN chosen[c.userId]
                ELSE [userId |-> c.userId, value |-> Default]
           y == [c EXCEPT !.served = TRUE, !.data = p]
<1>1. /\ requests' = (requests \ {c}) \cup {y}
      /\ chosen' = IF c.does = "save" THEN [chosen EXCEPT ![c.userId] = c.data] ELSE chosen
      /\ UNCHANGED <<reader, requestId, reading, preferences, draft, saving, failed>>
  BY DEF Prefs!Serve
<1>2. c \in Prefs!Call /\ c.userId \in User /\ CallFits(c)
      /\ chosen \in [User -> Prefs!Preferences \cup {Prefs!None}]
  <2>1. c \in Prefs!Call /\ CallFits(c) /\ chosen \in [User -> Prefs!Preferences \cup {Prefs!None}]
    BY DEF PrefsInv, Prefs!TypeOK
  <2> QED
    BY <2>1, CallFields
<1>3. p \in Prefs!Preferences /\ p.userId = c.userId
  <2>1. CASE c.does = "save"
    BY <1>2, <2>1 DEF CallFits
  <2>2. CASE c.does # "save" /\ chosen[c.userId] # Prefs!None
    BY <1>2, <2>2 DEF PrefsInv, Prefs!OwnPreferencesStored
  <2>3. CASE c.does # "save" /\ chosen[c.userId] = Prefs!None
    BY <1>2, <2>3, SomePreferences
  <2> QED
    BY <2>1, <2>2, <2>3
<1> HIDE DEF p
<1>4. /\ y \in Prefs!Call /\ y.id = c.id /\ y.userId = c.userId /\ y.data = p
      /\ y.does = c.does
  BY <1>2, <1>3 DEF Prefs!Call
<1> HIDE DEF y
<1>5. chosen' \in [User -> Prefs!Preferences \cup {Prefs!None}]
  BY <1>1, <1>2 DEF CallFits
<1>6. Prefs!TypeOK'
  BY <1>1, <1>4, <1>5 DEF PrefsInv, Prefs!TypeOK, Prefs!Mounted
<1>7. \A d \in requests' : CallFits(d)'
  BY <1>1, <1>2, <1>3, <1>4 DEF PrefsInv, CallFits
<1>8. Prefs!OwnPreferencesStored'
  BY <1>1, <1>2 DEF PrefsInv, Prefs!OwnPreferencesStored, CallFits
<1>9. Prefs!LoadingTellsRequest'
  BY <1>1, <1>4 DEF PrefsInv, Prefs!LoadingTellsRequest, Prefs!Current
<1> QED
  BY <1>6, <1>7, <1>8, <1>9 DEF PrefsInv

\* An answer, or a failure: the call is over.
LEMMA PrefsOver ==
  ASSUME Prefs!NotificationPreferencesAssumption, PrefsInv, NEW c \in requests,
         requests' = requests \ {c}, reading' = (reading /\ c.id # requestId),
         preferences' \in Prefs!Preferences \cup {Prefs!None}, draft' \in Prefs!Preferences \cup {Prefs!None},
         preferences # Prefs!None => preferences' # Prefs!None, preferences' # Prefs!None => draft' # Prefs!None,
         saving' = (saving /\ ~c.card), failed' \in BOOLEAN,
         UNCHANGED <<reader, requestId, chosen>>
  PROVE  PrefsInv'
<1>1. Prefs!TypeOK'
  BY DEF PrefsInv, Prefs!TypeOK, Prefs!Mounted
<1>2. \A d \in requests' : CallFits(d)'
  BY DEF PrefsInv, CallFits
<1>3. Prefs!OwnPreferencesStored'
  BY DEF PrefsInv, Prefs!OwnPreferencesStored
<1>4. Prefs!LoadingTellsRequest'
  BY DEF PrefsInv, Prefs!LoadingTellsRequest, Prefs!Current, Prefs!TypeOK
<1> QED
  BY <1>1, <1>2, <1>3, <1>4 DEF PrefsInv

LEMMA PrefsAnswer ==
  ASSUME Prefs!NotificationPreferencesAssumption, PrefsInv, NEW c \in requests,
         Prefs!Answer(c) \/ Prefs!Fail(c)
  PROVE  PrefsInv' /\ Prefs!ShowsCurrentUsers
<1>1. /\ c \in Prefs!Call /\ CallFits(c) /\ reading \in BOOLEAN /\ saving \in BOOLEAN
      /\ failed \in BOOLEAN /\ preferences \in Prefs!Preferences \cup {Prefs!None}
      /\ draft \in Prefs!Preferences \cup {Prefs!None} /\ (preferences # Prefs!None => draft # Prefs!None)
  BY DEF PrefsInv, Prefs!TypeOK, Prefs!Mounted
<1>2. CASE Prefs!Fail(c)
  <2>1. /\ requests' = requests \ {c} /\ reading' = (reading /\ c.id # requestId)
        /\ saving' = (saving /\ ~c.card) /\ failed' \in BOOLEAN
        /\ UNCHANGED <<reader, requestId, preferences, draft, chosen>>
    BY <1>1, <1>2, CallFields DEF Prefs!Fail, Prefs!Current
  <2> QED
    BY <1>1, <2>1, PrefsOver DEF Prefs!ShowsCurrentUsers
<1>3. CASE Prefs!Answer(c)
  <2>1. /\ c.served /\ requests' = requests \ {c} /\ saving' = (saving /\ ~c.card)
        /\ failed' \in BOOLEAN /\ UNCHANGED <<reader, requestId, chosen>>
    BY <1>1, <1>3, CallFields DEF Prefs!Answer, Prefs!Current
  <2>2. c.data \in Prefs!Preferences /\ c.data.userId = c.userId /\ c.data # Prefs!None
    BY <1>1, <2>1, SomePreferences DEF CallFits
  <2>3. CASE c.id = requestId
    <3>1. reading' = FALSE /\ preferences' = c.data /\ draft' = c.data
      BY <1>3, <2>3 DEF Prefs!Answer, Prefs!Current, Prefs!Show
    <3>2. c.userId = reader
      BY <1>1, <2>3 DEF CallFits
    <3> QED
      BY <2>1, <2>2, <2>3, <3>1, <3>2, PrefsOver DEF Prefs!ShowsCurrentUsers
  <2>4. CASE c.id # requestId
    <3>1. /\ reading' = reading /\ preferences' = preferences
          /\ draft' = IF c.card THEN c.data ELSE draft
      BY <1>3, <2>4 DEF Prefs!Answer, Prefs!Current
    <3>2. reading' = (reading /\ c.id # requestId)
      BY <1>1, <2>4, <3>1
    <3>3. draft' \in Prefs!Preferences \cup {Prefs!None} /\ (preferences' # Prefs!None => draft' # Prefs!None)
      BY <1>1, <2>2, <3>1
    <3> QED
      BY <1>1, <2>1, <3>1, <3>2, <3>3, PrefsOver DEF Prefs!ShowsCurrentUsers
  <2> QED
    BY <2>3, <2>4
<1> QED
  BY <1>2, <1>3

\* What is done on the card only
LEMMA PrefsEdit ==
  ASSUME Prefs!NotificationPreferencesAssumption, PrefsInv,
         (\E v \in Value : Prefs!Edit(v)) \/ Prefs!Reset
  PROVE  PrefsInv'
<1>1. Prefs!Mounted /\ preferences \in Prefs!Preferences /\ draft \in Prefs!Preferences
  BY DEF Prefs!Edit, Prefs!Reset, PrefsInv, Prefs!TypeOK, Prefs!Mounted
<1>2. /\ UNCHANGED <<reader, requestId, reading, preferences, requests, saving, chosen>>
      /\ failed' \in BOOLEAN
  BY DEF Prefs!Edit, Prefs!Reset, PrefsInv, Prefs!TypeOK
<1>3. draft' \in Prefs!Preferences
  BY <1>1 DEF Prefs!Edit, Prefs!Reset, Prefs!Preferences
<1>4. Prefs!TypeOK'
  BY <1>2, <1>3, SomePreferences DEF PrefsInv, Prefs!TypeOK, Prefs!Mounted
<1> QED
  BY <1>2, <1>4 DEF PrefsInv, CallFits, Prefs!OwnPreferencesStored, Prefs!LoadingTellsRequest,
                    Prefs!Current

LEMMA PrefsNext ==
  ASSUME Prefs!NotificationPreferencesAssumption, PrefsInv, [Prefs!Next]_Prefs!vars
  PROVE  PrefsInv' /\ [Prefs!ShowsCurrentUsers]_Prefs!vars
<1>1. CASE UNCHANGED Prefs!vars
  BY <1>1 DEF Prefs!vars, PrefsInv, Prefs!TypeOK, Prefs!Mounted, CallFits,
              Prefs!OwnPreferencesStored, Prefs!LoadingTellsRequest, Prefs!Current
<1>2. (\E u \in User \cup {Nobody} : Prefs!UserChanges(u)) \/ (\E v \in Value : Prefs!Edit(v))
      \/ Prefs!Save \/ Prefs!Reset \/ (\E c \in requests : Prefs!Serve(c)) => Prefs!ShowsCurrentUsers
  BY DEF Prefs!UserChanges, Prefs!Edit, Prefs!Save, Prefs!Reset, Prefs!Serve,
         Prefs!ShowsCurrentUsers
<1> QED
  BY <1>1, <1>2, PrefsUserChanges, PrefsSave, PrefsServe, PrefsAnswer, PrefsEdit DEF Prefs!Next

\* NotificationPreferenceService and its hook, for any number of users and
\* requests, with users changing and answers coming late or not at all: what is
\* stored for a user is that user's, the hook loads while its request is out,
\* and it shows new preferences of the user signed in only.
THEOREM PreferencesStayOwn ==
  ASSUME Prefs!NotificationPreferencesAssumption
  PROVE  Prefs!Spec => [](Prefs!TypeOK) /\ Prefs!OwnDataStored
<1>1. Prefs!Init => PrefsInv
  BY PrefsInit
<1>2. PrefsInv /\ [Prefs!Next]_Prefs!vars => PrefsInv'
  BY PrefsNext
<1>3. PrefsInv /\ [Prefs!Next]_Prefs!vars => [Prefs!ShowsCurrentUsers]_Prefs!vars
  BY PrefsNext
<1>4. PrefsInv => Prefs!TypeOK /\ Prefs!OwnPreferencesStored /\ Prefs!LoadingTellsRequest
  BY DEF PrefsInv
<1> QED
  BY <1>1, <1>2, <1>3, <1>4, PTL DEF Prefs!Spec, Prefs!OwnDataStored

-----------------------------------------------------------------------------
(***************************************************************************)
(* Setting up a profile.                                                   *)
(***************************************************************************)
Typed == [by : User, text : Text]
Saving == [step : {"read", "write", "answer"}, userId : User, details : Typed,
           found : Setup!Profile \cup {Setup!None}]

\* A profile is stored for the user it is of; it is read for somebody; and what
\* a save is answered for is stored.
ProfilesFit ==
  /\ \A u \in User : profiles[u] # Setup!None => profiles[u].userId = u
  /\ \A s \in Screens : loadingProfile[s] => member[s] # Nobody
  /\ \A s \in Screens : save[s].step = "answer" => profiles[save[s].userId] # Setup!None

SetupInv == Setup!TypeOK /\ ProfilesFit /\ Setup!EditsOwnProfile

LEMMA SetupTypes ==
  ASSUME Setup!ProfileSetupAssumption, SetupInv
  PROVE  /\ profiles \in [User -> Setup!Profile \cup {Setup!None}]
         /\ \A s \in Screens : save[s] = Setup!Idle \/ save[s] \in Saving
         /\ \A p \in Setup!Profile : /\ p # Setup!None /\ p.userId \in User
                                     /\ p.details \in Typed /\ p.trust \in 0..MaxTrust
         /\ Typed \subseteq Setup!Details
         /\ Nobody \notin User /\ MaxTrust \in Nat /\ 0 \in 0..MaxTrust
<1>1. Nobody \notin User /\ MaxTrust \in Nat /\ 0 \in 0..MaxTrust
  BY DEF Setup!ProfileSetupAssumption
<1>2. profiles \in [User -> Setup!Profile \cup {Setup!None}]
      /\ \A s \in Screens : save[s] = Setup!Idle \/ save[s] \in Saving
  BY DEF SetupInv, Setup!TypeOK, Setup!Save, Saving, Typed
<1>3. \A p \in Setup!Profile : /\ p # Setup!None /\ p.userId \in User
                               /\ p.details \in Typed /\ p.trust \in 0..MaxTrust
  BY <1>1 DEF Setup!Profile, Setup!None, Typed
<1> QED
  BY <1>1, <1>2, <1>3 DEF Typed, Setup!Details

\* A save that is under way
LEMMA SaveFields ==
  ASSUME Setup!ProfileSetupAssumption, SetupInv, NEW s \in Screens,
         save[s].step \in {"read", "write", "answer"}
  PROVE  /\ save[s] \in Saving /\ save[s].userId \in User /\ save[s].details \in Typed
         /\ save[s].found \in Setup!Profile \cup {Setup!None}
         /\ save[s].found.trust \in 0..MaxTrust
<1>1. save[s] \in Saving
  BY SetupTypes DEF Setup!Idle
<1>2. /\ save[s].userId \in User /\ save[s].details \in Typed
      /\ save[s].found \in Setup!Profile \cup {Setup!None}
  BY <1>1 DEF Saving
<1>3. Setup!None.trust = 0
  BY DEF Setup!None
<1> QED
  BY <1>1, <1>2, <1>3, SetupTypes

LEMMA SetupInit == Setup!ProfileSetupAssumption /\ Setup!Init => SetupInv
<1> SUFFICES ASSUME Setup!ProfileSetupAssumption, Setup!Init PROVE SetupInv
  OBVIOUS
<1>1. Setup!Empty \in Setup!Details /\ Setup!Idle \in Setup!Save /\ 0 \in 0..MaxSignIns
      /\ Setup!Idle.step = "idle"
  BY DEF Setup!Empty, Setup!Details, Setup!Idle, Setup!Save, Setup!ProfileSetupAssumption
<1>2. Setup!TypeOK
  BY <1>1 DEF Setup!Init, Setup!TypeOK
<1>3. ProfilesFit /\ Setup!EditsOwnProfile
  BY <1>1 DEF Setup!Init, ProfilesFit, Setup!EditsOwnProfile
<1> QED
  BY <1>2, <1>3 DEF SetupInv

\* What does not store
LEMMA SetupScreens ==
  ASSUME Setup!ProfileSetupAssumption, SetupInv, NEW s \in Screens,
         \/ \E u \in User \cup {Nobody} : Setup!SessionChanges(s, u)
         \/ Setup!Loaded(s) \/ Setup!NotLoaded(s) \/ Setup!Retry(s) \/ Setup!Reopen(s)
         \/ \E t \in Text : Setup!Type(s, t)
  PROVE  SetupInv'
<1>1. UNCHANGED <<save, profiles>> /\ Setup!Empty \in Setup!Details
      /\ signIns' \in 0..MaxSignIns
  BY DEF Setup!SessionChanges, Setup!Loaded, Setup!NotLoaded, Setup!Retry, Setup!Reopen, Setup!Type,
         Setup!Empty, Setup!Details, SetupInv, Setup!TypeOK, Setup!ProfileSetupAssumption
<1>2. ASSUME NEW u \in User \cup {Nobody}, Setup!SessionChanges(s, u) PROVE SetupInv'
  <2>1. /\ member' = [member EXCEPT ![s] = u] /\ loadingProfile' = [loadingProfile EXCEPT ![s] = (u # Nobody)]
        /\ loadError' = [loadError EXCEPT ![s] = (@ /\ u = Nobody)]
        /\ UNCHANGED <<form, existing, formError, home>>
    BY <1>2 DEF Setup!SessionChanges
  <2>2. Setup!TypeOK'
    BY <1>1, <2>1 DEF SetupInv, Setup!TypeOK
  <2>3. ProfilesFit' /\ Setup!EditsOwnProfile'
    BY <1>1, <2>1 DEF SetupInv, ProfilesFit, Setup!EditsOwnProfile, Setup!Shown, Setup!TypeOK
  <2> QED
    BY <2>2, <2>3 DEF SetupInv
<1>3. CASE Setup!Loaded(s)
  <2> DEFINE p == profiles[member[s]]
  <2>1. /\ loadingProfile[s] /\ existing' = [existing EXCEPT ![s] = p]
        /\ form' = [form EXCEPT ![s] = IF p = Setup!None THEN @ ELSE p.details]
        /\ loadingProfile' = [loadingProfile EXCEPT ![s] = FALSE]
        /\ UNCHANGED <<member, loadError, formError, home>>
    BY <1>3 DEF Setup!Loaded
  <2>2. member[s] \in User /\ p \in Setup!Profile \cup {Setup!None}
        /\ (p # Setup!None => p.userId = member[s] /\ p.details \in Setup!Details)
    BY <2>1, SetupTypes DEF SetupInv, ProfilesFit, Setup!TypeOK
  <2> HIDE DEF p
  <2>3. Setup!TypeOK'
    BY <1>1, <2>1, <2>2 DEF SetupInv, Setup!TypeOK
  <2>4. ProfilesFit' /\ Setup!EditsOwnProfile'
    BY <1>1, <2>1, <2>2 DEF SetupInv, ProfilesFit, Setup!EditsOwnProfile, Setup!Shown, Setup!TypeOK
  <2> QED
    BY <2>3, <2>4 DEF SetupInv
<1>4. CASE Setup!NotLoaded(s)
  <2>1. Setup!TypeOK'
    BY <1>1, <1>4 DEF Setup!NotLoaded, SetupInv, Setup!TypeOK
  <2>2. ProfilesFit' /\ Setup!EditsOwnProfile'
    BY <1>1, <1>4 DEF Setup!NotLoaded, SetupInv, ProfilesFit, Setup!EditsOwnProfile, Setup!Shown,
                      Setup!TypeOK
  <2> QED
    BY <2>1, <2>2 DEF SetupInv
<1>5. CASE Setup!Retry(s)
  <2>1. Setup!TypeOK'
    BY <1>1, <1>5 DEF Setup!Retry, SetupInv, Setup!TypeOK
  <2>2. ProfilesFit' /\ Setup!EditsOwnProfile'
    BY <1>1, <1>5 DEF Setup!Retry, SetupInv, ProfilesFit, Setup!EditsOwnProfile, Setup!Shown,
                      Setup!TypeOK
  <2> QED
    BY <2>1, <2>2 DEF SetupInv
<1>6. CASE Setup!Reopen(s)
  <2>1. Setup!TypeOK'
    BY <1>1, <1>6 DEF Setup!Reopen, SetupInv, Setup!TypeOK
  <2>2. ProfilesFit' /\ Setup!EditsOwnProfile'
    BY <1>1, <1>6 DEF Setup!Reopen, SetupInv, ProfilesFit, Setup!EditsOwnProfile, Setup!Shown,
                      Setup!TypeOK
  <2> QED
    BY <2>1, <2>2 DEF SetupInv
<1>7. ASSUME NEW x \in Text, Setup!Type(s, x) PROVE SetupInv'
  <2>1. /\ form' = [form EXCEPT ![s] = [by |-> member[s], text |-> x]]
        /\ UNCHANGED <<member, existing, loadingProfile, loadError, formError, home>>
    BY <1>7 DEF Setup!Type
  <2>2. [by |-> member[s], text |-> x] \in Setup!Details
    BY <1>7 DEF Setup!Type, Setup!Shown, SetupInv, Setup!TypeOK, Setup!Details
  <2>3. Setup!TypeOK'
    BY <1>1, <2>1, <2>2 DEF SetupInv, Setup!TypeOK
  <2>4. ProfilesFit' /\ Setup!EditsOwnProfile'
    BY <1>1, <2>1 DEF SetupInv, ProfilesFit, Setup!EditsOwnProfile, Setup!Shown
  <2> QED
    BY <2>3, <2>4 DEF SetupInv
<1> QED
  BY <1>2, <1>3, <1>4, <1>5, <1>6, <1>7

\* The steps of a save
LEMMA SetupSaves ==
  ASSUME Setup!ProfileSetupAssumption, SetupInv, NEW s \in Screens,
         Setup!handleSave(s) \/ Setup!ReadExisting(s) \/ Setup!Saved(s) \/ Setup!NotSaved(s)
  PROVE  SetupInv'
<1>1. /\ UNCHANGED <<member, form, existing, loadingProfile, loadError, profiles, signIns>>
      /\ formError' \in [Screens -> BOOLEAN] /\ home' \in [Screens -> BOOLEAN]
      /\ \A x \in Screens : home'[x] = home[x] \/ home'[x]
  BY DEF Setup!handleSave, Setup!ReadExisting, Setup!Saved, Setup!NotSaved, SetupInv, Setup!TypeOK
<1>2. PICK y \in Setup!Save : save' = [save EXCEPT ![s] = y] /\ y.step # "answer"
  <2>1. Setup!Idle \in Setup!Save /\ Setup!Idle.step # "answer"
    BY DEF Setup!Idle, Setup!Save
  <2>2. CASE Setup!handleSave(s)
    <3> DEFINE y == [step |-> "read", userId |-> member[s], details |-> form[s],
                     found |-> Setup!None]
    <3>1. save' = [save EXCEPT ![s] = y] /\ Setup!Shown(s) /\ form[s].text # Blank
      BY <2>2 DEF Setup!handleSave
    <3>2. member[s] \in User /\ form[s] \in Typed
      BY <3>1 DEF Setup!Shown, SetupInv, Setup!TypeOK, Setup!Details, Typed
    <3>3. y \in Setup!Save /\ y.step # "answer"
      BY <3>2 DEF Setup!Save, Typed
    <3> QED
      BY <3>1, <3>3
  <2>3. CASE Setup!ReadExisting(s)
    <3> DEFINE y == [save[s] EXCEPT !.step = "write", !.found = profiles[save[s].userId]]
    <3>1. save[s] \in Saving /\ save[s].userId \in User
      BY <2>3, SaveFields DEF Setup!ReadExisting
    <3>2. profiles[save[s].userId] \in Setup!Profile \cup {Setup!None}
      BY <3>1, SetupTypes
    <3>3. y \in Setup!Save /\ y.step # "answer"
      BY <3>1, <3>2 DEF Saving, Setup!Save, Typed
    <3>4. save' = [save EXCEPT ![s] = y]
      BY <2>3 DEF Setup!ReadExisting, SetupInv, Setup!TypeOK
    <3> QED
      BY <3>3, <3>4
  <2>4. CASE Setup!Saved(s) \/ Setup!NotSaved(s)
    BY <2>1, <2>4 DEF Setup!Saved, Setup!NotSaved
  <2> QED
    BY <2>2, <2>3, <2>4
<1>3. Setup!TypeOK'
  BY <1>1, <1>2 DEF SetupInv, Setup!TypeOK
<1>4. ProfilesFit'
  BY <1>1, <1>2 DEF SetupInv, ProfilesFit, Setup!TypeOK
<1>5. Setup!EditsOwnProfile'
  BY <1>1 DEF SetupInv, Setup!EditsOwnProfile, Setup!Shown
<1> QED
  BY <1>3, <1>4, <1>5 DEF SetupInv

\* What stores: a save's write, and the server giving trust
LEMMA SetupStores ==
  ASSUME Setup!ProfileSetupAssumption, SetupInv,
         \/ \E s \in Screens : Setup!Write(s)
         \/ \E u \in User, t \in 1..MaxTrust : Setup!GiveTrust(u, t)
  PROVE  SetupInv' /\ Setup!TrustStays
<1>1. UNCHANGED <<member, form, existing, loadingProfile, loadError, formError, home, signIns>>
  BY DEF Setup!Write, Setup!GiveTrust, Setup!screens
<1>2. ASSUME NEW u \in User, NEW p \in Setup!Profile, p.userId = u,
             profiles' = [profiles EXCEPT ![u] = p],
             p.details # profiles[u].details => p.trust = profiles[u].trust,
             save' \in [Screens -> Setup!Save],
             \A s \in Screens : \/ save'[s] = save[s]
                                \/ save'[s].userId = u
      PROVE  SetupInv' /\ Setup!TrustStays
  <2>1. profiles' \in [User -> Setup!Profile \cup {Setup!None}] /\ profiles'[u] = p
        /\ (\A x \in User : x # u => profiles'[x] = profiles[x]) /\ p # Setup!None
    BY <1>2, SetupTypes
  <2>2. Setup!TypeOK'
    BY <1>1, <1>2, <2>1 DEF SetupInv, Setup!TypeOK
  <2>3. \A s \in Screens : save'[s].step = "answer" => profiles'[save'[s].userId] # Setup!None
    <3> SUFFICES ASSUME NEW s \in Screens, save'[s].step = "answer"
                 PROVE  profiles'[save'[s].userId] # Setup!None
      OBVIOUS
    <3>1. CASE save'[s] = save[s]
      <4>1. save[s].userId \in User /\ profiles[save[s].userId] # Setup!None
        BY <3>1, SaveFields DEF SetupInv, ProfilesFit
      <4> QED
        BY <2>1, <3>1, <4>1
    <3> QED
      BY <1>2, <2>1, <3>1
  <2>4. ProfilesFit'
    BY <1>1, <1>2, <2>1, <2>3 DEF SetupInv, ProfilesFit
  <2>5. Setup!EditsOwnProfile'
    BY <1>1 DEF SetupInv, Setup!EditsOwnProfile, Setup!Shown
  <2>6. Setup!TrustStays
    BY <1>2, <2>1 DEF Setup!TrustStays
  <2> QED
    BY <2>2, <2>4, <2>5, <2>6 DEF SetupInv
<1>3. ASSUME NEW s \in Screens, Setup!Write(s) PROVE SetupInv' /\ Setup!TrustStays
  <2> DEFINE u == save[s].userId
             p == [userId |-> u, details |-> save[s].details, trust |-> save[s].found.trust]
  <2>1. /\ save[s].step = "write" /\ Setup!Allowed(member[s], profiles[u], p)
        /\ profiles' = [profiles EXCEPT ![u] = p]
        /\ save' = [save EXCEPT ![s].step = "answer"]
    BY <1>3 DEF Setup!Write
  <2>2. /\ save[s] \in Saving /\ u \in User /\ save[s].details \in Typed
        /\ save[s].found.trust \in 0..MaxTrust
    BY <2>1, SaveFields
  <2>3. p \in Setup!Profile /\ p.userId = u
    BY <2>2 DEF Setup!Profile, Typed
  <2>4. p.trust = profiles[u].trust
    BY <2>1 DEF Setup!Allowed, Setup!None
  <2> DEFINE y == [save[s] EXCEPT !.step = "answer"]
  <2>5. y \in Setup!Save /\ y.userId = u
    BY <2>2 DEF Saving, Setup!Save, Typed
  <2> HIDE DEF p
  <2>6. save' = [save EXCEPT ![s] = y] /\ save \in [Screens -> Setup!Save]
    BY <2>1 DEF SetupInv, Setup!TypeOK
  <2> HIDE DEF y
  <2>7. save' \in [Screens -> Setup!Save]
        /\ \A x \in Screens : save'[x] = save[x] \/ save'[x].userId = u
    BY <2>5, <2>6
  <2> HIDE DEF u
  <2> QED
    BY <1>2, <2>1, <2>2, <2>3, <2>4, <2>7
<1>4. ASSUME NEW u \in User, NEW t \in 1..MaxTrust, Setup!GiveTrust(u, t)
      PROVE  SetupInv' /\ Setup!TrustStays
  <2> DEFINE p == [profiles[u] EXCEPT !.trust = t]
  <2>1. /\ profiles[u] # Setup!None /\ profiles' = [profiles EXCEPT ![u] = p] /\ UNCHANGED save
        /\ profiles[u] \in Setup!Profile /\ profiles[u].userId = u
    BY <1>4, SetupTypes DEF Setup!GiveTrust, Setup!screens, SetupInv, ProfilesFit
  <2>2. t \in 0..MaxTrust
    BY SetupTypes
  <2>3. p \in Setup!Profile /\ p.userId = u /\ p.details = profiles[u].details
    BY <2>1, <2>2 DEF Setup!Profile
  <2> HIDE DEF p
  <2> QED
    BY <1>2, <2>1, <2>3 DEF SetupInv, Setup!TypeOK
<1> QED
  BY <1>3, <1>4

LEMMA SetupNext ==
  ASSUME Setup!ProfileSetupAssumption, SetupInv, [Setup!Next]_Setup!vars
  PROVE  SetupInv' /\ [Setup!TrustStays /\ Setup!StoredBeforeHome]_Setup!vars
<1>1. CASE UNCHANGED Setup!vars
  BY <1>1 DEF Setup!vars, Setup!screens, SetupInv, Setup!TypeOK, ProfilesFit,
              Setup!EditsOwnProfile, Setup!Shown
<1>2. CASE \/ \E s \in Screens : Setup!Write(s)
           \/ \E u \in User, t \in 1..MaxTrust : Setup!GiveTrust(u, t)
  <2>1. Setup!StoredBeforeHome
    BY <1>2 DEF Setup!StoredBeforeHome, Setup!Write, Setup!GiveTrust, Setup!screens
  <2> QED
    BY <1>2, <2>1, SetupStores
<1>3. ASSUME NEW s \in Screens,
             \/ \E u \in User \cup {Nobody} : Setup!SessionChanges(s, u)
             \/ Setup!Loaded(s) \/ Setup!NotLoaded(s) \/ Setup!Retry(s) \/ Setup!Reopen(s)
             \/ \E t \in Text : Setup!Type(s, t)
      PROVE  SetupInv' /\ Setup!TrustStays /\ Setup!StoredBeforeHome
  <2>1. UNCHANGED profiles /\ \A x \in Screens : home'[x] => home[x]
    BY <1>3 DEF Setup!SessionChanges, Setup!Loaded, Setup!NotLoaded, Setup!Retry, Setup!Reopen,
                Setup!Type, SetupInv, Setup!TypeOK
  <2> QED
    BY <1>3, <2>1, SetupScreens DEF Setup!TrustStays, Setup!StoredBeforeHome
<1>4. ASSUME NEW s \in Screens,
             Setup!handleSave(s) \/ Setup!ReadExisting(s) \/ Setup!Saved(s) \/ Setup!NotSaved(s)
      PROVE  SetupInv' /\ Setup!TrustStays /\ Setup!StoredBeforeHome
  <2>1. UNCHANGED profiles
    BY <1>4 DEF Setup!handleSave, Setup!ReadExisting, Setup!Saved, Setup!NotSaved
  <2>2. \A x \in Screens : home'[x] => home[x] \/ (x = s /\ save[s].step = "answer")
    BY <1>4 DEF Setup!handleSave, Setup!ReadExisting, Setup!Saved, Setup!NotSaved, SetupInv,
                Setup!TypeOK
  <2>3. Setup!StoredBeforeHome
    BY <2>2 DEF Setup!StoredBeforeHome, SetupInv, ProfilesFit
  <2> QED
    BY <1>4, <2>1, <2>3, SetupSaves DEF Setup!TrustStays
<1> QED
  BY <1>1, <1>2, <1>3, <1>4 DEF Setup!Next, Setup!Calls

\* ProfileService and the profile-setup screen, for any number of users,
\* devices and scores, with users coming and going while calls are out: the form
\* edits the profile of the user signed in, no save changes a trust score, and
\* the screen goes to Home only over a stored profile.
THEOREM ProfilesStayOwn ==
  ASSUME Setup!ProfileSetupAssumption
  PROVE  Setup!Spec => [](Setup!TypeOK) /\ Setup!OwnDataStored
<1>1. Setup!Init => SetupInv
  BY SetupInit
<1>2. SetupInv /\ [Setup!Next]_Setup!vars => SetupInv'
  BY SetupNext
<1>3. SetupInv /\ [Setup!Next]_Setup!vars
        => [Setup!TrustStays /\ Setup!StoredBeforeHome]_Setup!vars
  BY SetupNext
<1>4. SetupInv => Setup!TypeOK /\ Setup!EditsOwnProfile
  BY DEF SetupInv
<1> QED
  BY <1>1, <1>2, <1>3, <1>4, PTL DEF Setup!Spec, Setup!OwnDataStored

-----------------------------------------------------------------------------
(***************************************************************************)
(* The live smoke of the safety callables and its clean-up.                *)
(***************************************************************************)
\* What the clean-up needs to recognise a document is known with it.
Recognisable ==
  /\ {"placeAudit", "releaseHold"} \cap resources # {} => "releaseShipment" \in resources
  /\ "releaseAudit" \in resources => "releaseHold" \in resources
  /\ {"safetyReview", "safetyReviewAudit"} \cap resources # {} => "safetyShipment" \in resources

\* The clean-up is through with `r`.
Settled(r) ==
  /\ report[r] # "none"
  /\ report[r] = "deleted" => r \notin exists
  /\ report[r] = "skipped" => r \notin resources

\* The run knows of what the steps before this one made, and no answer was
\* lost before it fails.
RunKnows ==
  stage = "running" =>
    /\ ~broken /\ unanswered = {} /\ next \in 1..8
    /\ \A i \in 1..8 : i < next => Smoke!Steps[i] \subseteq resources

CleanupSettles ==
  stage \in {"cleanup", "succeeded", "ended"} =>
    /\ ~broken => Smoke!Resource \subseteq resources /\ unanswered = {}
    /\ stage = "cleanup" => next \in 1..10
    /\ \A j \in 1..10 : (stage = "cleanup" => j < next) => Settled(Smoke!Order[j])

SmokeInv ==
  /\ Smoke!TypeOK /\ Recognisable /\ RunKnows /\ CleanupSettles
  /\ exists \subseteq resources \cup unanswered /\ roles \subseteq resources
  /\ stage = "succeeded" => ~broken /\ \A r \in Smoke!Resource : report[r] # "failed"

LEMMA SmokeSteps ==
  /\ Smoke!Steps[1] = {"userUid"} /\ Smoke!Steps[2] = {"operationsAdminUid"}
  /\ Smoke!Steps[3] = {"safetyAdminUid"} /\ Smoke!Steps[4] = {"releaseShipment"}
  /\ Smoke!Steps[5] = {"releaseHold", "placeAudit"} /\ Smoke!Steps[6] = {"releaseAudit"}
  /\ Smoke!Steps[7] = {"safetyShipment"}
  /\ Smoke!Steps[8] = {"safetyReview", "safetyReviewAudit"}
  /\ Len(Smoke!Steps) = 8
BY DEF Smoke!Steps

LEMMA SmokeResources ==
  Smoke!Resource = {"userUid", "operationsAdminUid", "safetyAdminUid", "releaseShipment",
                    "releaseHold", "placeAudit", "releaseAudit", "safetyShipment",
                    "safetyReview", "safetyReviewAudit"}
BY DEF Smoke!Resource, Smoke!Account, Smoke!Document

LEMMA SmokeOrder ==
  /\ Len(Smoke!Order) = 10 /\ \A j \in 1..10 : Smoke!Order[j] \in Smoke!Resource
  /\ \A r \in Smoke!Resource : \E j \in 1..10 : Smoke!Order[j] = r
<1>1. /\ Smoke!Order[1] = "safetyReviewAudit" /\ Smoke!Order[2] = "safetyReview"
      /\ Smoke!Order[3] = "releaseAudit" /\ Smoke!Order[4] = "placeAudit"
      /\ Smoke!Order[5] = "releaseHold" /\ Smoke!Order[6] = "safetyShipment"
      /\ Smoke!Order[7] = "releaseShipment" /\ Smoke!Order[8] = "safetyAdminUid"
      /\ Smoke!Order[9] = "operationsAdminUid" /\ Smoke!Order[10] = "userUid"
      /\ Len(Smoke!Order) = 10
  BY DEF Smoke!Order
<1>2. \A j \in 1..10 : j \in {1, 2, 3, 4, 5, 6, 7, 8, 9, 10}
  OBVIOUS
<1>3. \A j \in 1..10 : Smoke!Order[j] \in Smoke!Resource
  BY <1>1, <1>2, SmokeResources
<1>4. \A r \in Smoke!Resource : \E j \in 1..10 : Smoke!Order[j] = r
  BY <1>1, SmokeResources
<1> QED
  BY <1>1, <1>3, <1>4

\* Each step makes resources, and those that it needs to recognise them were
\* made by the steps before.
LEMMA StepIsRecognisable ==
  ASSUME SmokeInv, stage = "running", resources' = resources \cup Smoke!Steps[next]
  PROVE  /\ Recognisable' /\ Smoke!Steps[next] \subseteq Smoke!Resource
         /\ next = 8 => Smoke!Resource \subseteq resources'
         /\ \A i \in 1..8 : i < next + 1 => Smoke!Steps[i] \subseteq resources'
<1>1. /\ next \in 1..8 /\ \A i \in 1..8 : i < next => Smoke!Steps[i] \subseteq resources
      /\ Recognisable
  BY DEF SmokeInv, RunKnows
<1>2. next \in {1, 2, 3, 4, 5, 6, 7, 8}
  BY <1>1
<1>3. \A i \in 1..8 : i < next + 1 => Smoke!Steps[i] \subseteq resources'
  <2> SUFFICES ASSUME NEW i \in 1..8, i < next + 1 PROVE Smoke!Steps[i] \subseteq resources'
    OBVIOUS
  <2>1. i = next \/ i < next
    BY <1>1
  <2> QED
    BY <1>1, <2>1
<1>4. Smoke!Steps[next] \subseteq Smoke!Resource
  BY <1>2, SmokeSteps, SmokeResources
<1>5. Recognisable'
  <2>1. next = 5 => "releaseShipment" \in resources
    BY <1>1, SmokeSteps
  <2>2. next = 6 => "releaseHold" \in resources
    BY <1>1, SmokeSteps
  <2>3. next = 8 => "safetyShipment" \in resources
    BY <1>1, SmokeSteps
  <2> QED
    BY <1>1, <1>2, <2>1, <2>2, <2>3, SmokeSteps DEF Recognisable
<1>6. ASSUME next = 8 PROVE Smoke!Resource \subseteq resources'
  <2>1. /\ Smoke!Steps[1] \subseteq resources' /\ Smoke!Steps[2] \subseteq resources'
        /\ Smoke!Steps[3] \subseteq resources' /\ Smoke!Steps[4] \subseteq resources'
        /\ Smoke!Steps[5] \subseteq resources' /\ Smoke!Steps[6] \subseteq resources'
        /\ Smoke!Steps[7] \subseteq resources' /\ Smoke!Steps[8] \subseteq resources'
    BY <1>3, <1>6
  <2> QED
    BY <2>1, SmokeSteps, SmokeResources
<1> QED
  BY <1>3, <1>4, <1>5, <1>6

LEMMA SmokeInit == Smoke!Init => SmokeInv
<1> SUFFICES ASSUME Smoke!Init PROVE SmokeInv
  OBVIOUS
<1>1. /\ exists = {} /\ roles = {} /\ resources = {} /\ next = 1 /\ stage = "running"
      /\ broken = FALSE /\ unanswered = {} /\ report = [r \in Smoke!Resource |-> "none"]
  BY DEF Smoke!Init
<1>2. Smoke!TypeOK
  <2>1. next \in 1..Len(Smoke!Order) + 1
    BY <1>1, SmokeOrder
  <2> QED
    BY <1>1, <2>1 DEF Smoke!TypeOK
<1> QED
  BY <1>1, <1>2 DEF SmokeInv, Recognisable, RunKnows, CleanupSettles

LEMMA SmokeStepKeeps ==
  ASSUME SmokeInv, Smoke!Step \/ Smoke!StepFails
  PROVE  SmokeInv'
<1> DEFINE made == Smoke!Steps[next]
<1>1. stage = "running" /\ next \in 1..8 /\ ~broken /\ unanswered = {}
  BY DEF SmokeInv, RunKnows, Smoke!Step, Smoke!StepFails
<1>2. made \subseteq Smoke!Resource
  BY <1>1, SmokeSteps, SmokeResources
<1>3. CASE Smoke!Step
  <2>1. /\ exists' = exists \cup made /\ resources' = resources \cup made
        /\ roles' = roles \cup (made \cap Smoke!Admin)
        /\ UNCHANGED <<broken, unanswered, report>>
        /\ \/ next < 8 /\ next' = next + 1 /\ stage' = "running"
           \/ next = 8 /\ next' = 1 /\ stage' = "cleanup"
    BY <1>1, <1>3, SmokeSteps DEF Smoke!Step, Smoke!Makes, Smoke!Privileged
  <2>2. /\ Recognisable'
        /\ next = 8 => Smoke!Resource \subseteq resources'
        /\ \A i \in 1..8 : i < next + 1 => Smoke!Steps[i] \subseteq resources'
    BY <1>1, <2>1, StepIsRecognisable
  <2>3. Smoke!TypeOK'
    BY <1>1, <1>2, <2>1, SmokeOrder DEF SmokeInv, Smoke!TypeOK
  <2>4. RunKnows' /\ CleanupSettles'
    BY <1>1, <2>1, <2>2 DEF RunKnows, CleanupSettles
  <2> QED
    BY <2>1, <2>2, <2>3, <2>4 DEF SmokeInv
<1>4. CASE Smoke!StepFails
  <2>1. /\ broken' = TRUE /\ next' = 1 /\ stage' = "cleanup" /\ report' = report
        /\ \/ /\ exists' = exists /\ roles' = roles /\ resources' = resources
              /\ unanswered' = unanswered
           \/ /\ exists' = exists \cup made /\ roles' = roles /\ resources' = resources
              /\ unanswered' = unanswered \cup made
           \/ /\ exists' = exists \cup made /\ resources' = resources \cup made
              /\ roles' \in {roles, roles \cup (made \cap Smoke!Admin)}
              /\ unanswered' = unanswered
    BY <1>4 DEF Smoke!StepFails, Smoke!Makes, Smoke!Privileged
  <2>2. Recognisable'
    <3>1. CASE resources' = resources
      BY <3>1 DEF SmokeInv, Recognisable
    <3>2. CASE resources' = resources \cup made
      BY <1>1, <3>2, StepIsRecognisable
    <3> QED
      BY <2>1, <3>1, <3>2
  <2>3. Smoke!TypeOK'
    BY <1>1, <1>2, <2>1, SmokeOrder DEF SmokeInv, Smoke!TypeOK
  <2>4. RunKnows' /\ CleanupSettles'
    BY <2>1 DEF RunKnows, CleanupSettles
  <2>5. exists' \subseteq resources' \cup unanswered' /\ roles' \subseteq resources'
    BY <2>1 DEF SmokeInv
  <2> QED
    BY <2>1, <2>2, <2>3, <2>4, <2>5 DEF SmokeInv
<1> QED
  BY <1>3, <1>4

LEMMA CleanupKeeps ==
  ASSUME SmokeInv, Smoke!Cleanup
  PROVE  SmokeInv'
<1>1. /\ stage = "cleanup" /\ next \in 1..10
      /\ report \in [Smoke!Resource -> {"none", "deleted", "skipped", "failed"}]
      /\ exists \subseteq Smoke!Resource /\ roles \subseteq exists /\ roles \subseteq Smoke!Admin
  BY SmokeOrder DEF SmokeInv, CleanupSettles, Smoke!Cleanup, Smoke!TypeOK
<1>2. /\ UNCHANGED <<resources, broken, unanswered>> /\ next' = next + 1
      /\ stage' = IF next < 10 THEN "cleanup"
                  ELSE IF broken \/ \E x \in Smoke!Resource : report'[x] = "failed"
                  THEN "ended" ELSE "succeeded"
  BY <1>1, SmokeOrder DEF Smoke!Cleanup
<1> PICK r \in Smoke!Resource : r = Smoke!Order[next]
  BY <1>1, SmokeOrder
<1>3. Smoke!Known(r) <=> r \in resources
  BY DEF SmokeInv, Recognisable, Smoke!Known
<1>4. \/ report' = [report EXCEPT ![r] = "deleted"] /\ exists' = exists \ {r}
         /\ roles' = roles \ {r}
      \/ /\ report' = [report EXCEPT ![r] = "failed"]
         /\ roles' \in {roles, roles \ {r}} /\ exists' \in {exists, exists \ {r}}
         /\ exists' = exists \/ r \notin roles'
      \/ /\ report' = [report EXCEPT ![r] = "skipped"] /\ r \notin resources
         /\ exists' = exists /\ roles' = roles
  BY <1>3 DEF Smoke!Cleanup, Smoke!Delete
<1>5. /\ exists' \subseteq exists /\ roles' \subseteq roles /\ roles' \subseteq exists'
      /\ report' \in [Smoke!Resource -> {"none", "deleted", "skipped", "failed"}]
      /\ \A x \in Smoke!Resource : x # r => report'[x] = report[x]
      /\ Settled(r)'
  <2>1. CASE report' = [report EXCEPT ![r] = "deleted"] /\ exists' = exists \ {r}
             /\ roles' = roles \ {r}
    <3>1. report'[r] = "deleted"
      BY <1>1, <2>1
    <3> QED
      BY <1>1, <2>1, <3>1 DEF Settled
  <2>2. CASE /\ report' = [report EXCEPT ![r] = "failed"]
             /\ roles' \in {roles, roles \ {r}} /\ exists' \in {exists, exists \ {r}}
             /\ exists' = exists \/ r \notin roles'
    <3>1. report'[r] = "failed"
      BY <1>1, <2>2
    <3> QED
      BY <1>1, <2>2, <3>1 DEF Settled
  <2>3. CASE /\ report' = [report EXCEPT ![r] = "skipped"] /\ r \notin resources
             /\ exists' = exists /\ roles' = roles
    <3>1. report'[r] = "skipped"
      BY <1>1, <2>3
    <3> QED
      BY <1>1, <1>2, <2>3, <3>1 DEF Settled
  <2> QED
    BY <1>4, <2>1, <2>2, <2>3
<1>6. Smoke!TypeOK'
  BY <1>1, <1>2, <1>5, SmokeOrder DEF SmokeInv, Smoke!TypeOK
<1>7. \A j \in 1..10 : j < next + 1 => Settled(Smoke!Order[j])'
  <2> SUFFICES ASSUME NEW j \in 1..10, j < next + 1 PROVE Settled(Smoke!Order[j])'
    OBVIOUS
  <2>1. CASE Smoke!Order[j] = r
    BY <1>5, <2>1 DEF Settled
  <2>2. CASE Smoke!Order[j] # r
    <3>1. j < next
      BY <1>1, <2>2
    <3>2. Settled(Smoke!Order[j]) /\ Smoke!Order[j] \in Smoke!Resource
      BY <1>1, <3>1, SmokeOrder DEF SmokeInv, CleanupSettles
    <3> QED
      BY <1>2, <1>5, <2>2, <3>2 DEF Settled
  <2> QED
    BY <2>1, <2>2
<1>8. CleanupSettles'
  <2>1. ~broken' => Smoke!Resource \subseteq resources' /\ unanswered' = {}
    BY <1>1, <1>2 DEF SmokeInv, CleanupSettles
  <2>2. stage' = "cleanup" => next' \in 1..10
    BY <1>1, <1>2
  <2>3. \A j \in 1..10 : (stage' = "cleanup" => j < next') => Settled(Smoke!Order[j])'
    BY <1>1, <1>2, <1>7
  <2> QED
    BY <2>1, <2>2, <2>3 DEF CleanupSettles
<1>9. Recognisable' /\ RunKnows'
  BY <1>1, <1>2 DEF SmokeInv, Recognisable, RunKnows
<1>10. stage' = "succeeded" => ~broken' /\ \A x \in Smoke!Resource : report'[x] # "failed"
  BY <1>2
<1> QED
  BY <1>2, <1>5, <1>6, <1>8, <1>9, <1>10 DEF SmokeInv

LEMMA SmokeNext ==
  ASSUME SmokeInv, [Smoke!Next]_Smoke!vars
  PROVE  SmokeInv'
<1>1. CASE Smoke!Step \/ Smoke!StepFails
  BY <1>1, SmokeStepKeeps
<1>2. CASE Smoke!Cleanup
  BY <1>2, CleanupKeeps
<1>3. CASE Smoke!Kill
  BY <1>3 DEF Smoke!Kill, SmokeInv, Smoke!TypeOK, Recognisable, RunKnows, CleanupSettles
<1>4. CASE UNCHANGED Smoke!vars
  BY <1>4 DEF Smoke!vars, SmokeInv, Smoke!TypeOK, Recognisable, RunKnows, CleanupSettles, Settled
<1> QED
  BY <1>1, <1>2, <1>3, <1>4 DEF Smoke!Next

LEMMA SmokeGives ==
  ASSUME SmokeInv
  PROVE  Smoke!TypeOK /\ Smoke!SmokeLeavesNothing
<1>1. Smoke!TypeOK
  BY DEF SmokeInv
<1>2. ASSUME stage \in {"succeeded", "ended"}, NEW r \in Smoke!Resource PROVE Settled(r)
  BY <1>2, SmokeOrder DEF SmokeInv, CleanupSettles
<1>3. \A r \in Smoke!Resource : report[r] \in {"none", "deleted", "skipped", "failed"}
  BY <1>1 DEF Smoke!TypeOK
<1>4. exists \subseteq Smoke!Resource /\ roles \subseteq exists
  BY <1>1 DEF Smoke!TypeOK
<1>5. Smoke!SuccessLeavesNothing
  <2> SUFFICES ASSUME stage = "succeeded", NEW r \in Smoke!Resource
               PROVE  report[r] = "deleted" /\ r \notin exists
    BY <1>4 DEF Smoke!SuccessLeavesNothing
  <2> QED
    BY <1>2, <1>3 DEF SmokeInv, CleanupSettles, Settled
<1>6. Smoke!LeftIsReported
  BY <1>2, <1>3, <1>4 DEF SmokeInv, Settled, Smoke!LeftIsReported
<1>7. Smoke!NoSilentAdministrator
  BY <1>2, <1>3, <1>4 DEF SmokeInv, Settled, Smoke!NoSilentAdministrator
<1> QED
  BY <1>1, <1>5, <1>6, <1>7 DEF Smoke!SmokeLeavesNothing

\* Whichever steps fail, with or without their answers: success leaves nothing
\* in the project, and what is left after a run that was not interrupted is
\* reported or comes of an unanswered call (runPlaceAdministrativeHoldSmoke,
\* cleanupCreatedResources).
THEOREM SmokeIsTidy == Smoke!Spec => [](Smoke!TypeOK /\ Smoke!SmokeLeavesNothing)
BY SmokeInit, SmokeNext, SmokeGives, PTL DEF Smoke!Spec

-----------------------------------------------------------------------------
(***************************************************************************)
(* The components beside each other.  None touches the state of another,   *)
(* so each behaves as its own specification says, and what is proved of it *)
(* holds in every behaviour of Accounts.                                   *)
(***************************************************************************)
LEMMA EachBehaves ==
  Spec => /\ Push!Spec /\ Link!Spec /\ Identity!Spec /\ Offline!Spec /\ Prefs!Spec
          /\ Setup!Spec /\ Claims!Spec /\ Console!Spec /\ Smoke!Spec
<1>1. Init => /\ Push!Init /\ Link!Init /\ Identity!Init /\ Offline!Init /\ Prefs!Init
              /\ Setup!Init /\ Claims!Init /\ Console!Init /\ Smoke!Init
  BY DEF Init
<1>2. [Next]_vars => [Push!Next]_Push!vars
  BY DEF Next, vars, Push!vars, pushVars, PushMoves, EmailMoves, IdentityMoves, OfflineMoves,
         PreferencesMove, ProfileMoves, ClaimsMove, ConsoleMoves, SmokeMoves
<1>3. [Next]_vars => [Link!Next]_Link!vars
  BY DEF Next, vars, Link!vars, emailVars, PushMoves, EmailMoves, IdentityMoves, OfflineMoves,
         PreferencesMove, ProfileMoves, ClaimsMove, ConsoleMoves, SmokeMoves
<1>4. [Next]_vars => [Identity!Next]_Identity!vars
  BY DEF Next, vars, Identity!vars, identityVars, PushMoves, EmailMoves, IdentityMoves,
         OfflineMoves, PreferencesMove, ProfileMoves, ClaimsMove, ConsoleMoves, SmokeMoves
<1>5. [Next]_vars => [Offline!Next]_Offline!vars
  BY DEF Next, vars, Offline!vars, offlineVars, PushMoves, EmailMoves, IdentityMoves,
         OfflineMoves, PreferencesMove, ProfileMoves, ClaimsMove, ConsoleMoves, SmokeMoves
<1>6. [Next]_vars => [Prefs!Next]_Prefs!vars
  BY DEF Next, vars, Prefs!vars, preferenceVars, PushMoves, EmailMoves, IdentityMoves,
         OfflineMoves, PreferencesMove, ProfileMoves, ClaimsMove, ConsoleMoves, SmokeMoves
<1>7. [Next]_vars => [Setup!Next]_Setup!vars
  BY DEF Next, vars, Setup!vars, Setup!screens, profileVars, PushMoves, EmailMoves, IdentityMoves,
         OfflineMoves, PreferencesMove, ProfileMoves, ClaimsMove, ConsoleMoves, SmokeMoves
<1>8. [Next]_vars => [Claims!Next]_Claims!vars
  BY DEF Next, vars, Claims!vars, claimVars, PushMoves, EmailMoves, IdentityMoves,
         OfflineMoves, PreferencesMove, ProfileMoves, ClaimsMove, ConsoleMoves, SmokeMoves
<1>9. [Next]_vars => [Console!Next]_Console!vars
  BY DEF Next, vars, Console!vars, consoleVars, PushMoves, EmailMoves, IdentityMoves,
         OfflineMoves, PreferencesMove, ProfileMoves, ClaimsMove, ConsoleMoves, SmokeMoves
<1>10. [Next]_vars => [Smoke!Next]_Smoke!vars
  BY DEF Next, vars, Smoke!vars, smokeVars, PushMoves, EmailMoves, IdentityMoves, OfflineMoves,
         PreferencesMove, ProfileMoves, ClaimsMove, ConsoleMoves, SmokeMoves
<1> QED
  BY <1>1, <1>2, <1>3, <1>4, <1>5, <1>6, <1>7, <1>8, <1>9, <1>10, PTL
     DEF Spec, Push!Spec, Link!Spec, Identity!Spec, Offline!Spec, Prefs!Spec, Setup!Spec,
         Claims!Spec, Console!Spec, Smoke!Spec

\* A role taken away goes with its tokens, and callables, rules and console
\* admit alike (RoleProvisioningService, AdminConsoleClaimsService): what
\* RolesRevoked says, wherever it is the roles that move.
THEOREM OldRolesAreRevoked == Spec => []OldRolesRevoked
<1>1. Claims!Spec => [](Claims!TypeOK /\ Claims!OldRolesRevoked /\ Claims!TablesAgree)
  BY RolesRevoked, PartsAssumption
<1>2. Claims!TypeOK /\ Claims!OldRolesRevoked /\ Claims!TablesAgree => OldRolesRevoked
  BY DEF OldRolesRevoked
<1> QED
  BY <1>1, <1>2, EachBehaves, PTL

\* The console's pages show only after the server confirmed a role to the user
\* shown (useAdminLayoutController), as ConsoleNeedsFreshRole says.
THEOREM ConsoleFollowsRefresh == Spec => []ConsoleAfterFreshRole
<1>1. Console!Spec => [](Console!TypeOK /\ Console!ConsoleAfterFreshRole)
  BY ConsoleNeedsFreshRole, PartsAssumption
<1>2. Console!TypeOK /\ Console!ConsoleAfterFreshRole => ConsoleAfterFreshRole
  BY DEF ConsoleAfterFreshRole
<1> QED
  BY <1>1, <1>2, EachBehaves, PTL

\* The phase shown is what error, connection and waiting writes add up to
\* (FirebaseOfflineStatusGateway), as BannerTellsSync says.
THEOREM SyncIsTold == Spec => []SyncTold
<1>1. Offline!Spec => [](Offline!TypeOK /\ Offline!SyncTold)
  BY BannerTellsSync, PartsAssumption
<1>2. Offline!TypeOK /\ Offline!SyncTold => SyncTold
  BY DEF SyncTold
<1> QED
  BY <1>1, <1>2, EachBehaves, PTL

\* The smoke of the safety callables leaves nothing that is not reported
\* (runPlaceAdministrativeHoldSmoke), as SmokeIsTidy says.
THEOREM SmokeLeavesNothingBehind == Spec => []SmokeLeavesNothing
<1>1. Smoke!Spec => [](Smoke!TypeOK /\ Smoke!SmokeLeavesNothing)
  BY SmokeIsTidy
<1>2. Smoke!TypeOK /\ Smoke!SmokeLeavesNothing => SmokeLeavesNothing
  BY DEF SmokeLeavesNothing
<1> QED
  BY <1>1, <1>2, EachBehaves, PTL

\* What is reviewed is what was submitted (IdentityVerificationService), and
\* the history accounts for the status, as ReviewsAreOfSubmissions says.
THEOREM ReviewsFollowSubmissions == Spec => ReviewedAsSubmitted
<1>1. Identity!Spec => /\ [](Identity!TypeOK /\ Identity!HistoryTellsStatus)
                       /\ [][Identity!Extended]_Identity!vars
                       /\ [][Identity!AsSubmitted]_Identity!vars
  BY ReviewsAreOfSubmissions, PartsAssumption DEF Identity!ReviewedAsSubmitted
<1>2. [Identity!Extended]_Identity!vars /\ [Identity!AsSubmitted]_Identity!vars
      => [moving = "identity" => Identity!Extended /\ Identity!AsSubmitted]_identityVars
  BY DEF Identity!vars, identityVars
<1>3. Identity!TypeOK /\ Identity!HistoryTellsStatus
      => (moving = "identity" => Identity!TypeOK /\ Identity!HistoryTellsStatus)
  OBVIOUS
<1> QED
  BY <1>1, <1>2, <1>3, EachBehaves, PTL DEF ReviewedAsSubmitted

\* Whoever signed out after a confirmed clean-up is not registered on the
\* installation (AuthSessionService.signOut), as SignOutLeavesNothing says.
THEOREM SignOutsAreClean == Spec => SignedOutClean
<1>1. Push!Spec => /\ [](Push!TypeOK) /\ [](Push!CleanSignOut /\ Push!CardTellsItsUser)
                   /\ [][Push!InOrder]_Push!vars
  BY SignOutLeavesNothing, PartsAssumption DEF Push!SignedOutClean
<1>2. [Push!InOrder]_Push!vars => [moving = "push" => Push!InOrder]_pushVars
  BY DEF Push!vars, pushVars
<1>3. Push!TypeOK /\ Push!CleanSignOut /\ Push!CardTellsItsUser
      => (moving = "push" => Push!TypeOK /\ Push!CleanSignOut /\ Push!CardTellsItsUser)
  OBVIOUS
<1> QED
  BY <1>1, <1>2, <1>3, EachBehaves, PTL DEF SignedOutClean

\* The account behind a link (completeEmailLinkSignIn and the verify screen): the
\* owner of the address is signed in, collisions are real, and the anonymous account
\* stays, but for the user's choice and for links handled before the session is
\* restored, as LinksKeepAccounts says.
THEOREM AccountsAreKept == Spec => []AccountKept
<1>1. Link!Spec => [](/\ Link!TypeOK
                      /\ Link!SignedInAsOwner /\ Link!CollisionIsReal
                      /\ Link!NothingLeftBehind)
  BY LinksKeepAccounts, PartsAssumption
<1>2. Link!TypeOK /\ Link!SignedInAsOwner /\ Link!CollisionIsReal /\ Link!NothingLeftBehind
      => AccountKept
  BY DEF AccountKept
<1> QED
  BY <1>1, <1>2, EachBehaves, PTL

\* What is stored as a user's preferences was shown as theirs
\* (NotificationPreferenceService); and of profiles (ProfileService), that the form
\* updates only the user's own, that a save leaves the trust score alone and that
\* Home follows a stored profile: PreferencesStayOwn and ProfilesStayOwn.  Whose
\* details a save of the form writes is not claimed.
THEOREM OwnDataIsStored == Spec => OwnDataStored
<1>1. Prefs!Spec => /\ [](Prefs!TypeOK)
                    /\ [](Prefs!OwnPreferencesStored /\ Prefs!LoadingTellsRequest)
                    /\ [][Prefs!ShowsCurrentUsers]_Prefs!vars
  BY PreferencesStayOwn, PartsAssumption DEF Prefs!OwnDataStored
<1>2. Setup!Spec => /\ [](Setup!TypeOK) /\ [](Setup!EditsOwnProfile)
                    /\ [][Setup!TrustStays /\ Setup!StoredBeforeHome]_Setup!vars
  BY ProfilesStayOwn, PartsAssumption DEF Setup!OwnDataStored
<1>3. /\ [Prefs!ShowsCurrentUsers]_Prefs!vars
         => [moving = "preferences" => Prefs!ShowsCurrentUsers]_preferenceVars
      /\ Prefs!TypeOK /\ Prefs!OwnPreferencesStored /\ Prefs!LoadingTellsRequest
         => (moving = "preferences" =>
               Prefs!TypeOK /\ Prefs!OwnPreferencesStored /\ Prefs!LoadingTellsRequest)
  BY DEF Prefs!vars, preferenceVars
<1>4. /\ [Setup!TrustStays /\ Setup!StoredBeforeHome]_Setup!vars
         => [moving = "profile" => Setup!TrustStays /\ Setup!StoredBeforeHome]_profileVars
      /\ Setup!TypeOK /\ Setup!EditsOwnProfile
         => (moving = "profile" => Setup!TypeOK /\ Setup!EditsOwnProfile)
  BY DEF Setup!vars, Setup!screens, profileVars
<1> QED
  BY <1>1, <1>2, <1>3, <1>4, EachBehaves, PTL DEF OwnDataStored
=============================================================================
