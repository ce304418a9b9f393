------------------------- MODULE PushRegistrations --------------------------
(***************************************************************************)
(* The devices one user has registered for push notifications: the         *)
(* documents of pushTokenRegistrations/{userId}/devices, which only the    *)
(* server writes.  A version counts the generations of a registration, so  *)
(* that what was learnt of one token is never applied to a later one.      *)
(***************************************************************************)
EXTENDS Integers, FiniteSets

CONSTANTS
  Device,        \* installations, numbered in the order of their document ids
  Token,         \* raw push tokens
  MaxVersion,    \* bound on registrationVersion (Number.MAX_SAFE_INTEGER)
  None           \* null, or a field the document does not have

ASSUME RegistrationAssumption ==
  /\ Device \subseteq Nat
  /\ MaxVersion \in Nat \ {0}
  /\ None \notin Token /\ None \notin Int

VARIABLES
  registration,  \* [Device -> Registration]
  wanted         \* history: the devices whose user registered them last

registrationVars == <<registration, wanted>>

-----------------------------------------------------------------------------
\* A record made before versions existed has none
Registration ==
  [exists: BOOLEAN, active: BOOLEAN, token: Token \cup {None},
   version: 1..MaxVersion \cup {None}]

NoRegistration == [exists |-> FALSE, active |-> FALSE, token |-> None, version |-> None]

RegistrationTypeOK ==
  /\ registration \in [Device -> Registration]
  /\ wanted \subseteq Device

\* Devices are unknown, or registered by an early version of the server
InitRegistrations ==
  /\ registration \in
       [Device -> {NoRegistration} \cup
                  [exists: {TRUE}, active: {TRUE}, token: Token, version: {None}]]
  /\ wanted = {d \in Device : registration[d].exists}

\* The generation that registering a token gives: the same one for the token
\* that is already active, else the next.
NextVersion(r, token) ==
  IF r.version = None THEN 1
  ELSE IF r.active /\ r.token = token THEN r.version
  ELSE r.version + 1

\* Registering fails when the versions are used up
RegisterPushToken(d, token) ==
  LET version == NextVersion(registration[d], token) IN
  /\ version <= MaxVersion
  /\ registration' = [registration EXCEPT ![d] =
        [exists |-> TRUE, active |-> TRUE, token |-> token, version |-> version]]
  /\ wanted' = wanted \cup {d}

\* Unregistering keeps the document and its version and drops the token
UnregisterPushToken(d) ==
  /\ registration[d].exists
  /\ registration' = [registration EXCEPT ![d].active = FALSE, ![d].token = None]
  /\ wanted' = wanted \ {d}

\* What the provider's rejection of a token does: the registration ends only
\* if it is still the one the token was taken from.
SameRegistrationMutant(r, token, version) == r.active /\ r.token = token
SameRegistration(r, token, version) ==
  r.active /\ r.token = token /\ r.version = version

DeactivateRegistration(d, token, version) ==
  /\ registration' =
       IF SameRegistration(registration[d], token, version)
       THEN [registration EXCEPT ![d].active = FALSE, ![d].token = None]
       ELSE registration
  /\ UNCHANGED wanted

\* A registration that a notification may be sent to
Deliverable(r) == r.active /\ r.version # None

\* The registrations a dispatch selects, one for each distinct token: the
\* first document that holds it
SelectedDevices ==
  {d \in Device :
     /\ Deliverable(registration[d])
     /\ \A other \in Device :
          Deliverable(registration[other]) /\ registration[other].token = registration[d].token
            => d <= other}
=============================================================================
