---------------------------- MODULE EmailSignIn -----------------------------
(***************************************************************************)
(* Signing in with a link sent by email: the login and verify screens over *)
(* FirebaseAuthSessionGateway.  An installation may have an anonymous      *)
(* account from before; opening a link is to upgrade it in place.  The     *)
(* email a link was sent to is kept on the device.  After a start of the   *)
(* application the provider restores its session, the screen reads the     *)
(* kept email and the operating system hands over the link, in any order.  *)
(* The provider's server and its answer are two steps: the answer may be   *)
(* lost, and a request that was given up may still be served.              *)
(***************************************************************************)
EXTENDS Naturals, Sequences

CONSTANTS Email, NoEmail,
          MaxUid,       \* bound on the accounts
          MaxLinks,     \* bound on the links sent
          MaxRestarts   \* bound on the starts of the application

EmailSignInAssumption ==
    /\ NoEmail \notin Email
    /\ {MaxUid, MaxLinks, MaxRestarts} \subseteq Nat /\ MaxUid > 0

VARIABLES session,    \* the account of this installation, on the device
          restored,   \* the provider has read it since the start
          owner,      \* the account of each email address, on the server
          uids,       \* accounts made
          links,      \* links sent: the address and whether it was used
          pending,    \* the address kept on the device
          screen,     \* the verify screen
          op,         \* the running operation of AuthSessionService
          adrift,     \* requests that nobody waits for and the server may still serve
          restarts,
          guest,      \* history: the anonymous account the installation had
          left        \* history: why the installation gave its anonymous account up

vars == <<session, restored, owner, uids, links, pending, screen, op, adrift, restarts,
          guest, left>>
serverVars == <<owner, uids, links, adrift>>

NoUid == 0
NoLink == 0
SignedOut == [uid |-> NoUid, anonymous |-> FALSE]
Closed == [open |-> FALSE, target |-> NoEmail, loaded |-> FALSE, url |-> NoLink,
           attempted |-> {}, verifying |-> NoLink, said |-> "nothing"]
NoOp == [does |-> "none", email |-> NoEmail, link |-> NoLink, uid |-> NoUid, early |-> FALSE]

\* An operation: sending a link, or completing one, for the account `uid` if it
\* is to upgrade that one or has been served; `early` if it was begun before
\* the session was restored.
Operation ==
    [does : {"none", "send", "upgrade", "signIn", "served", "done"},
     email : Email \cup {NoEmail}, link : 0..MaxLinks, uid : 0..MaxUid, early : BOOLEAN]

TypeOK ==
    /\ session \in [uid : 0..MaxUid, anonymous : BOOLEAN]
    /\ restored \in BOOLEAN /\ owner \in [Email -> 0..MaxUid] /\ uids \in 0..MaxUid
    /\ links \in Seq([email : Email, used : BOOLEAN]) /\ Len(links) <= MaxLinks
    /\ pending \in Email \cup {NoEmail}
    /\ screen \in [open : BOOLEAN, target : Email \cup {NoEmail}, loaded : BOOLEAN,
                   url : 0..MaxLinks, attempted : SUBSET (1..MaxLinks),
                   verifying : 0..MaxLinks,
                   said : {"nothing", "noEmail", "failed", "exists", "done"}]
    /\ op \in Operation /\ adrift \subseteq Operation
    /\ restarts \in 0..MaxRestarts
    /\ guest \in 0..MaxUid /\ left \in {"no", "early", "chosen"}
    /\ session.anonymous => session.uid # NoUid
    /\ screen.verifying # NoLink => screen.open /\ screen.target # NoEmail

\* An installation without an account, or with an anonymous one; an address
\* may have an account made on another device.
Init ==
    /\ session \in {SignedOut, [uid |-> 1, anonymous |-> TRUE]}
    /\ \E known \in Email \cup {NoEmail} :
          /\ uids = session.uid + IF known = NoEmail THEN 0 ELSE 1
          /\ owner = [e \in Email |-> IF e = known THEN uids ELSE NoUid]
    /\ uids <= MaxUid
    /\ restored = TRUE
    /\ links = <<>> /\ pending = NoEmail /\ screen = Closed /\ op = NoOp /\ adrift = {}
    /\ restarts = 0
    /\ guest = session.uid /\ left = "no"

\* What `auth.currentUser` is
CurrentUser == IF restored THEN session ELSE SignedOut

\* The account can be signed in to again from anywhere.
Owned(uid) == \E e \in Email : owner[e] = uid

\* What the provider learns of the session's account when it reads it anew
Reloaded == [session EXCEPT !.anonymous = @ /\ ~Owned(session.uid)]

(***************************************************************************)
(* Asking for a link.                                                      *)
(***************************************************************************)
\* From the login screen, or again from the verify screen.
SendLink(e) ==
    /\ op = NoOp /\ screen.verifying = NoLink /\ Len(links) < MaxLinks
    /\ screen.open => screen.target = e /\ screen.said # "exists"
    /\ links' = Append(links, [email |-> e, used |-> FALSE])
    /\ op' = [NoOp EXCEPT !.does = "send", !.email = e]
    /\ UNCHANGED <<session, restored, owner, uids, pending, screen, adrift, restarts, guest, left>>

\* The link is on its way and the address is kept, if the device's storage
\* works; or the answer was lost.
LinkSent ==
    /\ op.does = "send"
    /\ op' = NoOp
    /\ \/ /\ pending' \in {op.email, pending}
          /\ screen' = IF screen.open THEN screen
                       ELSE [Closed EXCEPT !.open = TRUE, !.target = op.email, !.loaded = TRUE]
       \/ UNCHANGED <<pending, screen>>
    /\ UNCHANGED <<session, restored, serverVars, restarts, guest, left>>

\* A kept address is dropped after 24 hours.
Expire ==
    /\ pending # NoEmail /\ pending' = NoEmail
    /\ UNCHANGED <<session, restored, serverVars, screen, op, restarts, guest, left>>

(***************************************************************************)
(* The verify screen.                                                      *)
(***************************************************************************)
ScreenOnly ==
    UNCHANGED <<session, restored, serverVars, pending, op, restarts, guest, left>>

\* The user opens a link: it brings the verify screen up.
OpenLink(l) ==
    /\ l \in DOMAIN links /\ screen.verifying = NoLink
    /\ screen' = IF screen.open THEN [screen EXCEPT !.url = l]
                 ELSE [Closed EXCEPT !.open = TRUE, !.url = l]
    /\ ScreenOnly

\* A screen without an address reads the one that is kept.
LoadPendingEmail ==
    /\ screen.open /\ screen.target = NoEmail /\ ~screen.loaded
    /\ screen' = [screen EXCEPT !.loaded = TRUE, !.target = pending]
    /\ ScreenOnly

\* Without an address the screen asks for one.
HandleCompleteVerification(l, s) ==
    screen' = IF s.target = NoEmail THEN [s EXCEPT !.said = "noEmail"]
              ELSE [s EXCEPT !.verifying = l, !.said = "nothing"]

\* A link that has come is tried once.
AutoVerify ==
    /\ screen.open /\ screen.url # NoLink /\ screen.verifying = NoLink
    /\ screen.url \notin screen.attempted
    /\ HandleCompleteVerification(screen.url,
           [screen EXCEPT !.attempted = @ \cup {screen.url}])
    /\ ScreenOnly

\* The user types an address, and pastes the link.
EnterEmail(e) ==
    /\ screen.open /\ screen.target = NoEmail /\ screen.said = "noEmail"
    /\ screen' = [screen EXCEPT !.target = e]
    /\ ScreenOnly

PasteLink(l) ==
    /\ screen.open /\ l \in DOMAIN links /\ screen.verifying = NoLink
    /\ screen.said # "exists"
    /\ HandleCompleteVerification(l, screen)
    /\ ScreenOnly

\* "Use a different email": back to the login screen.
Leave ==
    /\ screen.open /\ screen.verifying = NoLink /\ op = NoOp
    /\ screen' = Closed
    /\ ScreenOnly

(***************************************************************************)
(* completeEmailLinkSignIn.                                                *)
(***************************************************************************)
BeginCompleteMutant ==
    /\ op = NoOp /\ screen.verifying # NoLink
    /\ op' = [NoOp EXCEPT !.does = "signIn", !.email = screen.target,
                          !.link = screen.verifying, !.early = ~restored]
    /\ UNCHANGED <<session, restored, serverVars, pending, screen, restarts, guest, left>>

\* An anonymous account is upgraded; otherwise the user signs in, as happens
\* too while the provider has not restored an anonymous session.
BeginComplete ==
    /\ op = NoOp /\ screen.verifying # NoLink
    /\ op' = [does |-> IF CurrentUser.anonymous THEN "upgrade" ELSE "signIn",
              email |-> screen.target, link |-> screen.verifying,
              uid |-> IF CurrentUser.anonymous THEN CurrentUser.uid ELSE NoUid,
              early |-> ~restored]
    /\ UNCHANGED <<session, restored, serverVars, pending, screen, restarts, guest, left>>

Report(said) ==
    /\ screen' = [screen EXCEPT !.verifying = NoLink, !.said = said]
    /\ op' = NoOp

Good(r) == ~links[r.link].used /\ links[r.link].email = r.email

\* A link works once: other requests by it come to nothing.
Use(l) ==
    /\ links' = [links EXCEPT ![l].used = TRUE]
    /\ adrift' = {r \in adrift : r.link # l}

\* The server gives an account without an address this one.
LinkAccount(r) ==
    /\ r.does = "upgrade" /\ Good(r) /\ owner[r.email] = NoUid /\ ~Owned(r.uid)
    /\ owner' = [owner EXCEPT ![r.email] = r.uid]
    /\ Use(r.link)
    /\ UNCHANGED uids

\* The server finds the account of the address, or makes one.
EnterAccount(r) ==
    /\ r.does = "signIn" /\ Good(r)
    /\ \/ owner[r.email] # NoUid /\ UNCHANGED <<owner, uids>>
       \/ /\ owner[r.email] = NoUid /\ uids < MaxUid /\ uids' = uids + 1
          /\ owner' = [owner EXCEPT ![r.email] = uids']
    /\ Use(r.link)

\* The request is served, its answer is on its way.
ServeCompletion ==
    /\ LinkAccount(op) \/ EnterAccount(op)
    /\ op' = [op EXCEPT !.does = "served", !.uid = owner'[op.email]]
    /\ UNCHANGED <<session, restored, pending, screen, restarts, guest, left>>

\* A request that was given up is served all the same.
ServeLate(r) ==
    /\ LinkAccount(r) \/ EnterAccount(r)
    /\ UNCHANGED <<session, restored, pending, screen, op, restarts, guest, left>>

\* The address has another account already; the link may be used up by it.
RefuseUpgrade ==
    /\ op.does = "upgrade" /\ Good(op) /\ owner[op.email] # NoUid /\ ~Owned(op.uid)
    /\ Report("exists")
    /\ Use(op.link) \/ UNCHANGED <<links, adrift>>
    /\ UNCHANGED <<session, restored, owner, uids, pending, restarts, guest, left>>

\* The request that the server has not answered and may still serve; when it was
\* begun matters no more.
Unserved ==
    IF op.does \in {"upgrade", "signIn"} /\ Good(op) THEN {[op EXCEPT !.early = FALSE]} ELSE {}

\* The link is no good, the account has an address already, or the connection
\* fails: before the server has served the request or after it, when what it
\* did stands and the device does not know.
FailComplete ==
    /\ op.does \in {"upgrade", "signIn", "served"}
    /\ Report("failed")
    /\ adrift' = adrift \cup Unserved
    /\ session' \in {session, Reloaded}
    /\ UNCHANGED <<restored, owner, uids, links, pending, restarts, guest, left>>

\* The answer arrives, and the provider makes the account the session's, once
\* it has restored the one from before.
ReceiveCompletion ==
    /\ op.does = "served" /\ restored
    /\ session' = [uid |-> op.uid, anonymous |-> FALSE]
    /\ op' = [op EXCEPT !.does = "done"]
    /\ left' = IF session.anonymous /\ session.uid # op.uid /\ op.early THEN "early" ELSE left
    /\ UNCHANGED <<restored, serverVars, pending, screen, restarts, guest>>

\* The kept address is dropped, if the device's storage works, and the screen
\* leaves for home or the profile.
Complete ==
    /\ op.does = "done"
    /\ pending' \in {NoEmail, pending}
    /\ screen' = [Closed EXCEPT !.said = "done", !.target = op.email]
    /\ op' = NoOp
    /\ UNCHANGED <<session, restored, serverVars, restarts, guest, left>>

\* The anonymous account is given up for the one the address has; the screen
\* goes to the login whether or not the sign-out succeeds.
SwitchToExistingAccount ==
    /\ op = NoOp /\ screen.open /\ screen.said = "exists" /\ screen.verifying = NoLink
    /\ screen' = Closed
    /\ \/ session' = SignedOut /\ left' = IF session.anonymous THEN "chosen" ELSE left
       \/ UNCHANGED <<session, left>>
    /\ UNCHANGED <<restored, serverVars, pending, op, restarts, guest>>

\* The provider restores the session, and reads the account anew if it can.
Restore ==
    /\ ~restored /\ restored' = TRUE
    /\ session' \in {session, Reloaded}
    /\ UNCHANGED <<serverVars, pending, screen, op, restarts, guest, left>>

\* The process ends and starts again; opening a link starts it too.
Restart ==
    /\ restarts < MaxRestarts
    /\ restarts' = restarts + 1
    /\ restored' = FALSE /\ screen' = Closed /\ op' = NoOp
    /\ adrift' = adrift \cup Unserved
    /\ UNCHANGED <<session, owner, uids, links, pending, guest, left>>

Handle ==
    \/ LinkSent \/ BeginComplete \/ ServeCompletion \/ RefuseUpgrade \/ FailComplete
    \/ ReceiveCompletion \/ Complete \/ Restore

Next ==
    \/ Handle \/ LoadPendingEmail \/ AutoVerify \/ Expire \/ Leave \/ Restart
    \/ \E e \in Email : SendLink(e) \/ EnterEmail(e)
    \/ \E l \in 1..MaxLinks : OpenLink(l) \/ PasteLink(l)
    \/ \E r \in adrift : ServeLate(r)
    \/ SwitchToExistingAccount

Spec == Init /\ [][Next]_vars

(***************************************************************************)
(* Properties.                                                             *)
(***************************************************************************)
\* After a completed sign-in the session is that of the account that owns the
\* address, whatever was served of earlier attempts whose answers were lost.
SignedInAsOwner ==
    screen.said = "done" => session.uid = owner[screen.target] /\ ~session.anonymous

\* The user is told of a collision, and offered to give the anonymous account
\* up, only if the address has another account to sign in to, and not because
\* an upgrade whose answer was lost gave it to this very one.
CollisionIsReal ==
    screen.said = "exists" => owner[screen.target] \notin {NoUid, session.uid}

\* The anonymous account is the session's or can be signed in to by an address
\* that owns it, through lost answers, late requests and restarts; unless the
\* user gave it up, or a link was handled before the session was restored.
Attached == session.uid = guest \/ Owned(guest)
NothingLeftBehind == guest # NoUid => Attached \/ left # "no"

\* "Your shipments, trips, and bookings stay attached to your account": the
\* same without an exception for links that start the application.
StaysAttached == guest # NoUid => Attached \/ left = "chosen"

\* The screen asks for an address only if none is kept ("You will return here
\* and be automatically signed in").
AsksOnlyIfUnknown ==
    [][screen'.said = "noEmail" /\ screen.said # "noEmail" => pending = NoEmail]_vars
=============================================================================
