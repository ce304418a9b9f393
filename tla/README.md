# Karri in TLA+

Karri lets senders publish shipments and travelers publish trips; a traveler
carries a sender's parcel along a route both have published. The program is a
React Native client (`src/apps/mobile`) over Firebase: Cloud Functions
(`src/backend/firebase/functions`) that run the privileged operations as
Firestore transactions and react to changes of documents, security rules
(`src/backend/firebase/firestore.rules`) that decide what clients may write
themselves, and command line tools for operators (`src/backend/firebase/admin`).

This directory specifies the parts with a protocol: bookings from the request to
the completion, what operators may stop, the notifications and pushes that tell
of them, and what clients keep across awaits, lost answers, restarts and changes
of user. The modules are translated from the source, checked with TLC on small
instances, and all but one of the safety properties that TLC checks are proved
with TLAPS, under the assumptions that section 7 names, for any number of
shipments, trips, bookings, users, operators, workers and devices.

Paths below are relative to the repository; file names without a directory are
unique in it.

## 1. Inventory of the system

Status: **M** modelled, **P** partly modelled (section 9 says what is left out).

| Component | State it keeps | Operations | Interacts with | What is hard | What makes it correct | |
|---|---|---|---|---|---|---|
| Listings (`shipments`, `trips`; `firestore.rules`) | status, weight, corridor, content version, the claim of a shipment; capacity ledger of a trip | create, owner edits, change of status | bookings read it to decide and write claim and ledger | edits between a request and its acceptance | an agreed shipment does not change; an owner cannot change the ledger | P |
| Safety holds and reviews (`AdministrativeHoldService`, `ShipmentSafetyReviewService`, `SafetyEnforcementService`, `AuditLogService`) | holds, reviews, audit log | place, release, submit a review | bookings and pickups require clearance | operators racing; calls replayed | one hold and one final decision at a time; the log tells the state | M |
| Handoff codes (`HandoffCoordinationService`) | secret record and participants' agreement, per code | create, issue or regenerate, verify | created by the acceptance, required by custody | outcome stored twice; attempts counted and reset | custody only on a verified code; attempts within the allowance | M |
| Bookings (`BookingCreationService`, `BookingAcceptanceService`, `BookingCancellationService`) | booking, request, agreement snapshot, custody events, operation ids | request, accept, cancel, decline; direct write by old clients | listings, safety, handoff | races for a shipment and for capacity; retries; rounding | single carrier, exact ledger, locked agreement | M |
| Custody (`CustodyTransitionService`) | booking status, custody events | pickup, delivery, completion, travel events | handoff outcomes, safety | out-of-order events | events and status tell one story | M |
| Callable functions and triggers (`index.ts`) | none | dispatch, permission guard, rate limits, triggers | all of the above | any caller, any order, replays, redelivered triggers | refused and replayed calls write nothing | P |
| Client booking state machine (`bookingStateMachine.ts`) | none | table of transitions | used by the client's services | must agree with the server | the server follows it | M |
| Legacy reservation reconciler (`LegacyReservationReconciler`) | claim and ledger of bookings older than the ledger | three readings, plan, batch writes | listings, bookings | not a transaction; a crash between batches | a complete run leaves exact ledgers and claims, and a rerun nothing to do | M |
| Lifecycle notifications and push delivery (`BookingAcceptedNotificationService`, `ExpoPushProvider`) | notification and delivery-effect documents, leases, attempts | create from a trigger, claim, send, store the result, retry, reconcile | triggered by bookings, reads push tokens | at-least-once triggers, leases, crashes, late answers | bounded attempts, no repetition without a loss, everything settled | M |
| Push token registration (`PushTokenPersistenceService`, `PushRegistrationService`) | installations and versions; the client's queue | register, unregister, deactivate | push delivery, sign-out | stale deactivation against a new registration | the newest registration wins | M |
| Reputation (`ReviewService`, `ReputationService`) | reviews; a user's aggregate | submit, recalculate on each event | triggered by reviews and bookings | recalculations overwrite each other | one review per side, counted in the end | M |
| Legacy custody and safety snapshot audits | none | read-only reports | read bookings, events, snapshots | readings at different times | what the server wrote raises no alarm | M |
| Client handoff agreement (`HandoffService`) | the agreement document, the card | propose, confirm, contacts, notes | shares the document with the handoff codes | whole documents written back | outcomes and the other's parts are not taken back | M |
| Client pending operations and callable transport | operation ids on the device; calls under way | create, resume, check, clear; one retry of refused credentials | listings, booking requests | lost answers, late calls, restarts | one intention, one listing or booking | M |
| Sign-in and sign-out (`AuthSessionService`, `auth.ts`, `verify.tsx`) | session, links, kept address, the queue of operations | email link, upgrade of an anonymous account, sign-out | push registration | bounded wait against a late clean-up; start-up order | the right account; a confirmed clean-up is clean | M |
| Identity verification (`IdentityVerificationService`) | the record, its history, queued writes | draft, documents, submit, review, revoke, expire | trust, rules | several devices, offline writes | what is reviewed is what was submitted | M |
| Matching, trust, routes, policies | scores; the cards' queries | score, rank, filter; trust | lists shown to users | boundaries; overlapping queries | better never scores less; what is shown passed the filters shown | P |
| Operator command line, admin claims, console, live smoke | custom claims, tokens; the protected layout | provision, remove; refresh; smoke and clean-up | permission guard, rules | partial failures, identity changing under a refresh | old roles are revoked; the console opens on a confirmed role; nothing is left silently | M |
| Notifications list, preferences, offline status | preferences, pending writes | load, save; track, sync | Firestore client | overlapping answers, users changing | own data stored; the status tells what waits | P |
| Profiles, timelines, remote configuration | profile document, the form | load, edit, save | trust scores of the server | the form outlives its user | own profile, the server's trust stays | P |
| User interface | screens' state across awaits | posting, requesting, recommendations, verify, console | all client services | presses during awaits | as its services | P |

Behaviours that are hard in this code, with the line at which each bites, are the
`hazards` of `PROJECT.json`; each names the properties that would catch it, or
why no property does.

## 2. Plan

Done: the booking core (`Listings`, `SafetyState`, `Handoff`, `Bookings`,
`Custody`, `BookingLifecycle`) with its abstract specification `ParcelPromise`;
push delivery over registrations, with fairness; the reconciler and the audits
over the booking core; the participants' side (listings, calls, agreement,
notifications, reviews, matching) and the accounts' side (sessions, profiles,
preferences, verification, offline status, roles, console, smoke). Of each of
them the safety properties that the runs check are proved, as section 7 lists.

Left, in order of importance:

1. The recipient's side of `PushDelivery` with a batch limit that bites, and two
   registrations of one recipient with the same token.
2. The reconciler while owners edit their shipments. `UpgradeIsKept` is proved
   for owners who open and close listings; which of the stronger edits keep a
   weaker statement is open (section 7).
3. The list of in-app notifications (`markRead`) and the events the client
   publishes to itself.

## 3. Modules and how they correspond to the code

```
Listings <- SafetyState ---+
                           +-- Bookings <- Custody <- BookingLifecycle <- MCBookingLifecycle
Handoff -------------------+                          ^ ^ ^    (implements ParcelPromise)
  ^                                                   | | |
HandoffAgreement                 LegacyReservations --+ | |
                                       LegacyAudits ----+ |
                 BookingLifecycleProofs, StatusProofs ----+
StatusProofs <- PromiseProofs,
                LegacyProofs (with LegacyReservations, LegacyAudits)
SafetyState <- MCSafetyState, SafetyProofs
PushRegistrations <- PushDelivery <- MCPushDelivery, PushProofs
RolePermissions <- RoleClaims, AdminConsole
Matching <- PairEvidence, MatchDiscovery
Participants = ListingSubmission, MatchDiscovery, PairEvidence, BookingCalls,
               HandoffAgreement, LifecycleEvents, Reputation
             <- MCParticipants (values), ParticipantProofs
Accounts     = PushSession, EmailSignIn, IdentityVerification, OfflineStatus,
               NotificationPreferences, ProfileSetup, RoleClaims, AdminConsole, SmokeRun
             <- AccountProofs (values in accounts.cfg)
MCLegacy     = LegacyReservations, LegacyAudits, one tool at a time
MCProgress   = those of them in which somebody waits, with their fairness
```

**One transaction, one action.** Each callable runs one Firestore transaction,
which is serializable: everything it reads and writes happens at one point. An
action of the booking core is such a transaction, with all its writes: the
acceptance changes booking, request, shipment, trip, handoff records, custody
events and snapshot in one step. A call that throws, and a replay that finds its
work done (`replayed: true`), write nothing and are stuttering steps.

**One await, one step.** Where the code does not use a transaction, every
`await` ends a step: a query of the recalculation, a document read by a service,
a claim and the storing of its result, a reading of the device's storage. Between
two of them anything else may happen, including the end of the process where the
program can be restarted. In the client, the code between two awaits runs
without interruption and is one action.

**Components without common state.** `Participants`, `Accounts`, `MCProgress`
and `MCLegacy` each contain several components that share no
variable. A step of one of them neither enables nor disables a step of another,
and each property is about one of them, so that interleaving them would only
multiply states: a behaviour of these modules has one component move, chosen in
the initial state (`moving`, `tool`), and every other component stays where it
starts. What components do have in common (the agreement document of codes and
clients, the bookings under the reconciler, roles under the console) is composed
by `EXTENDS` in the component's own module.

| Module | Its state | Code |
|---|---|---|
| `Listings` | `shipment`, `trip` | the two collections; `Frozen`, `EditShipment`, `SetShipmentStatus`, `EditTrip` are the rules' update conditions |
| `SafetyState` | `hold`, `review`, `audit` | `administrativeHolds`, `shipmentSafetyReviews`, `auditLogs`; ids derived from the idempotency key are `HoldId` and `ReviewId` |
| `Handoff` | `handoffs`, `secrets`, `agreement` | `bookingHandoffSecrets` and the verification fields of the handoff agreement |
| `Bookings` | `booking`, `request`, `snapshot`, `custody` | `bookings`, `bookingRequests`, `bookingAgreementSnapshots`, `custodyEvents` |
| `Custody`, `BookingLifecycle` | - | `CustodyTransitionService`; the callables of `index.ts`, the owners and the operators, in any order |
| `ParcelPromise` | offer, stage, carrier, terms, proofs of a parcel | nothing: it is the abstract specification; the end of `BookingLifecycle` maps the collections onto it |
| `LegacyReservations` | what was read, the plan, the conflicts | `LegacyReservationReconciler`, started by `reconcileLegacyReservations.ts` |
| `LegacyAudits` | what was read, the two reports | `LegacyCustodyReconciler`, `SafetySnapshotReconciler` |
| `PushRegistrations` | `registration` | `pushTokenRegistrations` and `PushTokenPersistenceService` |
| `PushDelivery` | triggers owed, notifications, effects, invocations and their unstored writes | `BookingAcceptedNotificationService`, `ExpoPushProvider`, the schedule of `index.ts` |
| `LifecycleEvents` | a booking's history, triggers, notifications, a scan | `lifecycleEventFor`, the handlers of booking writes, `reconcileBookingLifecycleNotifications` |
| `Reputation` | bookings' outcome, reviews, forms, records, recalculations under way | `ReviewService`, `FirebaseReviewRepository`, the triggers, `ReputationService` |
| `HandoffAgreement` | stored document, cards, saves under way | `HandoffService`, `FirebaseHandoffRepository`, `HandoffCoordinationCard`, the rules of `handoffAgreements`, over `Handoff` |
| `ListingSubmission` | form, operation id and its copy on the device, attempts, checks, write queue, listings | `send.tsx`, `travel.tsx`, `ShipmentService`, `TripService`, their repositories, `PendingOperationStorage` |
| `BookingCalls` | bookings, the home screen's operation ids, calls under way and strayed, events published | `home.tsx`, `BookingDetailCard`, `BookingService`, the gateways, `privilegedCallableTransport` |
| `PushSession` | session, the two queues of operations, registrations, the card | `AuthSessionService`, `PushRegistrationService`, `usePushNotificationRegistration` |
| `EmailSignIn` | session, accounts, links, kept address, the verify screen, the request under way and those given up | `auth.ts`, `pendingEmailStorage`, `login.tsx`, `verify.tsx` |
| `IdentityVerification` | the record, writes queued on each device | `IdentityVerificationService`, its state machine, repository and rules |
| `OfflineStatus` | network, tracked writes, status, a sync | `FirebaseOfflineStatusGateway` |
| `NotificationPreferences` | requests, draft, stored preferences | the preferences card, its hook, service and repository |
| `ProfileSetup` | forms, saves, profiles | `profile-setup.tsx`, `ProfileService`, its repository and rules |
| `RolePermissions`, `RoleClaims` | claims, tokens, commands | `RoleProvisioningService`, `AdminConsoleClaimsService`, `PermissionGuard` and the two other tables |
| `AdminConsole` | claims, session, page, refreshes | the `(admin)` layout, `useAdminLayoutController`, `admin-login`, `access-denied` |
| `SmokeRun` | what exists, what the tool knows, its report | `PlaceAdministrativeHoldSmoke` |
| `Matching`, `PairEvidence` | a pair and a traveler's record that change | `scoringFactors`, `MatchScore`, `MatchFilter`, `TrustCalculator`, `MatchingService.evaluate`, `TrustService` |
| `MatchDiscovery` | listings, queries, the recommendations shown | `MatchingService.rankMatches`, `RecommendedMatchesSection`, the effects of `send.tsx` |

Abstractions of the booking core, and what they keep:

* **Booking ids.** The code builds an id from shipment, trip and, for a repeated
  attempt or an operation id, a suffix. A booking is `<<shipment, trip, tag>>`:
  tag 1 is the plain id, tag n the n-th attempt, an operation id is its own tag.
* **Kilograms** are counted in units of five grams. The ledger rounds to
  hundredths of a kilogram (`Math.round(kg * 100) / 100`), so ten grams are two
  units, `RoundKg` rounds to an even number, and an odd number is half-way. This
  is the coarsest grain at which rounding can be seen.
* **Codes.** Whether a submitted code matches is a choice; that a hash is stored,
  used, exhausted or cleared is kept.
* **Corridors** stand for origin and destination; **content versions** for the
  fields whose edit raises `packageContentVersion`; listing status `"closed"` for
  every status that is not active.
* **Snapshots** keep the content version, the weight and the corridor.
* **The inspection declaration** of a pickup is validated before anything is
  written; it can only refuse the call.
* **Write-only data.** Fields and documents that operations write and none reads
  (`statusHistory`, timestamps, messages, `travelerCustodyAcceptances`) are left
  out.
* **Withdrawals by the client.** The rules also let a client cancel its pending
  booking directly. It has the effect of the service's withdrawal and is the same
  action.

Of the others: a push delivery is to one recipient, time is whether a lease has
ended; a reputation record is the set of what it counted; what is entered in a
form, a card or a part of an agreement is one value, with whether it is valid and
whether it has spaces around it where that matters; a trust score, rating or
factor is counted in hundredths, which is how the code rounds them.

## 4. Runs

All passing runs explore the whole state space of their instance. Deadlock is not
checked: the attempts, versions, keys and presses of an instance are bounded, so
that an instance really stops when they are used up, and users may always stop.

| Run | Specification | Properties | Distinct states | Question |
|---|---|---|---|---|
| `capacity` | `ReservationSpec` of `MCBookingLifecycle` | `LedgerExact`, `AcceptanceFits`, `OneBookingPerOperation` | 66,861 | do bookings competing for a trip whose owner keeps editing it overload it, leave its ledger wrong, or book twice? |
| `lifecycle` | `Spec` | `TypeOK`, `RequestFollowsBooking`, `CustodyFollowsStatus`, `SingleActiveCarrier`, `AgreementLocked`, `KeepsPromise` | 462,432 | do booking, request, claim, snapshot and custody records tell one story, the promised one? |
| `custody` | `Spec` | `VerifiedHandoffs`, `AcceptedCanBeCancelled`, `OneOpenBooking`, `UnsafeNotCarried` | 259,488 | does custody move only on verified codes and while the shipment is safe, and can an accepted booking always be left? |
| `safety` | `SafetySpec` | `OneActiveHold`, `AuditTellsState`, `OneFinalDecision` | 496,125 | can racing operators leave two holds, two decisions, or a log that lies? |
| `push` | `FairSpec` of `PushDelivery` | `RepeatsNeedLoss`, `OnlyRejectedEnds`, `SendsWithinAttempts`, `AcceptedStands`, `DeliveriesSettle` | 42,429 | can workers that overlap and die send twice, too often, or never finish? |
| `legacy` | `MCSpec` of `MCLegacy` | `UpgradeKept`, `AuditsClean` | 861,910 | does a reconciler that dies on the way leave exact ledgers, and do audits accuse sound bookings? |
| `participants` | `Spec` of `Participants` | `ListedOnce`, `RequestedOnce`, `RecommendedAsFiltered`, `BetterScoresNoLess`, `AgreementKept`, `ReconciledAll`, `ReviewedOnce` | 983,267 | is what senders and travelers do with their devices done once, and shown as it is? |
| `progress` | `FairSpec` of `MCProgress` | `WaitsEnd`, `ReviewsGetCounted` | 69,121 | does what a user waits for come to an end, and is a review counted? |
| `accounts` | `Spec` of `Accounts` | `SignedOutClean`, `AccountKept`, `ReviewedAsSubmitted`, `SyncTold`, `OwnDataStored`, `OldRolesRevoked`, `ConsoleAfterFreshRole`, `SmokeLeavesNothing` | 1,756,095 | do sessions, records and roles belong to the right account although answers are lost or come late? |
| `halfway` | `Spec` | `ExactRestoration` (violated) | - | does a cancellation restore a half-way weight? |
| `completion` | `Spec` | `CompletionRecorded` (violated) | - | does the completion record a custody event? |
| `coldstart` | `Spec` of `Accounts` | `AccountStays` (violated) | - | does an anonymous account survive a link that starts the application? |

`ReservationSpec` leaves out codes, custody and operators, which do not touch
claim, ledger or snapshot: with bookings going no further than the acceptance,
TLC can afford more shipments, weights and edits. Its three properties are proved
for the whole of `Spec` (section 7).

The properties of `participants`, `accounts` and `legacy` are conjunctions: each
gathers what one component is checked for, its type invariant included, under the
condition that this component is the one that moves.

**Bounds and why they are enough.**

* `capacity`: three shipments of 10 or 20 g for a trip of 20 or 30 g, so any two
  may fit, all three may or may not, and the trip may be exactly full. Two
  capacities let the owner advertise more or less than is left; a trip starts
  with or without a declared total and a reservation of zero, as the rules allow,
  so the ledger is absent, implied or explicit. One operation id may be repeated
  for each of the three shipments. The shipments are symmetric: they have one
  owner and no property names one of them.
* `lifecycle`: two trips of two travelers and clients that write requests
  directly, so two bookings of one shipment are pending at once and run through
  every status, with a hold, a review, and an owner who edits the shipment (two
  content versions) or closes it. `KeepsPromise` is checked on the same states.
* `custody`: two attempts for one shipment and trip, so a booking is cancelled and
  made again; two attempts at a code; a hold, and two reviews so that an approval
  can follow a request for changes; an owner who edits the trip, which could
  block a cancellation.
* `safety`: two operators and two keys each for holds and reviews; two content
  versions.
* `push`: one event and one device, a dispatcher and two retry runs (three
  workers can hold, take over and finish one claim), two tokens and two versions
  of the registration, the three attempts of the code, two crashes. A batch of
  several effects is one effect after another for each of them; `Limit`, which
  bounds how many one run takes, never bites here.
* `legacy`: two shipments and two trips with every combination of bookings that
  earlier clients could leave, batches of one write, so that a run can die
  between any two writes, and `Quiesced`: users wait for the reconciler, as
  `LegacyReservationReconciler.ts` needs (section 6 says what happens otherwise).
  There is one attempt for each shipment and trip. The audits read one shipment: the custody audit while its
  bookings for two trips go on, the safety audit while its booking for one trip is
  held and reviewed.
* `participants`: two texts and one that is too long, three starts, four operation
  ids and a restart for a listing, with the operation id kept by the screen (Send)
  or by the service (Travel), chosen in the initial state; two shipments, two trips and two queries that overlap
  while filters change; every pair of routes, windows, dates, capacities and
  filters at which a score changes, chosen at the edges of the windows and at the
  longest gap; three operation ids, two trips, a press and a restart for
  bookings; one save per participant on one agreement; two devices of one
  reviewer.
* `accounts`: two users of one installation, sessions and a restart; two
  addresses and two links, so that a request given up may be served beside a newer
  one, and three accounts: the anonymous one, one of an address from before and one
  newly made. No action tells one address from the other (`EmailSymmetry`). Two devices, two documents and nine events of a
  verification; three writes under way; two operators with two commands; two
  users, an anonymous one and two changes of role under the console; every step
  of the smoke and its clean-up, failing or losing its answer.
* `progress`: smaller instances of the same, since the liveness check follows
  every fair behaviour. Requests for bookings are not among them (section 8). Writes, a coming and going network, a user who changes
  and retries of the console can recur for ever; what is bounded (presses,
  queries, restarts) may happen at any point of a wait.

Every property of a passing run has a mutant: a plausible bug in one definition
(`...Mutant`, next to the definition it changes) under which the same run finds
the property violated.

## 5. What the runs show

* **Claims.** Direct writes let several travelers hold a pending booking of one
  shipment, and each may accept. Only one acceptance goes through, and only the
  cancellation of that booking frees the shipment (`SingleActiveCarrier`).
* **Agreements.** The corridor is not compared again at the acceptance, so a
  shipment may have been rerouted since the request; what is agreed is the
  shipment at the acceptance, and it is frozen from then on (`AgreementLocked`).
* **The promise.** Seen from the sender, all this is a parcel that one carrier at
  a time takes on the terms offered, that changes hands on a verified code, and
  that nobody takes or collects while it is barred (`KeepsPromise`).
* **Capacity.** With weights in whole hundredths the ledger is exact, and every
  acceptance fits the trip, whatever the owner advertised in between. An owner
  may advertise any amount at any time: `available` decides what may be
  requested, the total and the ledger decide what may be accepted.
* **Custody.** A delivery code may be issued before the pickup but not verified;
  regenerating a code never undoes a verification.
* **Safety.** A hold or a rejection that arrives after the request, or after the
  pickup code was verified, still stops the acceptance and the pickup. A parcel
  already under way is delivered: the delivery does not ask for clearance.
* **Cancellation.** No sequence of edits or operators' actions leaves an accepted
  booking that cannot be cancelled while the trip has capacity
  (`AcceptedCanBeCancelled`).
* **Pushes.** The lease makes a second worker wait for the first, and a worker
  that died is succeeded: every effect is accepted, refused or given up in the
  end (`DeliveriesSettle`), and what is sent twice was not known to have arrived
  (`RepeatsNeedLoss`). A refusal of an old token never ends a newer registration.
* **Reconciler.** Killed between any two batches and started again, it ends with
  exact ledgers, and a later run plans nothing but what the first reported.
* **Listings and requests.** The operation id finds the first attempt again
  through lost answers, late calls, edits and restarts, on the Send screen as on
  the Travel screen, which leaves it to the service.
* **Agreement.** Both participants write the whole document back, and still the
  outcome of the codes stays the server's: the rules compare it with what is
  stored. What can be lost is a participant's own earlier part, or a proposal
  (section 6).
* **Sessions.** A sign-out ends although its clean-up hangs, and a sign-in that
  was asked for meanwhile waits and is not undone.
* **Email links.** The answer to a completed link may be lost after the server gave
  the address to the anonymous account, or made an account, and a request that the
  device gave up may be served later. Still a completed sign-in is to the account
  that owns the address, the screen reports a collision only with another account,
  and an anonymous account stays the session's or gets an address (`AccountKept`),
  unless its user gives it up, or the link was handled before the session was
  restored (section 6).
* **Preferences and profiles.** What is stored as a user's preferences was shown as
  theirs. Of profiles that is not so (section 6): `OwnDataStored` says only that the
  form edits the profile of the user signed in, that the server's trust stays, and
  that Home follows a stored profile.
* **Console.** A refresh answered after the user has changed opens nothing and
  leaves no spinner.

## 6. Disagreements between the code and its documents

Three are shown by a run:

1. `ExactRestoration`: `BookingCancellationService.ts:236` promises "exact
   capacity restoration". The acceptance rounds when it adds, the cancellation
   when it subtracts; for a weight of 0.005 kg the acceptance adds 0.01 and the
   cancellation computes `round(0.01 - 0.005) = 0.01`. The trip keeps 0.01 kg
   reserved with no booking. The client and the rules accept any positive weight.
   Of whole hundredths the comment is true (`RestorationIsExact`).
2. `CompletionRecorded`: `chain-of-custody.md:19` and `custody-model.md:15` say
   that the completion appends an event; the service writes none, as its own
   comment says.
3. `AccountStays`: `login.tsx:62` promises "Your shipments, trips, and bookings stay
   attached to your account." `completeEmailLinkSignIn` decides between upgrade and
   sign-in by `auth.currentUser` (`auth.ts:309`) and does not wait until the provider
   has restored the session. A link that starts the application is handled first,
   finds nobody, and signs in to the address's account or to a new one; the
   anonymous account, with what was published from it, is left behind without an
   address. Its uid is kept with the pending address (`auth.ts:253`) and compared
   with nothing. Of links handled later the promise is kept (`AccountKept`, which
   remembers in `left` why an account was given up).

The others were met while modelling. The statement each of them breaks is a
definition of the module named. To see it violated, add it, under the condition
that its component moves, to the module that has an instance of that module
(`Participants`, `Accounts`, `MCLegacy`), with the values of constants that are
given, and to the run's `.cfg`; `DocumentedTransitions` goes to that of `lifecycle`
as it is.

| Statement | What the code does |
|---|---|
| `BookingLifecycle!DocumentedTransitions` | accepted bookings are cancelled, by the server (`BookingCancellationService.ts:196`) and in the client's table (`bookingStateMachine.ts:10`); `booking-state-machine.md:13` draws `InTransit` as the only way out of `Accepted` |
| `PushDelivery!OneProviderAttempt` | an effect is claimed up to three times; `notification-delivery.md:245` says "deterministic device effects permit at most one provider attempt" and knows no retries |
| `PushDelivery!ActiveLeaseRespected` | `retryDelivery` tests the exhausted allowance before the lease (`BookingAcceptedNotificationService.ts:633`): a run with an older list of candidates gives an effect up while another run's third attempt is being sent; `lifecycleNotifications.test.ts:992` says a worker "respects active claims", which holds of the other attempts (`ClaimsAreRespected`) |
| `BookingLifecycle!AcceptanceFits` under `LegacyReservations` | with `Quiesced = FALSE`: an acceptance committed between the reconciler's scan and its write loses its reservation, and the next acceptance overbooks the trip (`LegacyReservationReconciler.ts:217`) |
| `LegacyAudits!EventIdsMatch` | the audit splits event ids at every `__` (`LegacyCustodyReconciler.ts:58`), which booking ids contain: every event the server records is a mismatch for it |
| `Reputation!ReputationAccurate` | of two overlapping recalculations the one that read first may write last (`ReputationService.ts:86`), and a counted review is lost until the next event; without an overlap the records are accurate (`RecordsAreAccurate`) |
| `HandoffAgreement!ConfirmedByOther` | `confirmAgreement` confirms whatever it reads (`HandoffService.ts:145`): a participant may confirm their own proposal |
| `HandoffAgreement!ConfirmedWasSeen` | a save from an older reading erases a proposal made meanwhile (`HandoffService.ts:63`), and the other's confirmation confirms what nobody proposed |
| `ListingSubmission!AbsentMeansAbsent` | an attempt may be begun while a check of the same operation runs (`send.tsx:1145`): the check forgets it and reports absence, then it is listed |
| `ListingSubmission!InvalidMeansUnlisted` | a retry compares the stored, trimmed text with the text as entered (`ShipmentService.ts:252`): a committed attempt is reported as invalid |
| `ListingSubmission!NothingFoundGoesOn` | with `MissingReadable = FALSE`: the read rule looks into a document that is not there (`firestore.rules:843`), so the lookup before the write is denied to its owner |
| `ListingSubmission!AsEntered` | with `Persistent = TRUE`: on the web the second lookup is answered from the queue of writes (`FirebaseShipmentRepository.ts:28`) and success is reported before the server has the listing |
| `ListingSubmission!QuietCheckIsRight` | with `StorageFails = TRUE` (Travel): an operation id that could not be stored makes the check report the absence of a listed trip (`TripService.ts:47`) |
| `ListingSubmission!OneListingPerStart` | with `SlowStorage = TRUE` (Send): an attempt begun before the kept operation id has been read repeats a committed one (`send.tsx:693`) |
| `BookingCalls!PublishedOnce` | the event of a step is made from a second reading of the booking (`BookingService.ts:606`): the later step's event is published twice and the earlier one's never |
| `BookingCalls!RequestedIsOpen` | a repeated operation id is answered with its booking whatever its status (`home.tsx:205`): a declined one is reported as requested |
| `PushSession!LateWorkFenced` | the generation is compared before and after `tokens.save`, not by the request (`PushRegistrationService.ts:142`): one on its way when the sign-out timed out is served; `push-notification-testing.md:17` says otherwise |
| `EmailSignIn!AsksOnlyIfUnknown` | the link is refused for want of an address while the kept one is being read (`verify.tsx:108`) |
| `IdentityVerification!VerifiedCanEnd` | with `MaxEvents = 12`, the code's, or 8 in place of 9 to save states: a full history admits no revocation or expiry (`IdentityVerificationService.ts:312`); `identity-verification.md:28` permits both |
| `OfflineStatus!FailureShown` | a sync that ends after a write has failed clears the failure (`FirebaseOfflineStatusGateway.ts:120`) |
| `RoleClaims!RemovalRevokes` | a removal whose revocation failed is a no-op when repeated (`RoleProvisioningService.ts:48`); `admin/README.md:133` says it revokes immediately |
| `RoleClaims!BootstrapsTheFirst` | `bootstrap` makes a second super_admin (`RoleProvisioningService.ts:83`); `admin/README.md:76` calls it one-time |
| `PairEvidence!OthersCancellationsUnseen` | another user's cancellations cost trust points (`TrustService.ts:44`); `trust-score.md:32` says they are not read |
| `MatchDiscovery!LiveIsNotCached` | the connection is noted before the readings (`MatchingService.ts:69`): cached listings are labelled live |
| `ProfileSetup!OwnDetailsStored` | the form outlives its user when the next one has no profile (`profile-setup.tsx:77`) and stores the last one's details with one press; `ProfileService.ts:59` saves them as the profile of the user signed in |

## 7. Proofs

All proofs hold for any values of the constants that satisfy the named
assumptions: `ListingAssumption`, `HandoffAssumption`, `BookingAssumption`
(booking ids are the triples, and finitely many), `LifecycleAssumption`,
`RegistrationAssumption`, `DeliveryAssumption`, `LegacyAssumption`, and those that
`PartsAssumption` of `Participants` and of `Accounts` gathers from their
components. TLC evaluates them in the runs of the modules that declare them. They
type the constants (`None` is no snapshot, the taps are finitely many, there is at
least one attempt), and some state what the code validates: a trip does not
arrive before it departs (`TripService.ts:90`), and a filter has its bounds
(`MatchFilter.ts:52`). What a theorem supposes beyond them is in the table, and why
the code justifies it below.

| Theorem | States | Supposes | Module |
|---|---|---|---|
| `TypeCorrect` | `Spec => []TypeOK` | | `BookingLifecycleProofs` |
| `SingleCarrier` | `Spec => []SingleActiveCarrier` | | `BookingLifecycleProofs` |
| `AgreementStands` | `Spec => []AgreementLocked` | | `BookingLifecycleProofs` |
| `LedgerIsExact` | `Spec => []LedgerExact` | `WholeHundredths` | `BookingLifecycleProofs` |
| `AcceptancesFit` | `Spec => AcceptanceFits` | `WholeHundredths` | `BookingLifecycleProofs` |
| `RestorationIsExact` | `Spec => []ExactRestoration` | `WholeHundredths` | `BookingLifecycleProofs` |
| `RequestFollows` | `Spec => []RequestFollowsBooking` | | `StatusProofs` |
| `CustodyFollows` | `Spec => []CustodyFollowsStatus` | | `StatusProofs` |
| `MachineFollowed` | `Spec => StatusFollowsMachine` | | `StatusProofs` |
| `UnsafeNeverCarried` | `Spec => UnsafeNotCarried` | | `StatusProofs` |
| `OperationBooksOnce` | `Spec => []OneBookingPerOperation` | | `StatusProofs` |
| `OneBookingOpen` | `Spec => []OneOpenBooking` | `DirectWrites = FALSE` | `StatusProofs` |
| `CancellationStaysOpen` | `Spec =>` always, each condition of `CancelAcceptedBooking` holds of an accepted booking whose trip has capacity | | `StatusProofs` |
| `BookingsAreNeighbours` | `Spec => OperatorsSpec` | | `StatusProofs` |
| `OperatorsPromiseKept` | `Spec => []` of `OneActiveHold`, `AuditTellsState`, `OneFinalDecision`, and `FinalDecisionStands` | | `StatusProofs` |
| `HandoffsVerified` | `Spec => []VerifiedHandoffs` | | `PromiseProofs` |
| `PromiseKept` | `Spec => KeepsPromise` | | `PromiseProofs` |
| `OneHold`, `AuditIsTrue`, `FinalOnce` | `SafetySpec => []` of `OneActiveHold`, `AuditTellsState`, `OneFinalDecision` | | `SafetyProofs` |
| `FinalStands` | `SafetySpec => FinalDecisionStands` | | `SafetyProofs` |
| `OwnersAreNeighbours` | `SafetySpec => OperatorsSpec` | | `SafetyProofs` |
| `DeliveryTypes`, `RejectionsEnd`, `AttemptsMadeOnce` | `Spec => []` of `DeliveryTypeOK`, `OnlyRejectedEnds`, `SendsWithinAttempts` | | `PushProofs` |
| `RepeatsAreLosses`, `AcceptancesStand` | `RepeatsNeedLoss` always, `AcceptedStands` | `LongCalls = FALSE` | `PushProofs` |
| `ClaimsAreRespected` | `Spec => ClaimsRespected`: `ActiveLeaseRespected` for all attempts but the last | `LongCalls = FALSE` | `PushProofs` |
| `AuditsAreClean` | `Auditing => []AuditsClean`, both audits at once | | `LegacyProofs` |
| `UpgradeIsKept` | `Reconciling => UpgradeKept` | `ReconcilerHypothesis` | `LegacyProofs` |
| `ReviewsAreCountedOnce` | `Spec => []ReviewedOnce` | | `ParticipantProofs` |
| `RecordsAreAccurate` | `Spec /\ []OneRecalculationAUser => []Reviews!ReputationAccurate` | | `ParticipantProofs` |
| `ReviewsEnterRecords` | `Reviews!Spec /\ CrashesEnd(e) /\ Handled(e)`: the review of `e` enters the record of its subject | | `ParticipantProofs` |
| `RequestsAreBookedOnce` | `Spec /\ []OnePressAMatch => []RequestedOnce` | | `ParticipantProofs` |
| `CallsEnd` | `Calls!Spec /\ Answered(c)`: a call of `c` that was begun ends | the platform settles each call (below) | `ParticipantProofs` |
| `RequestsAreSettled` | `Calls!Spec => []PendingIsAsked`, and with `Answered(c)` what was asked does not stay pending | the same | `ParticipantProofs` |
| `AgreementsAreKept` | `Spec => AgreementKept` | | `ParticipantProofs` |
| `OneListingOfAStart` | `Submission!Spec => []` of `OneListingPerStart` | storage works (below) | `ParticipantProofs` |
| `ListingsAreListedOnce` | `Spec => ListedOnce` | storage works, the queue of writes is lost with the application | `ParticipantProofs` |
| `ScansNotifyAll` | `Spec => []ReconciledAll` | | `ParticipantProofs` |
| `RecommendationsAreAsFiltered` | `Spec => []RecommendedAsFiltered` | | `ParticipantProofs` |
| `BetterNeverScoresLess` | `Spec => BetterScoresNoLess` | | `ParticipantProofs` |
| `OldRolesAreRevoked` | `Spec => []OldRolesRevoked` | | `AccountProofs` |
| `ConsoleFollowsRefresh` | `Spec => []ConsoleAfterFreshRole` | | `AccountProofs` |
| `SyncIsTold` | `Spec => []SyncTold` | | `AccountProofs` |
| `ReviewsFollowSubmissions` | `Spec => ReviewedAsSubmitted` | | `AccountProofs` |
| `SignOutsAreClean` | `Spec => SignedOutClean` | | `AccountProofs` |
| `TurnsEnd` | `Push!Spec /\ QueueGoesOn`: the sign-in or sign-out whose turn it is ends | | `AccountProofs` |
| `LinksKeepAccounts` | `Link!Spec => []` of `SignedInAsOwner`, `CollisionIsReal`, `NothingLeftBehind` of `EmailSignIn` | | `AccountProofs` |
| `AccountsAreKept` | `Spec => []AccountKept` | | `AccountProofs` |
| `OwnDataIsStored` | `Spec => OwnDataStored` | | `AccountProofs` |
| `SmokeLeavesNothingBehind` | `Spec => []SmokeLeavesNothing` | | `AccountProofs` |

**Types** are proved action by action; the one part with content is that failed
attempts stay within the allowance.

**Kinds of step.** Few actions touch commitments, listings or snapshots. Lemma
`StepKinds` shows that a step is an acceptance, the cancellation of an accepted
booking, an owner's edit, or `Quiet`: it commits nothing, releases nothing and
leaves listings and snapshots alone. The safety proofs go over these four. In the
same way `StepOf` says what any step does to one booking, and `PushProofs` has
nine kinds of step of effects, claims and writes.

**`CommitmentInv`** is `TypeOK`, `SingleActiveCarrier`, `AgreementLocked` and
`NotYetAgreed`. The two in the middle are not inductive by themselves. The
acceptance keeps an existing snapshot (`IF @ = None`), so `AgreementLocked` needs
that a pending booking has none: `NotYetAgreed`. And that an owner cannot edit
what is agreed follows from `SingleActiveCarrier`: a committed booking is its
shipment's claim, and a claimed shipment is frozen.

**`LedgerInv`** adds `LedgerExact` and `EvenLedger`: every amount on a trip is a
whole number of hundredths, so that rounding never changes one. The load of a
trip is the number of tokens `<<booking, unit>>` its commitments hold; adding a
booking adds a disjoint set, and the cardinality theorems give the sum. A
committed booking records what it holds (by `AgreementLocked`), so no edit
changes the load. `AcceptancesFit` follows: only an acceptance adds load
(`LoadGrows`), it takes what is reserved from the ledger, which is exact, and its
guard compares the sum with the capacity. So does `RestorationIsExact`: the load
of no commitments is zero. The premise `WholeHundredths` is needed: run `halfway`
shows the ledger drift without it, which makes the two roundings the only cause
of item 1 of section 6.

**`HandoffInv`** adds to types and `CustodyFollowsStatus` that no code of a
booking that was not accepted is verified (`UnverifiedBefore`): the acceptance
creates the codes, so a verification always belongs to the carriage under way.

**The refinement.** `BookingLifecycle` maps a shipment to a parcel: its stage is
the status of the booking that claims it, its terms that booking's snapshot, its
proofs the verified codes. `PromiseInv` is `CommitmentInv /\ HandoffInv`; under
it the claim is one committed booking, agreed on what is offered, and each step
is one step of the promise for one parcel or leaves every parcel as it is
(`Same`). An acceptance is `Take`, a cancellation after it `CallOff`; requests,
withdrawals, wrong codes and edits of trips stutter.

**`SafetyInv`** states the log exactly: a hold has one record of its placement,
and one of its release when it is released. `AuditTellsState`, which counts
records, follows with the cardinality of a singleton. What it needs of the rest of
the system is `OperatorsSpec`: the operators' actions, and steps of their
neighbours that touch neither holds nor reviews and let the count of a listing's
contents only grow. Owners alone implement it (`OwnersAreNeighbours`), and so does
the whole booking system (`BookingsAreNeighbours`), so that what is proved of the
operators' part holds in both (`OperatorsPromiseKept`).

**Pushes.** `TypeInv` says that a retry knows the generation it is for;
`Counted` numbers attempts, which keeps them apart whatever the leases do, and
gives `AttemptsMadeOnce` even for invocations that outlive their leases.
`RepeatsAreLosses` and `AcceptancesStand` need the lease: `LeaseInv` says that an
open claim is the effect's last one (`Leased`), and that what got through was
kept or its answer lost (`Kept`). Their premise `LongCalls = FALSE` is the
platform's limit: `index.ts` gives an invocation a minute, the lease is five.
`ClaimsAreRespected` says what is left of the broken `ActiveLeaseRespected` of
section 6: an effect in progress is settled by its own worker only, unless its
allowance is exhausted, which is the test that the code makes too early.

**The audits.** An audit compares what it read at different times. `AuditInv`
says that each thing it compares only moves one way: a booking that exists stays,
a recorded event stays, an agreement is never replaced; so what was read first
still holds of what is read later (`AgreementStays`).

**The reconciler.** `ReconcilerInv` has the ledgers and claims of server bookings
(`LedgerRight`, `ClaimRight`), that what was read is still so (`ReadingRight`),
and that each update of the plan which is not written yet is still the load, or
the sole carrier, of what it is for (`PlanRight`). A crash drops the plan and
leaves the rest. `UpgradeLasts` then says what server operations preserve after a
complete run. `ReconcilerHypothesis` is `Quiesced`, `WholeHundredths` and owners
who only open and close listings: TLC confirms `UpgradeComplete` for these on the
instance of run `legacy`, and refutes it when owners may also edit a trip (they
may write an explicit ledger of zero for one that was reported and not repaired)
or a shipment (the bookings from before the ledger have no snapshot that would
freeze it before the reconciler claims it).

**Participants and accounts.** Each component is proved as an instance, under its
own specification. `EachBehaves` shows that a behaviour of `Participants` or of
`Accounts` is one of each of its components: a component that does not move
stutters. What was proved of the component then holds wherever it moves.

* *Reviews* (`ReviewInv`): what is reviewed was completed and by the other side, a
  device announces a review exactly when it writes it, and what a recalculation
  has read so far is of its user and of completed bookings. `AccuracyInv`, under
  one recalculation of a user at a time, adds that each user has an event not
  handled yet, or a run whose readings are still so, or an accurate record. That
  the premise is needed is the finding of section 6.
* *Requests* (`CallInv`): a request is asked for under one operation id, and the
  present one under the id that the device keeps (`OneOperation`,
  `KeptOnDevice`), through calls that are under way, stray or served.
  `OnePressAMatch` excludes a second press for a match during the first, which the
  home screen itself does not (`home.tsx:179`, section 9).
* *Handover* (`AgreementInv`): types and the mirrored outcome; the step that needs
  care is the save from an old reading, where the rules compare with what is
  stored.
* *Listings* (`SubmissionInv`): a start has one operation id in all that is
  listed, queued or under way, the present start the one that the device keeps
  (`OneStartOperation`); while no attempt begins during a check, what is under way
  is about that one (`QuietKeeps`). `SubmissionHypothesis` is `~StorageFails` and
  `~SlowStorage`: section 6 shows what fails without the first for Travel and
  without the second for Send. The third premise of `ListingsAreListedOnce`,
  `~Persistent`, holds of the mobile application; on the web, section 6.
* *Notifications* (`EventsInv`): what a scan has read and no longer before it is
  notified, and histories are possible ones, in which the one who takes a step is
  not the one to be told.
* *Recommendations* (`DiscoveryInv`): what is shown is the answer to the query
  asked last, which was asked with the filters and the shipments displayed. That
  the cap keeps the best needs that the order of results is total: numbering each
  result by how many precede it maps those that pass one to one onto 1 to their
  count (`BestAreFirst`).
* *Scores* (`PairInv`): the record tells what was so at its last calculation. The
  points for route, timing and trust are shown monotone one by one (`RouteGrows`,
  `TimingGrows`, `GapCosts`, `TrustGrows`), and then their sum. That a sum of ratings
  is a number is an induction over the reviews, for which the library's theorems
  cannot be used; `NumbersFollow` gets it from the well-foundedness of finite sets.
* *Roles* (`RevocationOwed`): a token of an old role can be refreshed only while
  the command that wrote the new role still has its revocation before it, or
  after that failed.
* *Console* (`Sound`): one refresh at a time, and an answer that may still count
  was asked for since the user is shown.
* *Synchronization* (`SlowRemembered`): a slow write is remembered until no write
  is under way.
* *Preferences and profiles* (`CallFits`, `ProfilesFit`): a call is of a request of
  its user, the current request of the user signed in, and it carries data of
  that user.
* *Verification* (`IdentityInv`): the record and every queued write of it keep what
  a submission needs (`Kept`), and the record's history accounts for its status.
* *Sign-out* (`PushInv`): operations run in the order asked for; an unregistration
  that was served holds unless something stray was served after it (`CleanKept`).
* *Email links* (`LinkInv`): a completion under way is of a link that was sent, for
  the address on the screen (`LinksWereSent`, `ScreenWaits`). An upgrade is of the
  anonymous account of the session, a sign-in is begun over none unless the session
  was not restored yet, and what was served is the account that owns the address
  (`AccountFollows`); addresses keep their accounts (`OwnersStay`), so that lost
  answers and late requests take nothing away. The anonymous account is the
  session's until an address owns it (`GuestKept`). A link handled before the
  session is restored is allowed; `left` records what it leaves behind.
* *Smoke* (`SmokeInv`): what exists is known to the run or comes of an unanswered
  call, and what the clean-up needs to recognise it is known too.

**Progress.** Fairness is a statement about `ENABLED`, of which the prover knows
nothing. Four theorems state the justice they need in its place, with the
condition under which the action can be taken: infinitely often the condition
fails, or infinitely often the action is taken. Under it every stage leads to the
next, which is shown step by step for all actions of the component, and the
stages are chained by temporal logic.

* `ReviewsEnterRecords`: from the event of a review through the three readings of
  its run to the write. A run may die at each of them, and its event is delivered
  again. `Handled(e)` is that the trigger starts or goes on; `CrashesEnd(e)` is
  that from some time on the runs of `e` do not die, which `MaxCrashes` gives in
  the model and `retry: true` asks of the platform. Other recalculations of the
  user go on meanwhile: they read the review too.
* `CallsEnd`: reading of the kept id, storing, the call, the call again with fresh
  credentials, the answer. `Answered(c)`, that the platform answers or drops the call
  in hand, is an assumption which the code does not give: the transport waits for
  `fetch` without a limit (`privilegedCallableTransport.ts:641`). What the theorem
  adds is that nothing else in the code keeps a call from ending.
* `RequestsAreSettled`: nothing is pending on the screen that was not sent, and, under
  the same assumption, what was sent is settled. It needs no `OnePressAMatch`.
* `TurnsEnd`: the operation at the head of the queue waits, cleans up or signs in,
  and is gone, whether the clean-up answers or hangs. `QueueGoesOn` speaks of the
  queue alone.

**Only model-checked.** `AcceptedCanBeCancelled` speaks of `ENABLED`, of which the
prover knows nothing; `CancellationStaysOpen` proves the conditions of the action,
and that they suffice is seen in the action itself. The liveness properties
`DeliveriesSettle`, `WaitsEnd` and `ReviewsGetCounted` assume `WF` and `SF` and are
beyond the prover as they stand; `ReviewsEnterRecords` is the last one under
justice written out, `TurnsEnd` is the part of the second about the head of the
sign-out queue. That every delivery
settles, that an operation far back in the queue has its turn, and that a sync
outlasts the writes it waits for, are inductions over attempts, positions and
sets.
`StatusFollowsMachine`, `FinalDecisionStands` and `DeliveryTypeOK` are proved and no
run checks them.

## 8. Fairness and liveness

The booking core assumes no fairness: every step of it is taken because a person
asks for it, and nothing obliges a traveler to accept, or a sender to hand over a
parcel. What is checked instead is that a participant who wants to leave can
(`AcceptedCanBeCancelled`).

`PushDelivery` assumes weak fairness of what the platform does on its own: a
trigger that is owed is run; a dispatcher or a retry run that has started goes on
or is ended; `processDeliveryRetriesScheduled` starts runs every minute, for
ever; time passes, so that a lease ends. Crashes are not fair and bounded by
`MaxCrashes`, as is every claim that something settles after the last of them.

`MCProgress` assumes, for each component:

* sign-out: the queue of `AuthSessionService` goes on; the provider answers, and
  the timer of three seconds goes off. The clean-up itself owes nothing.
* email links: the provider's library answers what it was asked or gives the
  request up (the Firebase Auth library limits its own requests), and the session
  is restored after a start. Which of these, and whether the server acted before, is
  open; a link, or a request given up, need never be served.
* offline status: Firestore acknowledges or refuses each write, strongly fair,
  since the network comes and goes; `WaitsEnd` further assumes that the network
  is there now and then. The wait of a sync that has nothing to wait for ends.
* preferences, profile, console: reads and writes of Firestore under way are answered
  or fail, which is so while the network is there, and so are the refreshes of
  the Auth library; the provider reports a changed session to the console and the router follows a
  redirect.
* recommendations: the readings of a query are answered or fail.
* reviews: a trigger that failed is delivered again until it succeeds
  (`retry: true` of the triggers), and a recalculation that has started goes on
  or dies.

Presses, changes of user, new writes and restarts are never owed.

Calls of the callable functions are owed nothing either. `privilegedCallableTransport`
waits for `fetch` without a limit or a way to give it up (640-646): a request that
hangs leaves the booking request pending on the home screen until the application
is started anew. `WaitsEnd` therefore says nothing of booking requests, and what
`CallsEnd` and `RequestsAreSettled` say of them is under an assumption on the
platform. What holds without it is `RequestedOnce`: however late such a call is
served, one booking comes of it.

## 9. Not modelled

* **Listings.** Validation of fields that no property tells apart, and deletion
  by an administrator. Half-way weights whose product `kg * 100` is not exact in
  binary: `RoundKg` rounds them up, the code may round them down.
* **Callable functions.** Authentication, App Check, rate limits and the mapping
  of errors: a refused call writes nothing. The role tables themselves are in
  `RolePermissions`.
* **Quiet hours** and the kill switch decide whether a push goes on: that is a
  choice in `PushDelivery`; the clock arithmetic of the window is left out.
  Devices of one recipient that share a token are not instantiated.
* **Matching.** Route and airport data, `SafetyPolicy`'s wording, and the stored
  trust scores, which no screen writes.
* **Notifications list** (`markRead`) and the events the client publishes to
  itself: single writes that nothing else reads.
* **Timelines and remote configuration.** Projections of records modelled
  elsewhere, and constants.
* **User interface.** Rendering, navigation, and the screens that only read.
* **A second press** of the request button while the operation id is read
  (`home.tsx:179`): `RequestedOnce` then fails when the traveler declines the
  first booking before the second call is served. The repository says nothing of
  two presses; the runs model one at a time.
* **Ids and lengths.** Ids are atomic: booking ids longer than the 128 characters
  later calls accept (`CustodyTransitionService.ts:67`) are not told apart.
* Accounts deleted; several recipients, whose deliveries share nothing.
