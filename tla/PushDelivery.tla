---------------------------- MODULE PushDelivery ----------------------------
(***************************************************************************)
(* Delivery of lifecycle notifications to the devices of one recipient     *)
(* (BookingAcceptedNotificationService).  A trigger invocation, the        *)
(* dispatcher, creates the canonical notification of a booking event,      *)
(* claims one delivery effect per device and sends them in one batch; retry *)
(* workers, started by a schedule and by a callable, take over effects that *)
(* failed or whose claim has gone stale.                                   *)
(*                                                                         *)
(* Each transaction, document read or update is a step of its own, and an  *)
(* invocation may die between any two.  A claim is a lease of five minutes; *)
(* an invocation runs for at most one (timeoutSeconds, index.ts), so that  *)
(* its lease cannot end before it does unless LongCalls says so.           *)
(***************************************************************************)
EXTENDS PushRegistrations

CONSTANTS
  Event,           \* lifecycle events of bookings with this recipient
  Redelivered,     \* those whose trigger is retried when its handler throws
  Dispatcher,      \* concurrent trigger invocations
  Retrier,         \* concurrent runs of processRetryableDeliveries
  MaxAttempts,     \* maxAttempts of a delivery effect
  Limit,           \* effects one run processes, and each of its queries reads
  EffectRank,      \* order of the effects' document ids
  MaxCrashes,      \* bound on the invocations and writes that are lost
  LongCalls        \* whether an invocation may outlive its lease

Worker == Dispatcher \cup Retrier
Effect == Event \X Device

ASSUME DeliveryAssumption ==
  /\ Redelivered \subseteq Event
  /\ Dispatcher \cap Retrier = {}
  /\ MaxAttempts \in Nat \ {0, 1} /\ Limit \in Nat \ {0} /\ MaxCrashes \in Nat
  /\ EffectRank \in [Effect -> Nat]
  /\ LongCalls \in BOOLEAN

VARIABLES
  undelivered,     \* events whose trigger the platform still has to run
  notified,        \* events whose canonical notification exists
  effect,          \* [Effect -> EffectDoc], collection notificationDeliveries
  stage,           \* [Worker -> Stage]
  todo,            \* [Retrier -> SUBSET Effect], candidates read by a scan
  claims,          \* [Worker -> SUBSET Claim], what a worker has claimed
  writes,          \* [Worker -> SUBSET Write], writes it still has to make
  crashes,         \* invocations and writes lost so far
  sends,           \* history: claims the provider was asked to deliver
  reached,         \* history: attempts the provider passed on
  lost,            \* history: of these, attempts the server holds no answer of
  rejected         \* history: generations of which the provider refused a token

storeVars == <<undelivered, notified, effect>>
workerVars == <<stage, todo, claims, writes>>
historyVars == <<sends, reached, lost, rejected>>
vars == <<registrationVars, storeVars, workerVars, crashes, historyVars>>

-----------------------------------------------------------------------------
Final == {"accepted", "invalid_registration", "permanent_failure"}
DeliveryStatus == Final \cup {"absent", "claimed", "temporary_failure"}
Result == Final \cup {"temporary_failure"}
Stage == {"idle", "policy", "select", "claim", "check", "send", "store"}

EffectDoc ==
  [status: DeliveryStatus, attempts: 0..MaxAttempts,
   version: 1..MaxVersion \cup {None}, lease: {"held", "expired"}]

NoEffect == [status |-> "absent", attempts |-> 0, version |-> None, lease |-> "held"]

\* A registration selected for an effect, with the attempt it is claimed for;
\* attempt 0 is not claimed yet.
Claim ==
  [effect: Effect, attempt: 0..MaxAttempts, token: Token \cup {None},
   version: 1..MaxVersion]

\* What remains to be written once an attempt has an answer
Write == [kind: {"result", "deactivate"}, claim: Claim, status: Result]

DeliveryTypeOK ==
  /\ RegistrationTypeOK
  /\ undelivered \subseteq Event /\ notified \subseteq Event
  /\ effect \in [Effect -> EffectDoc]
  /\ stage \in [Worker -> Stage]
  /\ todo \in [Retrier -> SUBSET Effect]
  /\ claims \in [Worker -> SUBSET Claim]
  /\ writes \in [Worker -> SUBSET Write]
  /\ crashes \in 0..MaxCrashes
  /\ sends \subseteq Claim
  /\ reached \subseteq Effect \X (1..MaxAttempts) /\ lost \subseteq reached
  /\ rejected \subseteq Device \X (1..MaxVersion)

Init ==
  /\ InitRegistrations
  /\ undelivered = Event /\ notified = {}
  /\ effect = [e \in Effect |-> NoEffect]
  /\ stage = [w \in Worker |-> "idle"]
  /\ todo = [w \in Retrier |-> {}]
  /\ claims = [w \in Worker |-> {}]
  /\ writes = [w \in Worker |-> {}]
  /\ crashes = 0
  /\ sends = {} /\ reached = {} /\ lost = {} /\ rejected = {}

Attempt(c) == <<c.effect, c.attempt>>

-----------------------------------------------------------------------------
\* A trigger invocation, or a reconciliation run, creates the notification of
\* an event; one that finds it there ends as a replay and changes nothing.
Materialize(w, e) ==
  /\ stage[w] = "idle" /\ e \notin notified
  /\ notified' = notified \cup {e}
  /\ undelivered' = undelivered \ {e}
  /\ stage' = [stage EXCEPT ![w] = "policy"]
  /\ claims' = [claims EXCEPT ![w] =
        {[effect |-> <<e, d>>, attempt |-> 0, token |-> None, version |-> 1] : d \in Device}]
  /\ UNCHANGED <<registrationVars, effect, todo, writes, crashes, historyVars>>

\* The handler of booking updates swallows its errors: the event is handled
\* for the platform, with no notification.  The one of new bookings throws.
Swallowable == undelivered \ (notified \cup Redelivered)

FailUpdate(e) ==
  /\ e \in Swallowable
  /\ crashes < MaxCrashes
  /\ crashes' = crashes + 1
  /\ undelivered' = undelivered \ {e}
  /\ UNCHANGED <<registrationVars, notified, effect, workerVars, historyVars>>

\* The kill switch, the recipient's preferences and the quiet hours let the
\* push through or suppress it for good.
ApplyPolicy(w) ==
  /\ stage[w] = "policy"
  /\ \/ stage' = [stage EXCEPT ![w] = "select"] /\ UNCHANGED claims
     \/ stage' = [stage EXCEPT ![w] = "idle"] /\ claims' = [claims EXCEPT ![w] = {}]
  /\ UNCHANGED <<registrationVars, storeVars, todo, writes, crashes, historyVars>>

\* One query reads the registrations to send to
SelectRegistrations(w) ==
  LET selected == {[c EXCEPT !.token = registration[c.effect[2]].token,
                             !.version = registration[c.effect[2]].version] :
                    c \in {x \in claims[w] : x.effect[2] \in SelectedDevices}}
  IN /\ stage[w] = "select"
     /\ claims' = [claims EXCEPT ![w] = selected]
     /\ stage' = [stage EXCEPT ![w] = IF selected = {} THEN "idle" ELSE "claim"]
     /\ UNCHANGED <<registrationVars, storeVars, todo, writes, crashes, historyVars>>

\* One transaction per device creates its effect; a device whose effect is
\* there already is dropped.  Sending waits for all of them.
ClaimDelivery(w, c) ==
  LET fresh   == effect[c.effect].status = "absent"
      waiting == (claims[w] \ {c}) \cup (IF fresh THEN {[c EXCEPT !.attempt = 1]} ELSE {})
  IN /\ stage[w] = "claim" /\ c \in claims[w] /\ c.attempt = 0
     /\ effect' = IF fresh
                  THEN [effect EXCEPT ![c.effect] =
                          [status |-> "claimed", attempts |-> 1,
                           version |-> c.version, lease |-> "held"]]
                  ELSE effect
     /\ claims' = [claims EXCEPT ![w] = waiting]
     /\ stage' = [stage EXCEPT ![w] =
          IF waiting = {} THEN "idle"
          ELSE IF \E x \in waiting : x.attempt = 0 THEN "claim" ELSE "send"]
     /\ UNCHANGED <<registrationVars, undelivered, notified, todo, writes, crashes, historyVars>>

-----------------------------------------------------------------------------
\* The first n effects of a set, in the order of their document ids
FirstOf(S, n) ==
  {e \in S : Cardinality({f \in S : EffectRank[f] < EffectRank[e]}) < n}

WithStatus(status) == {e \in Effect : effect[e].status = status}

\* A run of processRetryableDeliveries reads its candidates: failed effects,
\* then claimed ones whose lease has ended.
CandidatesMutant == FirstOf(WithStatus("temporary_failure"), Limit)
Candidates ==
  LET failed == FirstOf(WithStatus("temporary_failure"), Limit)
      stale  == {e \in FirstOf(WithStatus("claimed"), Limit) : effect[e].lease = "expired"}
  IN failed \cup FirstOf(stale, Limit - Cardinality(failed))

Scan(w) ==
  /\ stage[w] = "idle" /\ todo[w] = {}
  /\ Candidates # {}
  /\ todo' = [todo EXCEPT ![w] = Candidates]
  /\ UNCHANGED <<registrationVars, storeVars, stage, claims, writes, crashes, historyVars>>

\* The transaction of retryDelivery on a candidate, which may have changed
\* since the scan: done, out of attempts, held by another worker, or claimed
\* for the next attempt.
Exhausted(e) == effect[e].attempts >= MaxAttempts
InProgressMutant(e) == FALSE
InProgress(e) == effect[e].status = "claimed" /\ effect[e].lease = "held"

ClaimAgainMutant(doc) == [doc EXCEPT !.status = "claimed", !.lease = "held"]
ClaimAgain(doc) == [doc EXCEPT !.status = "claimed", !.attempts = @ + 1, !.lease = "held"]

RetryClaim(w, e) ==
  /\ stage[w] = "idle" /\ e \in todo[w]
  /\ todo' = [todo EXCEPT ![w] = @ \ {e}]
  /\ \/ /\ effect[e].status \in {"accepted", "invalid_registration"}
        /\ UNCHANGED <<effect, stage, claims>>
     \/ /\ effect[e].status \notin {"accepted", "invalid_registration"}
        /\ \/ /\ Exhausted(e)
              /\ effect' = [effect EXCEPT ![e].status = "permanent_failure"]
              /\ UNCHANGED <<stage, claims>>
           \/ /\ ~Exhausted(e) /\ InProgress(e)
              /\ UNCHANGED <<effect, stage, claims>>
           \/ /\ ~Exhausted(e) /\ ~InProgress(e)
              /\ effect' = [effect EXCEPT ![e] = ClaimAgain(@)]
              /\ stage' = [stage EXCEPT ![w] = "check"]
              /\ claims' = [claims EXCEPT ![w] =
                    {[effect |-> e, attempt |-> effect[e].attempts + 1, token |-> None,
                      version |-> effect[e].version]}]
  /\ UNCHANGED <<registrationVars, undelivered, notified, writes, crashes, historyVars>>

\* The registration is read again: a retry goes to the generation the effect
\* was claimed for, or fails for good.
StillRegistered(c) ==
  /\ registration[c.effect[2]].active
  /\ registration[c.effect[2]].version = c.version

CheckRegistration(w) ==
  /\ stage[w] = "check"
  /\ \E c \in claims[w] :
       IF StillRegistered(c)
       THEN /\ claims' = [claims EXCEPT ![w] =
                 {[c EXCEPT !.token = registration[c.effect[2]].token]}]
            /\ stage' = [stage EXCEPT ![w] = "send"]
            /\ UNCHANGED writes
       ELSE /\ writes' = [writes EXCEPT ![w] =
                 {[kind |-> "result", claim |-> c, status |-> "permanent_failure"]}]
            /\ stage' = [stage EXCEPT ![w] = "store"]
            /\ UNCHANGED claims
  /\ UNCHANGED <<registrationVars, storeVars, todo, crashes, historyVars>>

-----------------------------------------------------------------------------
\* How the provider may answer a batch: a ticket for each message, or one
\* failure of the whole request, which may still have been carried out.
Tickets(batch) == [batch -> Result]
Failures(batch) ==
  {[c \in batch |-> status] : status \in {"temporary_failure", "permanent_failure"}}

\* Messages that may have been passed on under an answer: all that were
\* accepted, none that was refused by its ticket.  A ticket that cannot be
\* read counts as a permanent failure.
MayHaveReached(answer) ==
  LET accepted == {c \in DOMAIN answer : answer[c] = "accepted"}
      unclear  == {c \in DOMAIN answer :
                     \/ answer[c] = "permanent_failure"
                     \/ answer \in Failures(DOMAIN answer)}
  IN {accepted \cup some : some \in SUBSET unclear}

\* The last attempt of a retry does not stay temporary
FinalResult(c, status) ==
  IF status = "temporary_failure" /\ c.attempt >= MaxAttempts
  THEN "permanent_failure" ELSE status

\* What is learnt from an answer, and what it leaves to write
TakeAnswer(w, answer, through) ==
  LET accepted == {x \in claims[w] : answer[x] = "accepted"}
      refused  == {x \in claims[w] : answer[x] = "invalid_registration"}
  IN /\ sends' = sends \cup claims[w]
     /\ reached' = reached \cup {Attempt(c) : c \in through}
     /\ lost' = lost \cup {Attempt(c) : c \in through \ accepted}
     /\ rejected' = rejected \cup {<<c.effect[2], c.version>> : c \in refused}
     /\ writes' = [writes EXCEPT ![w] =
          {[kind |-> "result", claim |-> c, status |-> FinalResult(c, answer[c])]
             : c \in claims[w]}
          \cup {[kind |-> "deactivate", claim |-> c, status |-> answer[c]] : c \in refused}]

SendPush(w) ==
  /\ stage[w] = "send"
  /\ \E answer \in Tickets(claims[w]) : \E through \in MayHaveReached(answer) :
       TakeAnswer(w, answer, through)
  /\ stage' = [stage EXCEPT ![w] = "store"]
  /\ UNCHANGED <<registrationVars, storeVars, todo, claims, crashes>>

\* A worker is done with its batch when nothing is left to write
AfterWrite(w, x) ==
  /\ writes' = [writes EXCEPT ![w] = @ \ {x}]
  /\ IF writes[w] = {x}
     THEN /\ stage' = [stage EXCEPT ![w] = "idle"]
          /\ claims' = [claims EXCEPT ![w] = {}]
     ELSE UNCHANGED <<stage, claims>>

\* The outcome is written over whatever the effect says by now
StoreResult(w, x) ==
  /\ x \in writes[w] /\ x.kind = "result"
  /\ effect' = [effect EXCEPT ![x.claim.effect].status = x.status]
  /\ AfterWrite(w, x)
  /\ UNCHANGED <<registrationVars, undelivered, notified, todo, crashes, historyVars>>

\* A retry stores its result before it deactivates; a dispatcher does both at
\* once, in either order.
EndRegistration(w, x) ==
  /\ x \in writes[w] /\ x.kind = "deactivate"
  /\ w \in Retrier => \A y \in writes[w] : y.kind # "result"
  /\ DeactivateRegistration(x.claim.effect[2], x.claim.token, x.claim.version)
  /\ AfterWrite(w, x)
  /\ UNCHANGED <<storeVars, todo, crashes, historyVars>>

-----------------------------------------------------------------------------
\* The attempts of which only the worker knew that they got through
Unstored(unsaved) ==
  {Attempt(x.claim) : x \in {y \in unsaved : y.kind = "result"}} \cap reached

\* An invocation dies, at its time limit or before; an error that escapes a
\* retry ends its run as well.
Crash(w) ==
  /\ crashes < MaxCrashes
  /\ stage[w] # "idle" \/ (w \in Retrier /\ todo[w] # {})
  /\ crashes' = crashes + 1
  /\ stage' = [stage EXCEPT ![w] = "idle"]
  /\ todo' = IF w \in Retrier THEN [todo EXCEPT ![w] = {}] ELSE todo
  /\ claims' = [claims EXCEPT ![w] = {}]
  /\ writes' = [writes EXCEPT ![w] = {}]
  /\ lost' = lost \cup Unstored(writes[w])
  /\ UNCHANGED <<registrationVars, storeVars, sends, reached, rejected>>

\* One write of a dispatcher fails and the others go through (allSettled)
LoseWrite(w, x) ==
  /\ crashes < MaxCrashes
  /\ w \in Dispatcher /\ x \in writes[w]
  /\ crashes' = crashes + 1
  /\ lost' = lost \cup Unstored({x})
  /\ AfterWrite(w, x)
  /\ UNCHANGED <<registrationVars, storeVars, todo, sends, reached, rejected>>

\* Five minutes have passed since an effect was claimed
ExpireLease(e) ==
  /\ effect[e].status = "claimed" /\ effect[e].lease = "held"
  /\ LongCalls \/ \A w \in Worker : \A c \in claims[w] : c.effect = e => c.attempt = 0
  /\ effect' = [effect EXCEPT ![e].lease = "expired"]
  /\ UNCHANGED <<registrationVars, undelivered, notified, workerVars, crashes, historyVars>>

UserStep ==
  /\ \E d \in Device :
       \/ \E token \in Token : RegisterPushToken(d, token)
       \/ UnregisterPushToken(d)
  /\ UNCHANGED <<storeVars, workerVars, crashes, historyVars>>

DispatchStep(w) ==
  \/ ApplyPolicy(w)
  \/ SelectRegistrations(w)
  \/ \E c \in claims[w] : ClaimDelivery(w, c)

SendStep(w) ==
  \/ SendPush(w)
  \/ \E x \in writes[w] : StoreResult(w, x) \/ EndRegistration(w, x)

RetryStep(w) ==
  \/ Scan(w)
  \/ \E e \in todo[w] : RetryClaim(w, e)
  \/ CheckRegistration(w)

Next ==
  \/ \E w \in Dispatcher : (\E e \in Event : Materialize(w, e)) \/ DispatchStep(w)
  \/ \E w \in Retrier : RetryStep(w)
  \/ \E w \in Worker : SendStep(w) \/ Crash(w) \/ \E x \in writes[w] : LoseWrite(w, x)
  \/ \E e \in Event : FailUpdate(e)
  \/ \E e \in Effect : ExpireLease(e)
  \/ UserStep

Spec == Init /\ [][Next]_vars

\* The platform runs the triggers it owes and lets every invocation go on or
\* end; the schedule starts retry runs for ever; time passes.
Fairness ==
  /\ \A e \in Event : WF_vars(e \in undelivered /\ \E w \in Dispatcher : Materialize(w, e))
  /\ \A w \in Dispatcher : WF_vars(DispatchStep(w) \/ SendStep(w))
  /\ \A w \in Retrier : WF_vars(RetryStep(w) \/ SendStep(w))
  /\ \A e \in Effect : WF_vars(ExpireLease(e))

FairSpec == Spec /\ Fairness

-----------------------------------------------------------------------------
\* The attempts at an effect stay within the allowance and each of them asks
\* the provider once, however runs, retries and leases overlap
\* (attemptCount, retryDelivery).
SendsWithinAttempts ==
  /\ \A c \in sends : c.attempt \in 1..effect[c.effect].attempts
  /\ \A w \in Worker : stage[w] = "send" =>
       \A c \in claims[w] : \A s \in sends : Attempt(s) # Attempt(c)

\* A push is repeated only if the answer to the earlier one was lost: the
\* server never sends again what it was told had been passed on.
RepeatsNeedLoss ==
  \A x, y \in reached : x[1] = y[1] /\ x[2] < y[2] => x \in lost

\* A registration its user wants is inactive only if the provider rejected a
\* token of this very generation: no late rejection ends a newer one.
OnlyRejectedEnds ==
  \A d \in wanted :
    registration[d].active \/ <<d, registration[d].version>> \in rejected

\* What the provider accepted stays recorded as accepted
AcceptedStands ==
  [][\A e \in Effect : effect[e].status = "accepted" => effect'[e].status = "accepted"]_vars

\* A claimed delivery is settled in the end, by its worker or by the runs
\* that recover what crashed workers left behind.
DeliveriesSettle ==
  \A e \in Effect : effect[e].status = "claimed" ~> effect[e].status \in Final

-----------------------------------------------------------------------------
\* What the documents and tests say and the code does otherwise

\* "deterministic device effects permit at most one provider attempt"
\* (notification-delivery.md)
OneProviderAttempt ==
  \A s, t \in sends : s.effect = t.effect => s.attempt = t.attempt

\* "respects active claimed leases (< 5 min) and skips processing"
\* (lifecycleNotifications.test.ts): a claimed effect is settled by the worker
\* that holds it, until its lease ends.
ActiveLeaseRespected ==
  [][\A e \in Effect :
       InProgress(e) /\ effect'[e].status # "claimed" =>
         \E w \in Worker : \E x \in writes[w] :
           x.claim.effect = e /\ x.claim.attempt = effect[e].attempts /\ x \notin writes'[w]]_vars
=============================================================================
