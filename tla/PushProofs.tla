----------------------------- MODULE PushProofs -----------------------------
(***************************************************************************)
(* Proofs about PushDelivery for any number of events, devices, concurrent *)
(* dispatchers and retry runs, and any number of them that die.            *)
(*                                                                         *)
(* TypeInv adds to the types what a retry relies on: its candidates have   *)
(* been claimed before, so that a generation and an attempt are known.     *)
(* StepKind sums up what a step does to effects, claims and writes; the    *)
(* invariants are shown over its nine kinds.  Counted keeps attempts       *)
(* apart, whatever the leases do; LeaseInv holds when no invocation        *)
(* outlives its lease.                                                     *)
(***************************************************************************)
EXTENDS PushDelivery, TLAPS

\* A generation is known of every effect that was ever claimed, and workers
\* take up, claim and write only such effects.
Identified ==
  /\ \A e \in Effect : effect[e].version = None => effect[e].status = "absent"
  /\ \A w \in Retrier : \A e \in todo[w] : effect[e].status # "absent"
  /\ \A w \in Worker : \A c \in claims[w] :
       c.attempt > 0 => effect[c.effect].status # "absent"
  /\ \A w \in Worker : \A x \in writes[w] : effect[x.claim.effect].status # "absent"

\* Only claimed attempts are sent
ReadyToSend ==
  \A w \in Worker : stage[w] \in {"check", "send"} =>
    \A c \in claims[w] : c.attempt > 0

TypeInv == DeliveryTypeOK /\ Identified /\ ReadyToSend

-----------------------------------------------------------------------------
\* Registrations keep their types whoever writes them.
LEMMA RegistrationTypes ==
  ASSUME RegistrationTypeOK, NEW d \in Device,
         \/ \E token \in Token : RegisterPushToken(d, token)
         \/ UnregisterPushToken(d)
         \/ \E token, version : DeactivateRegistration(d, token, version)
  PROVE  RegistrationTypeOK'
<1>1. ASSUME NEW token \in Token, RegisterPushToken(d, token)
      PROVE  RegistrationTypeOK'
  <2>1. NextVersion(registration[d], token) \in 1..MaxVersion
    BY <1>1, RegistrationAssumption
       DEF RegistrationTypeOK, Registration, RegisterPushToken, NextVersion
  <2> QED
    BY <1>1, <2>1 DEF RegistrationTypeOK, Registration, RegisterPushToken
<1>2. CASE UnregisterPushToken(d)
  BY <1>2 DEF RegistrationTypeOK, Registration, UnregisterPushToken
<1>3. ASSUME NEW token, NEW version, DeactivateRegistration(d, token, version)
      PROVE  RegistrationTypeOK'
  BY <1>3, ZenonT(30) DEF RegistrationTypeOK, Registration, DeactivateRegistration
<1> QED
  BY <1>1, <1>2, <1>3

\* A step keeps effects identified if what it adds concerns claimed effects.
LEMMA StillIdentified ==
  ASSUME TypeInv,
         \A e \in Effect : /\ effect'[e].version = None => effect'[e].status = "absent"
                           /\ effect'[e].status = "absent" => effect[e].status = "absent",
         \A w \in Retrier : \A e \in todo'[w] : e \in todo[w] \/ effect'[e].status # "absent",
         \A w \in Worker : \A c \in claims'[w] : c.attempt > 0 =>
           \/ effect'[c.effect].status # "absent"
           \/ \E d \in claims[w] : d.attempt > 0 /\ d.effect = c.effect,
         \A w \in Worker : \A x \in writes'[w] :
           \/ x \in writes[w]
           \/ \E d \in claims[w] : d.attempt > 0 /\ d.effect = x.claim.effect
  PROVE  Identified'
<1>1. \A w \in Worker : /\ \A c \in claims[w] : c.effect \in Effect
                        /\ \A x \in writes[w] : x.claim.effect \in Effect
  BY DEF TypeInv, DeliveryTypeOK, Claim, Write
<1>2. \A w \in Retrier : \A e \in todo[w] : e \in Effect
  BY DEF TypeInv, DeliveryTypeOK
<1> QED
  BY <1>1, <1>2 DEF TypeInv, Identified

\* What the registrations of a batch are read to.
LEMMA SelectedTypes ==
  ASSUME RegistrationTypeOK, NEW c \in Claim, c.effect[2] \in SelectedDevices
  PROVE  [c EXCEPT !.token = registration[c.effect[2]].token,
                   !.version = registration[c.effect[2]].version] \in Claim
<1> DEFINE d == c.effect[2]
<1>1. d \in Device /\ Deliverable(registration[d])
  BY DEF SelectedDevices
<1>2. registration[d].token \in Token \cup {None} /\ registration[d].version \in 1..MaxVersion
  BY <1>1 DEF RegistrationTypeOK, Registration, Deliverable
<1> QED
  BY <1>2 DEF Claim

\* A worker that has written something goes on or is done.
LEMMA AfterWriteTypes ==
  ASSUME TypeInv, NEW w \in Worker, NEW x \in writes[w], AfterWrite(w, x)
  PROVE  /\ stage' \in [Worker -> Stage]
         /\ claims' \in [Worker -> SUBSET Claim]
         /\ writes' \in [Worker -> SUBSET Write]
         /\ \A v \in Worker : /\ writes'[v] \subseteq writes[v] /\ claims'[v] \subseteq claims[v]
                               /\ stage'[v] \in {stage[v], "idle"}
<1>1. "idle" \in Stage
  BY DEF Stage
<1>2. writes' \in [Worker -> SUBSET Write]
  BY DEF AfterWrite, TypeInv, DeliveryTypeOK
<1>3. CASE writes[w] = {x}
  BY <1>1, <1>2, <1>3 DEF AfterWrite, TypeInv, DeliveryTypeOK
<1>4. CASE writes[w] # {x}
  BY <1>2, <1>4 DEF AfterWrite, TypeInv, DeliveryTypeOK
<1> QED
  BY <1>3, <1>4

\* The initial state is well typed.
LEMMA TypeInit == Init => TypeInv
<1> SUFFICES ASSUME Init PROVE TypeInv
  OBVIOUS
<1>1. RegistrationTypeOK
  <2>1. 1..MaxVersion \subseteq Int /\ NoRegistration \in Registration
    BY RegistrationAssumption DEF NoRegistration, Registration
  <2> QED
    BY <2>1 DEF Init, InitRegistrations, RegistrationTypeOK, Registration
<1>2. NoEffect \in EffectDoc
  BY DeliveryAssumption DEF NoEffect, EffectDoc, DeliveryStatus
<1>3. DeliveryTypeOK
  BY <1>1, <1>2, DeliveryAssumption DEF Init, DeliveryTypeOK, Stage
<1> QED
  BY <1>3 DEF TypeInv, Init, Identified, ReadyToSend, NoEffect
-----------------------------------------------------------------------------
\* The dispatcher's steps keep the types.
LEMMA DispatchTypes ==
  ASSUME TypeInv, NEW w \in Dispatcher,
         (\E e \in Event : Materialize(w, e)) \/ DispatchStep(w)
  PROVE  TypeInv'
<1> USE DEF TypeInv, DeliveryTypeOK
<1>0. w \in Worker
  BY DEF Worker
<1>1. ASSUME NEW e \in Event, Materialize(w, e)
      PROVE  TypeInv'
  <2> DEFINE batch == {[effect |-> <<e, d>>, attempt |-> 0, token |-> None, version |-> 1] :
                        d \in Device}
  <2>1. batch \subseteq Claim
    BY RegistrationAssumption, DeliveryAssumption DEF Claim, Effect
  <2>2. claims' = [claims EXCEPT ![w] = batch] /\ stage' = [stage EXCEPT ![w] = "policy"]
    BY <1>1 DEF Materialize
  <2> HIDE DEF batch
  <2>3. claims' \in [Worker -> SUBSET Claim] /\ stage' \in [Worker -> Stage]
    BY <2>1, <2>2 DEF Stage
  <2>4. UNCHANGED <<registrationVars, effect, todo, writes, crashes, historyVars>>
        /\ notified' \subseteq Event /\ undelivered' \subseteq Event
    BY <1>1 DEF Materialize
  <2>5. \A v \in Worker : \A c \in claims'[v] : c \in claims[v] \/ c.attempt = 0
    BY <2>2 DEF batch
  <2>6. Identified'
    BY <2>4, <2>5, StillIdentified DEF Identified
  <2> QED
    BY <2>2, <2>3, <2>4, <2>6 DEF RegistrationTypeOK, registrationVars, historyVars, ReadyToSend
<1>2. CASE ApplyPolicy(w)
  BY <1>0, <1>2 DEF ApplyPolicy, registrationVars, storeVars, historyVars, RegistrationTypeOK,
                    Identified, ReadyToSend, Stage
<1>3. CASE SelectRegistrations(w)
  <2> DEFINE selected == {[c EXCEPT !.token = registration[c.effect[2]].token,
                                    !.version = registration[c.effect[2]].version] :
                           c \in {x \in claims[w] : x.effect[2] \in SelectedDevices}}
  <2>1. selected \subseteq Claim
    BY <1>0, SelectedTypes
  <2>2. claims' = [claims EXCEPT ![w] = selected]
        /\ stage' = [stage EXCEPT ![w] = IF selected = {} THEN "idle" ELSE "claim"]
        /\ UNCHANGED <<registrationVars, storeVars, todo, writes, crashes, historyVars>>
    BY <1>3 DEF SelectRegistrations
  <2>3. \A x \in selected : \E c \in claims[w] : c.effect = x.effect /\ c.attempt = x.attempt
    <3> DEFINE read(c) == [c EXCEPT !.token = registration[c.effect[2]].token,
                                    !.version = registration[c.effect[2]].version]
    <3>1. \A c \in claims[w] : read(c).effect = c.effect /\ read(c).attempt = c.attempt
      BY <1>0 DEF Claim
    <3>2. \A x \in selected : \E c \in claims[w] : x = read(c)
      OBVIOUS
    <3> HIDE DEF read, selected
    <3> QED
      BY <3>1, <3>2
  <2> HIDE DEF selected
  <2>4. \A v \in Worker : \A x \in claims'[v] :
          \E c \in claims[v] : c.effect = x.effect /\ c.attempt = x.attempt
    BY <1>0, <2>2, <2>3
  <2>5. Identified'
    BY <2>2, <2>4, StillIdentified DEF storeVars, Identified
  <2> QED
    BY <1>0, <2>1, <2>2, <2>5 DEF registrationVars, storeVars, historyVars, RegistrationTypeOK,
                                  ReadyToSend, Stage
<1>4. ASSUME NEW c \in claims[w], ClaimDelivery(w, c)
      PROVE  TypeInv'
  <2> DEFINE fresh   == effect[c.effect].status = "absent"
             claimed == [c EXCEPT !.attempt = 1]
             waiting == (claims[w] \ {c}) \cup (IF fresh THEN {claimed} ELSE {})
             next    == IF waiting = {} THEN "idle"
                        ELSE IF \E x \in waiting : x.attempt = 0 THEN "claim" ELSE "send"
  <2>1. c \in Claim /\ c.effect \in Effect /\ c.version \in 1..MaxVersion
    BY <1>0 DEF Claim
  <2>2. claimed \in Claim /\ claimed.attempt = 1
    BY <2>1, DeliveryAssumption DEF Claim
  <2>3. waiting \in SUBSET Claim
    BY <1>0, <2>2
  <2>4. /\ claims' = [claims EXCEPT ![w] = waiting]
        /\ stage' = [stage EXCEPT ![w] = next]
        /\ effect' = IF fresh
                     THEN [effect EXCEPT ![c.effect] =
                             [status |-> "claimed", attempts |-> 1,
                              version |-> c.version, lease |-> "held"]]
                     ELSE effect
        /\ UNCHANGED <<registrationVars, undelivered, notified, todo, writes, crashes, historyVars>>
    BY <1>4 DEF ClaimDelivery
  <2>5. next \in Stage /\ (next = "send" => \A x \in waiting : x.attempt > 0) /\ next # "check"
    BY <2>3 DEF Stage, Claim
  <2>6. [status |-> "claimed", attempts |-> 1, version |-> c.version, lease |-> "held"] \in EffectDoc
    BY <2>1, DeliveryAssumption DEF EffectDoc, DeliveryStatus
  <2>7. effect' \in [Effect -> EffectDoc]
    BY <2>4, <2>6
  <2> HIDE DEF waiting, next, claimed
  <2>8. DeliveryTypeOK'
    BY <1>0, <2>3, <2>4, <2>5, <2>7 DEF registrationVars, historyVars, RegistrationTypeOK
  <2>9. ReadyToSend'
    BY <1>0, <2>3, <2>4, <2>5 DEF ReadyToSend
  <2>10. Identified'
    <3>1. c.version # None
      BY <2>1, RegistrationAssumption
    <3>2. \A e \in Effect :
            \/ effect'[e] = effect[e]
            \/ effect'[e].status = "claimed" /\ effect'[e].version = c.version
      <4>1. CASE fresh
        BY <2>1, <2>4, <4>1
      <4>2. CASE ~fresh
        BY <2>4, <4>2
      <4> QED
        BY <4>1, <4>2
    <3>3. effect'[c.effect].status # "absent"
      BY <2>1, <2>4
    <3>4. \A x \in waiting : x \in claims[w] \/ x.effect = c.effect
      BY <2>1 DEF waiting, claimed, Claim
    <3>5. \A v \in Worker : \A x \in claims'[v] : x \in claims[v] \/ x.effect = c.effect
      BY <2>4, <3>4
    <3>6. \A e \in Effect : /\ effect'[e].version = None => effect'[e].status = "absent"
                            /\ effect'[e].status = "absent" => effect[e].status = "absent"
      BY <3>1, <3>2 DEF Identified
    <3> QED
      BY <2>4, <3>3, <3>5, <3>6, StillIdentified
  <2> QED
    BY <2>8, <2>9, <2>10
<1> QED
  BY <1>1, <1>2, <1>3, <1>4 DEF DispatchStep

\* What a retry makes of the document it claims.
LEMMA ClaimAgainDoc ==
  ASSUME NEW doc \in EffectDoc, doc.attempts + 1 \in 1..MaxAttempts
  PROVE  /\ ClaimAgain(doc) \in EffectDoc
         /\ ClaimAgain(doc).status = "claimed" /\ ClaimAgain(doc).lease = "held"
         /\ ClaimAgain(doc).attempts = doc.attempts + 1
         /\ ClaimAgain(doc).version = doc.version
<1> DEFINE n == doc.attempts + 1
<1>1. ClaimAgain(doc) = [doc EXCEPT !.status = "claimed", !.attempts = n, !.lease = "held"]
  BY DEF ClaimAgain
<1>2. n \in 0..MaxAttempts
  BY DeliveryAssumption
<1> HIDE DEF n
<1>3. ClaimAgain(doc) \in EffectDoc /\ ClaimAgain(doc).attempts = n
  BY <1>1, <1>2 DEF EffectDoc, DeliveryStatus
<1>4. /\ ClaimAgain(doc).status = "claimed" /\ ClaimAgain(doc).lease = "held"
      /\ ClaimAgain(doc).version = doc.version
  BY <1>1 DEF EffectDoc
<1> QED
  BY <1>3, <1>4 DEF n

\* So do the steps of a retry run.
LEMMA RetryTypes ==
  ASSUME TypeInv, NEW w \in Retrier, RetryStep(w)
  PROVE  TypeInv'
<1> USE DEF TypeInv, DeliveryTypeOK
<1>0. w \in Worker
  BY DEF Worker
<1>1. CASE Scan(w)
  <2>1. Candidates \subseteq {e \in Effect : effect[e].status # "absent"}
    BY DEF Candidates, FirstOf, WithStatus
  <2> QED
    BY <1>1, <2>1 DEF Scan, registrationVars, storeVars, historyVars, RegistrationTypeOK,
                      Identified, ReadyToSend
<1>2. ASSUME NEW e \in todo[w], RetryClaim(w, e)
      PROVE  TypeInv'
  <2>1. /\ e \in Effect /\ effect[e] \in EffectDoc
        /\ effect[e].status # "absent" /\ effect[e].version \in 1..MaxVersion
    BY DEF Identified, EffectDoc
  <2>2. /\ todo' = [todo EXCEPT ![w] = @ \ {e}]
        /\ UNCHANGED <<registrationVars, undelivered, notified, writes, crashes, historyVars>>
    BY <1>2 DEF RetryClaim
  <2>3. CASE UNCHANGED <<effect, stage, claims>>
    BY <2>2, <2>3 DEF registrationVars, historyVars, RegistrationTypeOK, Identified, ReadyToSend
  <2>4. CASE /\ effect' = [effect EXCEPT ![e].status = "permanent_failure"]
             /\ UNCHANGED <<stage, claims>>
    <3>1. effect' \in [Effect -> EffectDoc]
      BY <2>1, <2>4 DEF EffectDoc, DeliveryStatus, Final
    <3>2. \A f \in Effect : /\ effect'[f].version = effect[f].version
                            /\ effect'[f].status = effect[f].status \/ f = e
      BY <2>1, <2>4 DEF EffectDoc
    <3>3. effect'[e].status # "absent"
      BY <2>1, <2>4
    <3>4. Identified'
      <4>1. \A f \in Effect : /\ effect'[f].version = None => effect'[f].status = "absent"
                              /\ effect'[f].status = "absent" => effect[f].status = "absent"
        BY <2>1, <3>2, <3>3, RegistrationAssumption DEF Identified
      <4>2. \A v \in Retrier : todo'[v] \subseteq todo[v]
        BY <2>2
      <4> QED
        BY <2>2, <2>4, <4>1, <4>2, StillIdentified
    <3> QED
      BY <2>2, <2>4, <3>1, <3>4 DEF registrationVars, historyVars, RegistrationTypeOK, ReadyToSend
  <2>5. CASE /\ ~Exhausted(e)
             /\ effect' = [effect EXCEPT ![e] = ClaimAgain(@)]
             /\ stage' = [stage EXCEPT ![w] = "check"]
             /\ claims' = [claims EXCEPT ![w] =
                   {[effect |-> e, attempt |-> effect[e].attempts + 1, token |-> None,
                     version |-> effect[e].version]}]
    <3>1. effect[e].attempts + 1 \in 1..MaxAttempts
      BY <2>1, <2>5, DeliveryAssumption DEF Exhausted, EffectDoc
    <3>2. [effect |-> e, attempt |-> effect[e].attempts + 1, token |-> None,
           version |-> effect[e].version] \in Claim
      BY <2>1, <3>1 DEF Claim
    <3>3. ClaimAgain(effect[e]) \in EffectDoc
          /\ ClaimAgain(effect[e]).version = effect[e].version
          /\ ClaimAgain(effect[e]).status = "claimed"
      BY <2>1, <3>1, ClaimAgainDoc
    <3>4. effect' \in [Effect -> EffectDoc]
      BY <2>5, <3>3
    <3>5. stage' \in [Worker -> Stage] /\ claims' \in [Worker -> SUBSET Claim]
      BY <2>5, <3>2 DEF Stage
    <3>6. Identified'
      BY <2>1, <2>2, <2>5, <3>3, RegistrationAssumption DEF Identified
    <3>7. ReadyToSend'
      BY <1>0, <2>5, <3>1 DEF ReadyToSend
    <3> QED
      BY <2>2, <3>4, <3>5, <3>6, <3>7 DEF registrationVars, historyVars, RegistrationTypeOK
  <2> QED
    BY <1>2, <2>3, <2>4, <2>5 DEF RetryClaim
<1>3. CASE CheckRegistration(w)
  <2>1. PICK c \in claims[w] :
          IF StillRegistered(c)
          THEN /\ claims' = [claims EXCEPT ![w] =
                    {[c EXCEPT !.token = registration[c.effect[2]].token]}]
               /\ stage' = [stage EXCEPT ![w] = "send"]
               /\ UNCHANGED writes
          ELSE /\ writes' = [writes EXCEPT ![w] =
                    {[kind |-> "result", claim |-> c, status |-> "permanent_failure"]}]
               /\ stage' = [stage EXCEPT ![w] = "store"]
               /\ UNCHANGED claims
    BY <1>3 DEF CheckRegistration
  <2>2. c \in Claim /\ c.effect[2] \in Device /\ c.attempt > 0
    BY <1>0, <1>3 DEF Claim, Effect, ReadyToSend, CheckRegistration
  <2>3. [c EXCEPT !.token = registration[c.effect[2]].token] \in Claim
        /\ [c EXCEPT !.token = registration[c.effect[2]].token].attempt = c.attempt
    BY <2>2 DEF Claim, RegistrationTypeOK, Registration
  <2>4. [kind |-> "result", claim |-> c, status |-> "permanent_failure"] \in Write
    BY <2>2 DEF Write, Result, Final
  <2>5. UNCHANGED <<registrationVars, storeVars, todo, crashes, historyVars>>
    BY <1>3 DEF CheckRegistration
  <2>6. /\ claims' \in [Worker -> SUBSET Claim]
        /\ writes' \in [Worker -> SUBSET Write]
        /\ stage' \in [Worker -> Stage]
    BY <2>1, <2>3, <2>4 DEF Stage
  <2>7. ReadyToSend'
    <3>1. CASE StillRegistered(c)
      <4> DEFINE found == [c EXCEPT !.token = registration[c.effect[2]].token]
      <4>1. found.attempt > 0
        BY <2>2, <2>3
      <4>2. claims' = [claims EXCEPT ![w] = {found}] /\ stage' = [stage EXCEPT ![w] = "send"]
        BY <2>1, <3>1
      <4> HIDE DEF found
      <4> QED
        BY <1>0, <4>1, <4>2 DEF ReadyToSend
    <3>2. CASE ~StillRegistered(c)
      BY <1>0, <2>1, <3>2 DEF ReadyToSend
    <3> QED
      BY <3>1, <3>2
  <2>8. /\ \A v \in Worker : \A x \in claims'[v] :
               \E d \in claims[v] : d.effect = x.effect /\ d.attempt = x.attempt
        /\ \A v \in Worker : \A x \in writes'[v] :
               x \in writes[v] \/ (v = w /\ x.claim = c)
    <3> DEFINE found == [c EXCEPT !.token = registration[c.effect[2]].token]
    <3>1. found.effect = c.effect /\ found.attempt = c.attempt
      BY <2>2 DEF Claim
    <3>2. CASE StillRegistered(c)
      <4>1. claims' = [claims EXCEPT ![w] = {found}] /\ writes' = writes
        BY <2>1, <3>2
      <4> HIDE DEF found
      <4> QED
        BY <3>1, <4>1
    <3>3. CASE ~StillRegistered(c)
      BY <2>1, <3>3
    <3> QED
      BY <3>2, <3>3
  <2>9. Identified'
    BY <1>0, <2>2, <2>5, <2>8, StillIdentified DEF storeVars, Identified
  <2> QED
    BY <2>5, <2>6, <2>7, <2>9 DEF registrationVars, storeVars, historyVars, RegistrationTypeOK
<1> QED
  BY <1>1, <1>2, <1>3 DEF RetryStep
\* The provider is asked for claimed attempts only, and what is to be written
\* then is well typed.
LEMMA SendTypes ==
  ASSUME TypeInv, NEW w \in Worker, SendPush(w)
  PROVE  TypeInv'
<1> USE DEF TypeInv, DeliveryTypeOK
<1>0. PICK answer \in Tickets(claims[w]) : \E through \in MayHaveReached(answer) :
        TakeAnswer(w, answer, through)
  BY DEF SendPush
<1>1. PICK through \in MayHaveReached(answer) : TakeAnswer(w, answer, through)
  BY <1>0
<1>2. /\ stage[w] = "send" /\ stage' = [stage EXCEPT ![w] = "store"]
      /\ UNCHANGED <<registrationVars, storeVars, todo, claims, crashes>>
  BY DEF SendPush
<1>3. answer \in [claims[w] -> Result] /\ through \subseteq claims[w]
  BY DEF Tickets, MayHaveReached
<1>4. \A c \in claims[w] :
        /\ c \in Claim /\ Attempt(c) \in Effect \X (1..MaxAttempts)
        /\ <<c.effect[2], c.version>> \in Device \X (1..MaxVersion)
  BY <1>2 DEF Attempt, Claim, Effect, ReadyToSend
<1>5. \A c \in claims[w] :
        /\ [kind |-> "result", claim |-> c, status |-> FinalResult(c, answer[c])] \in Write
        /\ [kind |-> "deactivate", claim |-> c, status |-> answer[c]] \in Write
  BY <1>3, <1>4 DEF Write, FinalResult, Result, Final
<1>6. writes' \in [Worker -> SUBSET Write]
  BY <1>1, <1>5 DEF TakeAnswer
<1>7. reached' \subseteq Effect \X (1..MaxAttempts) /\ lost' \subseteq reached'
      /\ rejected' \subseteq Device \X (1..MaxVersion)
  BY <1>1, <1>3, <1>4 DEF TakeAnswer
<1>8. sends' \subseteq Claim /\ stage' \in [Worker -> Stage]
  BY <1>1, <1>2 DEF Stage, TakeAnswer
<1>9. ReadyToSend'
  BY <1>2 DEF ReadyToSend
<1>10. \A v \in Worker : \A x \in writes'[v] : x \in writes[v] \/ (v = w /\ x.claim \in claims[w])
  BY <1>1 DEF TakeAnswer
<1>11. Identified'
  BY <1>2, <1>10, StillIdentified DEF storeVars, Identified, ReadyToSend
<1> QED
  BY <1>2, <1>6, <1>7, <1>8, <1>9, <1>11 DEF registrationVars, storeVars, RegistrationTypeOK

\* The writes, the crashes, the leases and the user keep the types.
LEMMA WriteTypes ==
  ASSUME TypeInv, NEW w \in Worker, NEW x \in writes[w],
         StoreResult(w, x) \/ EndRegistration(w, x) \/ LoseWrite(w, x)
  PROVE  TypeInv'
<1> USE DEF TypeInv, DeliveryTypeOK
<1>1. x \in Write /\ x.claim.effect \in Effect /\ x.claim.effect[2] \in Device
      /\ x.status \in Result
  BY DEF Write, Claim, Effect
<1>2. /\ stage' \in [Worker -> Stage]
      /\ claims' \in [Worker -> SUBSET Claim]
      /\ writes' \in [Worker -> SUBSET Write]
      /\ \A v \in Worker : /\ writes'[v] \subseteq writes[v] /\ claims'[v] \subseteq claims[v]
                            /\ stage'[v] \in {stage[v], "idle"}
  BY AfterWriteTypes DEF StoreResult, EndRegistration, LoseWrite
<1>3. ReadyToSend'
  BY <1>2 DEF ReadyToSend
<1>4. CASE StoreResult(w, x)
  <2>1. /\ effect' = [effect EXCEPT ![x.claim.effect].status = x.status]
        /\ UNCHANGED <<registrationVars, undelivered, notified, todo, crashes, historyVars>>
    BY <1>4 DEF StoreResult
  <2>2. /\ effect' \in [Effect -> EffectDoc]
        /\ \A e \in Effect : /\ effect'[e].version = effect[e].version
                             /\ effect'[e].status \in {effect[e].status, x.status}
    BY <1>1, <2>1 DEF EffectDoc, DeliveryStatus, Result
  <2>3. x.status # "absent"
    BY <1>1 DEF Result, Final
  <2>4. Identified'
    <3>1. effect'[x.claim.effect].status = x.status
          /\ \A e \in Effect \ {x.claim.effect} : effect'[e] = effect[e]
      BY <1>1, <2>1 DEF EffectDoc
    <3>2. effect[x.claim.effect].version # None
      BY <1>1 DEF Identified
    <3>3. \A e \in Effect : /\ effect'[e].version = None => effect'[e].status = "absent"
                            /\ effect'[e].status = "absent" => effect[e].status = "absent"
      BY <2>2, <2>3, <3>1, <3>2 DEF Identified
    <3> QED
      BY <1>2, <2>1, <3>3, StillIdentified DEF Identified
  <2> QED
    BY <1>2, <1>3, <2>1, <2>2, <2>4 DEF registrationVars, historyVars, RegistrationTypeOK
<1>5. CASE EndRegistration(w, x)
  <2>1. RegistrationTypeOK'
    BY <1>1, <1>5, RegistrationTypes DEF EndRegistration
  <2>2. Identified'
    BY <1>2, <1>5, StillIdentified DEF EndRegistration, storeVars, Identified
  <2> QED
    BY <1>2, <1>3, <1>5, <2>1, <2>2 DEF EndRegistration, storeVars, historyVars
<1>6. CASE LoseWrite(w, x)
  <2>1. lost' \subseteq reached
    BY <1>6 DEF LoseWrite, Unstored
  <2>2. crashes' \in 0..MaxCrashes
    BY <1>6, DeliveryAssumption DEF LoseWrite
  <2>3. Identified'
    BY <1>2, <1>6, StillIdentified DEF LoseWrite, storeVars, Identified
  <2> QED
    BY <1>2, <1>3, <1>6, <2>1, <2>2, <2>3
       DEF LoseWrite, registrationVars, storeVars, RegistrationTypeOK
<1> QED
  BY <1>4, <1>5, <1>6
\* A death, a swallowed error, the passing of time and the user keep the types.
LEMMA OtherTypes ==
  ASSUME TypeInv,
         \/ \E w \in Worker : Crash(w)
         \/ \E e \in Event : FailUpdate(e)
         \/ \E e \in Effect : ExpireLease(e)
         \/ UserStep
         \/ UNCHANGED vars
  PROVE  TypeInv'
<1> USE DEF TypeInv, DeliveryTypeOK
<1>1. ASSUME NEW w \in Worker, Crash(w)
      PROVE  TypeInv'
  <2>1. /\ stage' = [stage EXCEPT ![w] = "idle"]
        /\ claims' = [claims EXCEPT ![w] = {}] /\ writes' = [writes EXCEPT ![w] = {}]
        /\ todo' = IF w \in Retrier THEN [todo EXCEPT ![w] = {}] ELSE todo
        /\ UNCHANGED <<registrationVars, storeVars, sends, reached, rejected>>
    BY <1>1 DEF Crash
  <2>2. crashes' \in 0..MaxCrashes /\ lost' \subseteq reached
    BY <1>1, DeliveryAssumption DEF Crash, Unstored
  <2>3. todo' \in [Retrier -> SUBSET Effect] /\ \A v \in Retrier : todo'[v] \subseteq todo[v]
    BY <2>1
  <2>4. stage' \in [Worker -> Stage]
    BY <2>1 DEF Stage
  <2>5. Identified'
    <3>1. \A v \in Worker : claims'[v] \subseteq claims[v] /\ writes'[v] \subseteq writes[v]
      BY <2>1
    <3> QED
      BY <2>1, <2>3, <3>1, StillIdentified DEF storeVars, Identified
  <2>6. ReadyToSend'
    BY <2>1 DEF ReadyToSend
  <2> QED
    BY <2>1, <2>2, <2>3, <2>4, <2>5, <2>6 DEF registrationVars, storeVars, RegistrationTypeOK
<1>2. ASSUME NEW e \in Event, FailUpdate(e)
      PROVE  TypeInv'
  <2>1. crashes' \in 0..MaxCrashes
    BY <1>2, DeliveryAssumption DEF FailUpdate
  <2> QED
    BY <1>2, <2>1 DEF FailUpdate, registrationVars, workerVars, historyVars,
                      RegistrationTypeOK, Identified, ReadyToSend
<1>3. ASSUME NEW e \in Effect, ExpireLease(e)
      PROVE  TypeInv'
  <2>1. /\ effect' = [effect EXCEPT ![e].lease = "expired"]
        /\ UNCHANGED <<registrationVars, undelivered, notified, workerVars, crashes, historyVars>>
    BY <1>3 DEF ExpireLease
  <2>2. /\ effect' \in [Effect -> EffectDoc]
        /\ \A f \in Effect : /\ effect'[f].status = effect[f].status
                             /\ effect'[f].version = effect[f].version
    BY <2>1 DEF EffectDoc
  <2>3. Identified'
    BY <2>1, <2>2, StillIdentified DEF workerVars, Identified
  <2> QED
    BY <2>1, <2>2, <2>3 DEF registrationVars, workerVars, historyVars, RegistrationTypeOK,
                            ReadyToSend
<1>4. CASE UserStep
  <2>1. RegistrationTypeOK'
    BY <1>4, RegistrationTypes DEF UserStep
  <2> QED
    BY <1>4, <2>1 DEF UserStep, storeVars, workerVars, historyVars, Identified, ReadyToSend
<1>5. CASE UNCHANGED vars
  BY <1>5 DEF vars, registrationVars, storeVars, workerVars, historyVars, RegistrationTypeOK,
              Identified, ReadyToSend
<1> QED
  BY <1>1, <1>2, <1>3, <1>4, <1>5

\* Every step of the system is one of these.
LEMMA TypeStep == TypeInv /\ [Next]_vars => TypeInv'
BY DispatchTypes, RetryTypes, SendTypes, WriteTypes, OtherTypes DEF Next, SendStep

\* So the strengthened types hold throughout.
LEMMA TypeInvariant == Spec => []TypeInv
BY TypeInit, TypeStep, PTL DEF Spec

\* Every document, claim and write keeps its type, for any number of workers
\* and devices: no attempt is claimed beyond the allowance, and every claim
\* names a generation of a registration.
THEOREM DeliveryTypes == Spec => []DeliveryTypeOK
<1>1. TypeInv => DeliveryTypeOK
  BY DEF TypeInv
<1> QED
  BY <1>1, TypeInvariant, PTL
-----------------------------------------------------------------------------
\* The outcomes a worker still has to store
PendingResults(w) == {x \in writes[w] : x.kind = "result"}

\* Few steps claim, send or store.  A step is one of these kinds; in each, the
\* other workers go on undisturbed.
OthersKeep(w) ==
  \A v \in Worker \ {w} :
    claims'[v] = claims[v] /\ writes'[v] = writes[v] /\ stage'[v] = stage[v]

\* A worker claims an effect once
OneEach == \A w \in Worker : \A c, d \in claims[w] : c.effect = d.effect => c = d

\* Batches are prepared and read again, the user acts, time passes unnoticed.
Quiet ==
  /\ UNCHANGED <<effect, writes, sends, reached, lost, rejected>>
  /\ OneEach => OneEach'
  /\ \A v \in Worker :
       /\ \A c \in claims'[v] : c.attempt = 0 \/ \E d \in claims[v] : Attempt(d) = Attempt(c)
       /\ stage[v] = "store" => stage'[v] = "store" /\ claims'[v] = claims[v]
       /\ stage'[v] = "store" => stage[v] = "store"

\* A device's effect is created
Claiming(w) ==
  /\ UNCHANGED <<sends, reached, lost, rejected, writes>> /\ OthersKeep(w)
  /\ stage[w] = "claim" /\ stage'[w] # "store"
  /\ \E c \in claims[w] :
       /\ c.attempt = 0 /\ effect[c.effect].status = "absent"
       /\ claims'[w] = (claims[w] \ {c}) \cup {[c EXCEPT !.attempt = 1]}
       /\ effect' = [effect EXCEPT ![c.effect] =
            [status |-> "claimed", attempts |-> 1, version |-> c.version, lease |-> "held"]]

\* An effect is claimed for its next attempt
Reclaiming(w) ==
  /\ UNCHANGED <<sends, reached, lost, rejected, writes>> /\ OthersKeep(w)
  /\ stage[w] = "idle" /\ stage'[w] = "check"
  /\ \E e \in Effect :
       /\ effect[e].status \notin {"absent", "accepted", "invalid_registration"}
       /\ ~Exhausted(e) /\ ~InProgress(e)
       /\ effect' = [effect EXCEPT ![e] = ClaimAgain(@)]
       /\ claims'[w] = {[effect |-> e, attempt |-> effect[e].attempts + 1, token |-> None,
                         version |-> effect[e].version]}

\* An effect is out of attempts
GivingUp ==
  /\ UNCHANGED <<sends, reached, lost, rejected, writes, claims, stage>>
  /\ \E e \in Effect :
       /\ effect[e].status \notin {"accepted", "invalid_registration"} /\ Exhausted(e)
       /\ effect' = [effect EXCEPT ![e].status = "permanent_failure"]

\* A retry finds the registration changed and will not send
Refraining(w) ==
  /\ UNCHANGED <<effect, sends, reached, lost, rejected, claims>> /\ OthersKeep(w)
  /\ stage[w] = "check" /\ stage'[w] = "store"
  /\ \E c \in claims[w] :
       writes'[w] = {[kind |-> "result", claim |-> c, status |-> "permanent_failure"]}

\* The provider is asked; sent says what is known of each claim then.
Sending(w) ==
  /\ UNCHANGED <<effect, claims>> /\ OthersKeep(w)
  /\ stage[w] = "send" /\ stage'[w] = "store"
  /\ sends' = sends \cup claims[w]
  /\ reached \subseteq reached' /\ lost \subseteq lost' /\ rejected \subseteq rejected'
  /\ \A x \in writes'[w] : x.claim \in claims[w]
  /\ \A x \in writes'[w] :
       x.kind = "deactivate" => <<x.claim.effect[2], x.claim.version>> \in rejected'
  /\ \A x, y \in PendingResults(w)' : x.claim = y.claim => x = y
  /\ \A p \in reached' \ reached : \E c \in claims[w] :
       /\ Attempt(c) = p
       /\ p \in lost' \/ \E x \in PendingResults(w)' : x.claim = c /\ x.status = "accepted"

\* An outcome is stored
Storing(w, x) ==
  /\ UNCHANGED <<sends, reached, lost, rejected>> /\ OthersKeep(w)
  /\ effect' = [effect EXCEPT ![x.claim.effect].status = x.status]
  /\ writes'[w] = writes[w] \ {x}
  /\ \/ stage'[w] = stage[w] /\ claims'[w] = claims[w]
     \/ stage'[w] = "idle" /\ claims'[w] = {} /\ writes'[w] = {}

\* Writes are made elsewhere, or lost with what only their worker knew
Dropping(w) ==
  /\ UNCHANGED <<effect, sends, reached, rejected>> /\ OthersKeep(w)
  /\ writes'[w] \subseteq writes[w] /\ lost \subseteq lost'
  /\ \/ stage'[w] = stage[w] /\ claims'[w] = claims[w]
     \/ stage'[w] = "idle" /\ claims'[w] = {} /\ writes'[w] = {}
  /\ \A x \in PendingResults(w) :
       x \in writes'[w] \/ Attempt(x.claim) \notin reached \/ Attempt(x.claim) \in lost'

\* A lease ends
Expiring ==
  /\ UNCHANGED <<sends, reached, lost, rejected, writes, claims, stage>>
  /\ \E e \in Effect :
       /\ LongCalls \/ \A w \in Worker : \A c \in claims[w] : c.effect = e => c.attempt = 0
       /\ effect' = [effect EXCEPT ![e].lease = "expired"]

StepKind ==
  \/ Quiet \/ GivingUp \/ Expiring
  \/ \E w \in Worker :
       \/ Claiming(w) \/ Reclaiming(w) \/ Refraining(w) \/ Sending(w) \/ Dropping(w)
       \/ \E x \in PendingResults(w) : Storing(w, x)
\* Preparing a batch claims an effect, or nothing.
LEMMA DispatchKinds ==
  ASSUME TypeInv, NEW w \in Dispatcher,
         (\E e \in Event : Materialize(w, e)) \/ DispatchStep(w)
  PROVE  StepKind
<1>0. w \in Worker /\ claims \in [Worker -> SUBSET Claim] /\ stage \in [Worker -> Stage]
  BY DEF Worker, TypeInv, DeliveryTypeOK
<1>1. ASSUME NEW e \in Event, Materialize(w, e)
      PROVE  Quiet
  <2> DEFINE new(d) == [effect |-> <<e, d>>, attempt |-> 0, token |-> None, version |-> 1]
  <2>1. \A d \in Device : new(d).effect = <<e, d>> /\ new(d).attempt = 0
    OBVIOUS
  <2>2. claims' = [claims EXCEPT ![w] = {new(d) : d \in Device}]
    BY <1>1 DEF Materialize
  <2> HIDE DEF new
  <2>3. /\ \A c \in claims'[w] : c.attempt = 0
        /\ OneEach => OneEach'
    BY <1>0, <2>1, <2>2 DEF OneEach
  <2> QED
    BY <1>0, <1>1, <2>2, <2>3 DEF Materialize, Quiet, historyVars
<1>2. CASE ApplyPolicy(w)
  BY <1>0, <1>2 DEF ApplyPolicy, Quiet, OneEach, StepKind, storeVars, historyVars
<1>3. CASE SelectRegistrations(w)
  <2> DEFINE read(c) == [c EXCEPT !.token = registration[c.effect[2]].token,
                                  !.version = registration[c.effect[2]].version]
  <2>1. \A c \in claims[w] : Attempt(read(c)) = Attempt(c) /\ read(c).effect = c.effect
    BY <1>0 DEF Claim, Attempt
  <2>2. /\ claims' = [claims EXCEPT ![w] =
              {read(c) : c \in {x \in claims[w] : x.effect[2] \in SelectedDevices}}]
        /\ stage[w] = "select" /\ \E st \in {"idle", "claim"} : stage' = [stage EXCEPT ![w] = st]
        /\ UNCHANGED <<registrationVars, storeVars, todo, writes, crashes, historyVars>>
    BY <1>3 DEF SelectRegistrations
  <2> HIDE DEF read
  <2>3. \A v \in Worker : \A c \in claims'[v] : \E d \in claims[v] : Attempt(d) = Attempt(c)
    BY <1>0, <2>1, <2>2
  <2>4. OneEach => OneEach'
    BY <1>0, <2>1, <2>2 DEF OneEach
  <2> QED
    BY <1>0, <2>2, <2>3, <2>4 DEF Quiet, StepKind, storeVars, historyVars
<1>4. ASSUME NEW c \in claims[w], ClaimDelivery(w, c)
      PROVE  Quiet \/ Claiming(w)
  <2>1. /\ stage[w] = "claim" /\ c.attempt = 0
        /\ \E st \in {"idle", "claim", "send"} : stage' = [stage EXCEPT ![w] = st]
        /\ UNCHANGED <<registrationVars, undelivered, notified, todo, writes, crashes, historyVars>>
    BY <1>4 DEF ClaimDelivery
  <2>2. CASE effect[c.effect].status = "absent"
    <3>1. /\ claims' = [claims EXCEPT ![w] = (claims[w] \ {c}) \cup {[c EXCEPT !.attempt = 1]}]
          /\ effect' = [effect EXCEPT ![c.effect] =
               [status |-> "claimed", attempts |-> 1, version |-> c.version, lease |-> "held"]]
      BY <1>4, <2>2 DEF ClaimDelivery
    <3>2. OthersKeep(w) /\ stage'[w] # "store"
          /\ claims'[w] = (claims[w] \ {c}) \cup {[c EXCEPT !.attempt = 1]}
      BY <1>0, <2>1, <3>1 DEF OthersKeep
    <3> QED
      BY <2>1, <2>2, <3>1, <3>2 DEF Claiming, historyVars
  <2>3. CASE effect[c.effect].status # "absent"
    <3>1. claims' = [claims EXCEPT ![w] = claims[w] \ {c}] /\ effect' = effect
      BY <1>4, <2>3 DEF ClaimDelivery
    <3> QED
      BY <1>0, <2>1, <3>1 DEF Quiet, OneEach, historyVars
  <2> QED
    BY <2>2, <2>3
<1> QED
  BY <1>0, <1>1, <1>2, <1>3, <1>4 DEF DispatchStep, StepKind

\* A retry run scans, claims one effect, gives it up, or passes it over.
LEMMA RetryKinds ==
  ASSUME TypeInv, NEW w \in Retrier, RetryStep(w)
  PROVE  StepKind
<1>0. w \in Worker /\ claims \in [Worker -> SUBSET Claim] /\ stage \in [Worker -> Stage]
      /\ writes \in [Worker -> SUBSET Write]
  BY DEF Worker, TypeInv, DeliveryTypeOK
<1>1. CASE Scan(w)
  BY <1>0, <1>1 DEF Scan, Quiet, OneEach, StepKind, storeVars, historyVars
<1>2. ASSUME NEW e \in todo[w], RetryClaim(w, e)
      PROVE  Quiet \/ GivingUp \/ Reclaiming(w)
  <2>1. e \in Effect /\ effect[e].status # "absent"
    BY DEF TypeInv, DeliveryTypeOK, Identified
  <2>2. stage[w] = "idle" /\ UNCHANGED <<writes, historyVars>>
    BY <1>2 DEF RetryClaim
  <2>3. CASE UNCHANGED <<effect, stage, claims>>
    BY <2>2, <2>3 DEF Quiet, OneEach, historyVars
  <2>4. CASE ~(UNCHANGED <<effect, stage, claims>>) /\ Exhausted(e)
    <3>1. /\ effect[e].status \notin {"accepted", "invalid_registration"}
          /\ effect' = [effect EXCEPT ![e].status = "permanent_failure"]
          /\ UNCHANGED <<stage, claims>>
      BY <1>2, <2>4 DEF RetryClaim
    <3> QED
      BY <2>1, <2>2, <2>4, <3>1 DEF GivingUp, historyVars
  <2>5. CASE ~(UNCHANGED <<effect, stage, claims>>) /\ ~Exhausted(e)
    <3>1. /\ effect[e].status \notin {"accepted", "invalid_registration"} /\ ~InProgress(e)
          /\ effect' = [effect EXCEPT ![e] = ClaimAgain(@)]
          /\ stage' = [stage EXCEPT ![w] = "check"]
          /\ claims' = [claims EXCEPT ![w] =
                {[effect |-> e, attempt |-> effect[e].attempts + 1, token |-> None,
                  version |-> effect[e].version]}]
      BY <1>2, <2>5 DEF RetryClaim
    <3>2. /\ OthersKeep(w) /\ stage'[w] = "check"
          /\ claims'[w] = {[effect |-> e, attempt |-> effect[e].attempts + 1, token |-> None,
                            version |-> effect[e].version]}
      BY <1>0, <2>2, <3>1 DEF OthersKeep
    <3> QED
      BY <2>1, <2>2, <2>5, <3>1, <3>2 DEF Reclaiming, historyVars
  <2> QED
    BY <2>3, <2>4, <2>5
<1>3. CASE CheckRegistration(w)
  <2>1. PICK c \in claims[w] :
          IF StillRegistered(c)
          THEN /\ claims' = [claims EXCEPT ![w] =
                    {[c EXCEPT !.token = registration[c.effect[2]].token]}]
               /\ stage' = [stage EXCEPT ![w] = "send"]
               /\ UNCHANGED writes
          ELSE /\ writes' = [writes EXCEPT ![w] =
                    {[kind |-> "result", claim |-> c, status |-> "permanent_failure"]}]
               /\ stage' = [stage EXCEPT ![w] = "store"]
               /\ UNCHANGED claims
    BY <1>3 DEF CheckRegistration
  <2>2. stage[w] = "check" /\ UNCHANGED <<storeVars, historyVars>>
    BY <1>3 DEF CheckRegistration
  <2>3. CASE StillRegistered(c)
    <3> DEFINE found == [c EXCEPT !.token = registration[c.effect[2]].token]
    <3>1. Attempt(found) = Attempt(c)
      BY <1>0 DEF Attempt, Claim
    <3>2. /\ claims' = [claims EXCEPT ![w] = {found}] /\ writes' = writes
          /\ stage' = [stage EXCEPT ![w] = "send"]
      BY <2>1, <2>3
    <3> HIDE DEF found
    <3>3. Quiet
      BY <1>0, <2>2, <3>1, <3>2 DEF Quiet, OneEach, storeVars, historyVars
    <3> QED
      BY <3>3 DEF StepKind
  <2>4. CASE ~StillRegistered(c)
    <3>1. Refraining(w)
      BY <1>0, <2>1, <2>2, <2>4 DEF Refraining, OthersKeep, storeVars, historyVars
    <3> QED
      BY <1>0, <3>1 DEF StepKind
  <2> QED
    BY <2>3, <2>4
<1> QED
  BY <1>0, <1>1, <1>2, <1>3 DEF RetryStep, StepKind
\* Asking the provider leaves one result to store for each claim, and an
\* attempt that got through is lost or about to be stored as accepted.
LEMMA SendKind ==
  ASSUME TypeInv, NEW w \in Worker, SendPush(w)
  PROVE  Sending(w)
<1>1. PICK answer \in Tickets(claims[w]) : \E through \in MayHaveReached(answer) :
        TakeAnswer(w, answer, through)
  BY DEF SendPush
<1>2. PICK through \in MayHaveReached(answer) : TakeAnswer(w, answer, through)
  BY <1>1
<1>3. /\ stage[w] = "send" /\ stage' = [stage EXCEPT ![w] = "store"]
      /\ UNCHANGED <<effect, claims>>
  BY DEF SendPush, storeVars
<1>4. stage \in [Worker -> Stage] /\ writes \in [Worker -> SUBSET Write]
  BY DEF TypeInv, DeliveryTypeOK
<1> DEFINE result(c) == [kind |-> "result", claim |-> c, status |-> FinalResult(c, answer[c])]
           refused   == {x \in claims[w] : answer[x] = "invalid_registration"}
           refusal(c) == [kind |-> "deactivate", claim |-> c, status |-> answer[c]]
<1>5. writes' = [writes EXCEPT ![w] =
        {result(c) : c \in claims[w]} \cup {refusal(c) : c \in refused}]
  BY <1>2 DEF TakeAnswer
<1>6. \A c \in claims[w] : /\ result(c).kind = "result" /\ result(c).claim = c
                           /\ refusal(c).kind = "deactivate" /\ refusal(c).claim = c
  OBVIOUS
<1>7. \A c \in claims[w] : answer[c] = "accepted" => result(c).status = "accepted"
  BY DEF FinalResult
<1>8. sends' = sends \cup claims[w] /\ reached' = reached \cup {Attempt(c) : c \in through}
      /\ lost' = lost \cup {Attempt(c) : c \in through \ {x \in claims[w] : answer[x] = "accepted"}}
      /\ rejected' = rejected \cup {<<c.effect[2], c.version>> : c \in refused}
  BY <1>2 DEF TakeAnswer
<1>9. through \subseteq claims[w]
  BY DEF Tickets, MayHaveReached
<1> HIDE DEF result, refusal
<1>10. writes'[w] = {result(c) : c \in claims[w]} \cup {refusal(c) : c \in refused}
  BY <1>4, <1>5
<1>11. OthersKeep(w) /\ stage'[w] = "store"
  BY <1>3, <1>4, <1>5 DEF OthersKeep
<1>12. \A x \in writes'[w] : x.claim \in claims[w]
  BY <1>6, <1>10
<1>13. \A x \in writes'[w] :
         x.kind = "deactivate" => <<x.claim.effect[2], x.claim.version>> \in rejected'
  BY <1>6, <1>8, <1>10
<1>14. \A x \in PendingResults(w)' : x = result(x.claim)
  BY <1>6, <1>10 DEF PendingResults
<1>15. ASSUME NEW p \in reached' \ reached
       PROVE  \E c \in claims[w] :
                /\ Attempt(c) = p
                /\ p \in lost' \/ \E x \in PendingResults(w)' : x.claim = c /\ x.status = "accepted"
  <2>1. PICK c \in through : Attempt(c) = p
    BY <1>8, <1>15
  <2>2. c \in claims[w] /\ result(c) \in PendingResults(w)'
    BY <1>6, <1>9, <1>10, <2>1 DEF PendingResults
  <2>3. CASE answer[c] = "accepted"
    BY <1>6, <1>7, <2>1, <2>2, <2>3
  <2>4. CASE answer[c] # "accepted"
    BY <1>8, <2>1, <2>2, <2>4
  <2> QED
    BY <2>3, <2>4
<1>16. reached \subseteq reached' /\ lost \subseteq lost' /\ rejected \subseteq rejected'
  BY <1>8
<1>17. \A x, y \in PendingResults(w)' : x.claim = y.claim => x = y
  BY <1>14
<1> QED
  BY <1>3, <1>8, <1>11, <1>12, <1>13, <1>15, <1>16, <1>17 DEF Sending

\* The writes of a worker, one at a time.
LEMMA WriteKinds ==
  ASSUME TypeInv, NEW w \in Worker, NEW x \in writes[w],
         StoreResult(w, x) \/ EndRegistration(w, x) \/ LoseWrite(w, x)
  PROVE  StepKind
<1>0. /\ claims \in [Worker -> SUBSET Claim] /\ stage \in [Worker -> Stage]
      /\ writes \in [Worker -> SUBSET Write]
  BY DEF TypeInv, DeliveryTypeOK
<1>1. AfterWrite(w, x)
  BY DEF StoreResult, EndRegistration, LoseWrite
<1>2. /\ OthersKeep(w) /\ writes'[w] = writes[w] \ {x}
      /\ \/ stage'[w] = stage[w] /\ claims'[w] = claims[w]
         \/ stage'[w] = "idle" /\ claims'[w] = {} /\ writes'[w] = {}
  <2>1. CASE writes[w] = {x}
    BY <1>0, <1>1, <2>1 DEF AfterWrite, OthersKeep
  <2>2. CASE writes[w] # {x}
    BY <1>0, <1>1, <2>2 DEF AfterWrite, OthersKeep
  <2> QED
    BY <2>1, <2>2
<1>3. CASE StoreResult(w, x)
  BY <1>2, <1>3 DEF StoreResult, Storing, PendingResults, StepKind, historyVars
<1>4. CASE EndRegistration(w, x)
  BY <1>2, <1>4 DEF EndRegistration, Dropping, PendingResults, StepKind, historyVars, storeVars
<1>5. CASE LoseWrite(w, x)
  <2>1. x.kind = "result" /\ Attempt(x.claim) \in reached => Attempt(x.claim) \in lost'
    BY <1>5 DEF LoseWrite, Unstored
  <2>2. lost \subseteq lost' /\ UNCHANGED <<effect, sends, reached, rejected>>
    BY <1>5 DEF LoseWrite, storeVars
  <2> QED
    BY <1>2, <2>1, <2>2 DEF Dropping, PendingResults, StepKind
<1> QED
  BY <1>3, <1>4, <1>5

\* Every step of the system is of one of the kinds.
LEMMA StepKinds == TypeInv /\ [Next]_vars => StepKind
<1> SUFFICES ASSUME TypeInv, [Next]_vars PROVE StepKind
  OBVIOUS
<1>0. /\ claims \in [Worker -> SUBSET Claim] /\ stage \in [Worker -> Stage]
      /\ writes \in [Worker -> SUBSET Write]
  BY DEF TypeInv, DeliveryTypeOK
<1>1. ASSUME NEW w \in Worker, Crash(w)
      PROVE  StepKind
  <2>1. /\ OthersKeep(w) /\ stage'[w] = "idle" /\ claims'[w] = {} /\ writes'[w] = {}
    BY <1>0, <1>1 DEF Crash, OthersKeep
  <2>2. \A x \in PendingResults(w) : Attempt(x.claim) \in reached => Attempt(x.claim) \in lost'
    BY <1>1 DEF Crash, Unstored, PendingResults
  <2>3. lost \subseteq lost' /\ UNCHANGED <<effect, sends, reached, rejected>>
    BY <1>1 DEF Crash, storeVars
  <2> QED
    BY <2>1, <2>2, <2>3 DEF Dropping, StepKind
<1>2. ASSUME NEW e \in Event, FailUpdate(e)
      PROVE  StepKind
  BY <1>2 DEF FailUpdate, Quiet, OneEach, StepKind, workerVars, historyVars
<1>3. ASSUME NEW e \in Effect, ExpireLease(e)
      PROVE  StepKind
  BY <1>3 DEF ExpireLease, Expiring, StepKind, workerVars, historyVars
<1>4. CASE UserStep \/ UNCHANGED vars
  BY <1>4 DEF UserStep, Quiet, OneEach, StepKind, vars, storeVars, workerVars, historyVars
<1>5. ASSUME NEW w \in Worker, SendPush(w)
      PROVE  StepKind
  BY <1>5, SendKind DEF StepKind
<1> QED
  BY <1>1, <1>2, <1>3, <1>4, <1>5, DispatchKinds, RetryKinds, WriteKinds DEF Next, SendStep
-----------------------------------------------------------------------------
\* The registration that a write will end had its token refused
PendingRejected ==
  \A w \in Worker : \A x \in writes[w] :
    x.kind = "deactivate" => <<x.claim.effect[2], x.claim.version>> \in rejected

\* What the provider refused stays on record.
LEMMA PendingRejectedStep ==
  ASSUME TypeInv, PendingRejected, [Next]_vars
  PROVE  PendingRejected' /\ rejected \subseteq rejected'
<1>1. StepKind
  BY StepKinds
<1>2. CASE Quiet \/ GivingUp \/ Expiring
  BY <1>2 DEF Quiet, GivingUp, Expiring, PendingRejected
<1>3. ASSUME NEW w \in Worker, Claiming(w) \/ Reclaiming(w)
      PROVE  PendingRejected' /\ rejected \subseteq rejected'
  BY <1>3 DEF Claiming, Reclaiming, PendingRejected
<1>4. ASSUME NEW w \in Worker, Refraining(w)
      PROVE  PendingRejected' /\ rejected \subseteq rejected'
  BY <1>4 DEF Refraining, OthersKeep, PendingRejected
<1>5. ASSUME NEW w \in Worker, Sending(w)
      PROVE  PendingRejected' /\ rejected \subseteq rejected'
  BY <1>5 DEF Sending, OthersKeep, PendingRejected
<1>6. ASSUME NEW w \in Worker, Dropping(w) \/ \E x \in PendingResults(w) : Storing(w, x)
      PROVE  PendingRejected' /\ rejected \subseteq rejected'
  BY <1>6 DEF Dropping, Storing, OthersKeep, PendingRejected
<1> QED
  BY <1>1, <1>2, <1>3, <1>4, <1>5, <1>6 DEF StepKind

\* Only users and the writes that end registrations touch registrations.
LEMMA WhoRegisters ==
  [Next]_vars => \/ UNCHANGED registrationVars
                 \/ UserStep
                 \/ \E w \in Worker : \E x \in writes[w] : EndRegistration(w, x)
BY DEF Next, vars, DispatchStep, RetryStep, SendStep, Materialize, ApplyPolicy,
       SelectRegistrations, ClaimDelivery, Scan, RetryClaim, CheckRegistration, SendPush,
       StoreResult, LoseWrite, Crash, FailUpdate, ExpireLease

\* A wanted registration ends with the generation the provider refused.
LEMMA OnlyRejectedEndsStep ==
  ASSUME TypeInv, PendingRejected, OnlyRejectedEnds, [Next]_vars
  PROVE  OnlyRejectedEnds'
<1>1. rejected \subseteq rejected'
  BY PendingRejectedStep
<1>2. registration \in [Device -> Registration]
  BY DEF TypeInv, DeliveryTypeOK, RegistrationTypeOK
<1>3. CASE UNCHANGED registrationVars
  BY <1>1, <1>3 DEF registrationVars, OnlyRejectedEnds
<1>4. CASE UserStep
  <2>1. ASSUME NEW d \in Device, NEW token \in Token, RegisterPushToken(d, token)
        PROVE  OnlyRejectedEnds'
    <3>1. registration'[d].active /\ \A x \in Device \ {d} : registration'[x] = registration[x]
      BY <1>2, <2>1 DEF RegisterPushToken
    <3>2. wanted' \subseteq wanted \cup {d} /\ wanted \subseteq Device
      BY <2>1 DEF RegisterPushToken, TypeInv, DeliveryTypeOK, RegistrationTypeOK
    <3> QED
      BY <1>1, <3>1, <3>2 DEF OnlyRejectedEnds
  <2>2. ASSUME NEW d \in Device, UnregisterPushToken(d)
        PROVE  OnlyRejectedEnds'
    <3>1. \A x \in Device \ {d} : registration'[x] = registration[x]
      BY <1>2, <2>2 DEF UnregisterPushToken
    <3>2. wanted' = wanted \ {d} /\ wanted \subseteq Device
      BY <2>2 DEF UnregisterPushToken, TypeInv, DeliveryTypeOK, RegistrationTypeOK
    <3> QED
      BY <1>1, <3>1, <3>2 DEF OnlyRejectedEnds
  <2> QED
    BY <1>4, <2>1, <2>2 DEF UserStep
<1>5. ASSUME NEW w \in Worker, NEW x \in writes[w], EndRegistration(w, x)
      PROVE  OnlyRejectedEnds'
  <2> DEFINE d == x.claim.effect[2]
  <2>1. /\ DeactivateRegistration(d, x.claim.token, x.claim.version)
        /\ <<d, x.claim.version>> \in rejected
    BY <1>5 DEF EndRegistration, PendingRejected
  <2>2. d \in Device
    BY DEF TypeInv, DeliveryTypeOK, Write, Claim, Effect
  <2> HIDE DEF d
  <2>3. wanted' = wanted
    BY <2>1 DEF DeactivateRegistration
  <2>4. CASE SameRegistration(registration[d], x.claim.token, x.claim.version)
    <3>1. /\ registration' = [registration EXCEPT ![d].active = FALSE, ![d].token = None]
          /\ registration[d].version = x.claim.version
      BY <2>1, <2>4 DEF DeactivateRegistration, SameRegistration
    <3>2. /\ registration'[d].version = registration[d].version
          /\ \A y \in Device \ {d} : registration'[y] = registration[y]
      BY <1>2, <2>2, <3>1 DEF Registration
    <3>3. wanted \subseteq Device
      BY DEF TypeInv, DeliveryTypeOK, RegistrationTypeOK
    <3> QED
      BY <1>1, <2>1, <2>3, <3>1, <3>2, <3>3 DEF OnlyRejectedEnds
  <2>5. CASE ~SameRegistration(registration[d], x.claim.token, x.claim.version)
    BY <1>1, <2>1, <2>3, <2>5 DEF DeactivateRegistration, OnlyRejectedEnds
  <2> QED
    BY <2>4, <2>5
<1> QED
  BY <1>3, <1>4, <1>5, WhoRegisters

\* A registration its user wants ends only when the provider refused a token of
\* that generation, however late the refusal is written and whatever the user
\* registered in between.
THEOREM RejectionsEnd == Spec => []OnlyRejectedEnds
<1>1. Init => PendingRejected /\ OnlyRejectedEnds
  <2> SUFFICES ASSUME Init PROVE PendingRejected /\ OnlyRejectedEnds
    OBVIOUS
  <2>1. \A d \in Device : registration[d].exists => registration[d].active
    <3>1. \A d \in Device :
            registration[d] \in {NoRegistration} \cup
              [exists: {TRUE}, active: {TRUE}, token: Token, version: {None}]
      BY DEF Init, InitRegistrations
    <3>2. \A r \in [exists: {TRUE}, active: {TRUE}, token: Token, version: {None}] :
            r.active = TRUE
      OBVIOUS
    <3>3. NoRegistration.exists = FALSE
      BY DEF NoRegistration
    <3> QED
      BY <3>1, <3>2, <3>3
  <2> QED
    BY <2>1 DEF Init, InitRegistrations, PendingRejected, OnlyRejectedEnds
<1>2. TypeInv /\ PendingRejected /\ OnlyRejectedEnds /\ [Next]_vars
        => PendingRejected' /\ OnlyRejectedEnds'
  BY PendingRejectedStep, OnlyRejectedEndsStep
<1> QED
  BY <1>1, <1>2, TypeInvariant, PTL DEF Spec
-----------------------------------------------------------------------------
\* Attempts are counted when they are claimed: each is one worker's, and sent
\* once.
Counted ==
  /\ \A e \in Effect : effect[e].status = "absent" => effect[e].attempts = 0
  /\ \A w \in Worker : \A c \in claims[w] :
       /\ c.attempt <= effect[c.effect].attempts
       /\ stage[w] # "store" /\ c.attempt > 0 => \A s \in sends : Attempt(s) # Attempt(c)
  /\ \A w, v \in Worker : \A c \in claims[w], d \in claims[v] :
       c.attempt > 0 /\ Attempt(c) = Attempt(d) => w = v
  /\ \A s \in sends : s.attempt \in 1..effect[s.effect].attempts

\* Types of what is compared
LEMMA CountTypes ==
  ASSUME TypeInv
  PROVE  /\ \A e \in Effect : effect[e] \in EffectDoc /\ effect[e].attempts \in Nat
         /\ \A w \in Worker : \A c \in claims[w] : c \in Claim /\ c.attempt \in Nat
         /\ \A c \in sends : c \in Claim
         /\ \A c \in Claim : c.effect \in Effect /\ c.attempt \in Nat
         /\ \A c, d : Attempt(c) = Attempt(d) <=> c.effect = d.effect /\ c.attempt = d.attempt
BY DeliveryAssumption DEF TypeInv, DeliveryTypeOK, EffectDoc, Claim, Attempt

\* A step that claims nothing leaves the count of attempts alone.
LEMMA NoNewAttempt ==
  ASSUME TypeInv,
         \/ Quiet \/ GivingUp \/ Expiring
         \/ \E w \in Worker : Refraining(w) \/ Sending(w) \/ Dropping(w)
                              \/ \E x \in PendingResults(w) : Storing(w, x)
  PROVE  /\ \A e \in Effect : /\ effect'[e].attempts = effect[e].attempts
                              /\ effect'[e].status = "absent" => effect[e].status = "absent"
         /\ \A v \in Worker : \A c \in claims'[v] : c.attempt = 0 \/
              \E d \in claims[v] : /\ Attempt(d) = Attempt(c)
                                   /\ stage'[v] # "store" => stage[v] # "store"
<1> USE CountTypes
<1>1. CASE Quiet
  BY <1>1 DEF Quiet
<1>2. CASE GivingUp
  BY <1>2 DEF GivingUp, EffectDoc, TypeInv, DeliveryTypeOK
<1>3. CASE Expiring
  BY <1>3 DEF Expiring, EffectDoc, TypeInv, DeliveryTypeOK
<1>4. ASSUME NEW w \in Worker, Refraining(w) \/ Sending(w) \/ Dropping(w)
      PROVE  /\ effect' = effect
             /\ \A v \in Worker : \A c \in claims'[v] :
                  c \in claims[v] /\ (stage'[v] # "store" => stage[v] # "store")
  BY <1>4 DEF Refraining, Sending, Dropping, OthersKeep
<1>5. ASSUME NEW w \in Worker, NEW x \in PendingResults(w), Storing(w, x)
      PROVE  /\ \A e \in Effect : /\ effect'[e].attempts = effect[e].attempts
                                  /\ effect'[e].status = "absent" => effect[e].status = "absent"
             /\ \A v \in Worker : \A c \in claims'[v] :
                  c \in claims[v] /\ (stage'[v] # "store" => stage[v] # "store")
  <2>1. x.claim.effect \in Effect /\ x.status \in Result
    BY DEF PendingResults, TypeInv, DeliveryTypeOK, Write, Claim
  <2>2. effect' = [effect EXCEPT ![x.claim.effect].status = x.status] /\ x.status # "absent"
    BY <1>5, <2>1 DEF Storing, Result, Final
  <2>3. \A e \in Effect : /\ effect'[e].attempts = effect[e].attempts
                          /\ effect'[e].status = "absent" => effect[e].status = "absent"
    BY <2>1, <2>2 DEF EffectDoc, TypeInv, DeliveryTypeOK
  <2> QED
    BY <1>5, <2>3 DEF Storing, OthersKeep
<1> QED
  BY <1>1, <1>2, <1>3, <1>4, <1>5

\* Every step keeps the count.
LEMMA CountedStep ==
  ASSUME TypeInv, Counted, [Next]_vars
  PROVE  Counted'
<1> USE CountTypes
<1>0. StepKind /\ TypeInv'
  BY StepKinds, TypeStep
<1>1. CASE \/ Quiet \/ GivingUp \/ Expiring
           \/ \E w \in Worker : Refraining(w) \/ Dropping(w)
                                \/ \E x \in PendingResults(w) : Storing(w, x)
  <2>1. sends' = sends
    BY <1>1 DEF Quiet, GivingUp, Expiring, Refraining, Dropping, Storing
  <2>2. /\ \A e \in Effect : /\ effect'[e].attempts = effect[e].attempts
                             /\ effect'[e].status = "absent" => effect[e].status = "absent"
        /\ \A v \in Worker : \A c \in claims'[v] : c.attempt = 0 \/
             \E d \in claims[v] : /\ Attempt(d) = Attempt(c)
                                  /\ stage'[v] # "store" => stage[v] # "store"
    BY <1>1, NoNewAttempt
  <2>3. \A v \in Worker : \A c \in claims'[v] : c.effect \in Effect
    BY <1>0 DEF TypeInv, DeliveryTypeOK, Claim
  <2> QED
    BY <2>1, <2>2, <2>3 DEF Counted
<1>2. ASSUME NEW w \in Worker, Sending(w)
      PROVE  Counted'
  <2>1. effect' = effect /\ claims' = claims /\ sends' = sends \cup claims[w]
        /\ stage[w] = "send" /\ stage'[w] = "store"
        /\ \A v \in Worker \ {w} : stage'[v] = stage[v]
    BY <1>2 DEF Sending, OthersKeep
  <2>2. \A c \in claims[w] : c.attempt > 0
    BY <2>1 DEF TypeInv, ReadyToSend
  <2> QED
    BY <2>1, <2>2 DEF Counted
<1>3. ASSUME NEW w \in Worker, Claiming(w)
      PROVE  Counted'
  <2>1. PICK c \in claims[w] :
          /\ c.attempt = 0 /\ effect[c.effect].status = "absent"
          /\ claims'[w] = (claims[w] \ {c}) \cup {[c EXCEPT !.attempt = 1]}
          /\ effect' = [effect EXCEPT ![c.effect] =
               [status |-> "claimed", attempts |-> 1, version |-> c.version, lease |-> "held"]]
    BY <1>3 DEF Claiming
  <2> DEFINE claimed == [c EXCEPT !.attempt = 1]
  <2>2. claimed.effect = c.effect /\ claimed.attempt = 1 /\ c.effect \in Effect
    BY DEF Claim
  <2>3. /\ sends' = sends /\ stage[w] = "claim" /\ stage'[w] # "store"
        /\ \A v \in Worker \ {w} : claims'[v] = claims[v] /\ stage'[v] = stage[v]
        /\ claims'[w] = (claims[w] \ {c}) \cup {claimed}
    BY <1>3, <2>1 DEF Claiming, OthersKeep
  <2> HIDE DEF claimed
  <2>4. /\ effect'[c.effect].attempts = 1 /\ effect'[c.effect].status = "claimed"
        /\ effect[c.effect].attempts = 0
        /\ \A e \in Effect \ {c.effect} : effect'[e] = effect[e]
    BY <2>1, <2>2 DEF Counted, TypeInv, DeliveryTypeOK
  <2>5. /\ \A v \in Worker : \A d \in claims[v] : d.effect = c.effect => d.attempt = 0
        /\ \A s \in sends : s.effect # c.effect
    BY <2>2, <2>4 DEF Counted
  <2>6. \A v \in Worker : \A d \in claims'[v] : d \in claims[v] \/ (v = w /\ d = claimed)
    BY <2>3
  <2>7. \A e \in Effect : effect'[e].status = "absent" => effect'[e].attempts = 0
    BY <2>4 DEF Counted
  <2>8. \A v \in Worker : \A d \in claims'[v] :
          /\ d.attempt <= effect'[d.effect].attempts
          /\ stage'[v] # "store" /\ d.attempt > 0 => \A s \in sends' : Attempt(s) # Attempt(d)
    BY <2>2, <2>3, <2>4, <2>5, <2>6 DEF Counted
  <2>9. \A v, u \in Worker : \A d \in claims'[v], f \in claims'[u] :
          d.attempt > 0 /\ Attempt(d) = Attempt(f) => v = u
    BY <2>2, <2>5, <2>6 DEF Counted
  <2>10. \A s \in sends' : s.attempt \in 1..effect'[s.effect].attempts
    BY <2>3, <2>4, <2>5 DEF Counted
  <2> QED
    BY <2>7, <2>8, <2>9, <2>10 DEF Counted
<1>4. ASSUME NEW w \in Worker, Reclaiming(w)
      PROVE  Counted'
  <2>1. PICK e \in Effect :
          /\ effect[e].status \notin {"absent", "accepted", "invalid_registration"}
          /\ ~Exhausted(e) /\ ~InProgress(e)
          /\ effect' = [effect EXCEPT ![e] = ClaimAgain(@)]
          /\ claims'[w] = {[effect |-> e, attempt |-> effect[e].attempts + 1, token |-> None,
                            version |-> effect[e].version]}
    BY <1>4 DEF Reclaiming
  <2> DEFINE claimed == [effect |-> e, attempt |-> effect[e].attempts + 1, token |-> None,
                         version |-> effect[e].version]
  <2>2. claimed.effect = e /\ claimed.attempt = effect[e].attempts + 1
    OBVIOUS
  <2>3. /\ sends' = sends /\ claims'[w] = {claimed}
        /\ \A v \in Worker \ {w} : claims'[v] = claims[v] /\ stage'[v] = stage[v]
    BY <1>4, <2>1 DEF Reclaiming, OthersKeep
  <2> HIDE DEF claimed
  <2>4. effect[e].attempts + 1 \in 1..MaxAttempts
    BY <2>1, DeliveryAssumption DEF Exhausted, EffectDoc
  <2>5. /\ effect'[e].attempts = effect[e].attempts + 1 /\ effect'[e].status = "claimed"
        /\ \A f \in Effect \ {e} : effect'[f] = effect[f]
    BY <2>1, <2>4, ClaimAgainDoc DEF TypeInv, DeliveryTypeOK
  <2>6. \A v \in Worker : \A d \in claims'[v] : d \in claims[v] \/ (v = w /\ d = claimed)
    BY <2>3
  <2>7. /\ \A v \in Worker : \A d \in claims[v] : d.effect = e => d.attempt <= effect[e].attempts
        /\ \A s \in sends : s.effect = e => s.attempt <= effect[e].attempts
    BY DEF Counted
  <2>8. \A f \in Effect : effect'[f].status = "absent" => effect'[f].attempts = 0
    BY <2>5 DEF Counted
  <2>9. \A v \in Worker : \A d \in claims'[v] :
          /\ d.attempt <= effect'[d.effect].attempts
          /\ stage'[v] # "store" /\ d.attempt > 0 => \A s \in sends' : Attempt(s) # Attempt(d)
    BY <2>2, <2>3, <2>5, <2>6, <2>7 DEF Counted
  <2>10. \A v, u \in Worker : \A d \in claims'[v], f \in claims'[u] :
           d.attempt > 0 /\ Attempt(d) = Attempt(f) => v = u
    BY <2>2, <2>6, <2>7 DEF Counted
  <2>11. \A s \in sends' : s.attempt \in 1..effect'[s.effect].attempts
    BY <2>3, <2>5 DEF Counted
  <2> QED
    BY <2>8, <2>9, <2>10, <2>11 DEF Counted
<1> QED
  BY <1>0, <1>1, <1>2, <1>3, <1>4 DEF StepKind

\* No attempt is claimed in the beginning.
LEMMA CountedInit == Init => Counted
BY DEF Init, Counted, NoEffect

\* Attempts at an effect stay within those it was claimed for, and none is made
\* twice, whatever leases end and whichever workers overlap.
THEOREM AttemptsMadeOnce == Spec => []SendsWithinAttempts
<1>1. TypeInv /\ Counted => SendsWithinAttempts
  BY DEF Counted, SendsWithinAttempts, TypeInv, ReadyToSend
<1>2. TypeInv /\ Counted /\ [Next]_vars => Counted'
  BY CountedStep
<1> QED
  BY <1>1, <1>2, CountedInit, TypeInvariant, PTL DEF Spec
-----------------------------------------------------------------------------
\* Without invocations that outlive their leases, the claims whose outcome is
\* not stored yet hold the lease of their effect.
OpenClaims(w) ==
  {c \in claims[w] :
     c.attempt > 0 /\ (stage[w] # "store" \/ \E x \in PendingResults(w) : x.claim = c)}

\* A worker stores one outcome for each claim it has made
Batches ==
  /\ OneEach
  /\ \A w \in Worker :
       /\ \A x \in PendingResults(w) :
            stage[w] = "store" /\ x.claim \in claims[w] /\ x.claim.attempt > 0
       /\ \A x, y \in PendingResults(w) : x.claim = y.claim => x = y

\* An open claim is the last attempt at its effect, and no run may claim the
\* effect again.
HeldOpen(c) ==
  /\ c.attempt = effect[c.effect].attempts
  /\ \/ InProgress(c.effect)
     \/ effect[c.effect].status = "permanent_failure" /\ Exhausted(c.effect)

Leased == \A w \in Worker : \A c \in OpenClaims(w) : HeldOpen(c)

\* What got through and is known to have is the last attempt, recorded as
\* accepted or about to be.
Kept ==
  \A p \in reached :
    /\ p[2] <= effect[p[1]].attempts
    /\ p \notin lost =>
         /\ p[2] = effect[p[1]].attempts
         /\ \/ effect[p[1]].status = "accepted"
            \/ \E w \in Worker : \E x \in PendingResults(w) :
                 x.status = "accepted" /\ Attempt(x.claim) = p

\* A result that waits to be stored belongs to an open claim.
LEMMA PendingIsOpen ==
  ASSUME Batches, NEW w \in Worker, NEW x \in PendingResults(w)
  PROVE  x.claim \in OpenClaims(w)
BY DEF Batches, OpenClaims

\* Open claims of one effect are one claim.
LEMMA OneOpenClaim ==
  ASSUME TypeInv, Counted, Batches, Leased,
         NEW w \in Worker, NEW v \in Worker, NEW c \in OpenClaims(w), NEW d \in OpenClaims(v),
         c.effect = d.effect
  PROVE  w = v /\ c = d
<1>1. c \in claims[w] /\ d \in claims[v] /\ c.attempt > 0 /\ c.attempt = d.attempt
  BY DEF OpenClaims, Leased, HeldOpen
<1>2. w = v
  BY <1>1 DEF Counted, Attempt
<1> QED
  BY <1>1, <1>2 DEF Batches, OneEach

\* Every step keeps the batches.
LEMMA BatchesStep ==
  ASSUME TypeInv, Batches, [Next]_vars
  PROVE  Batches'
<1> USE CountTypes DEF Batches
<1>0. StepKind
  BY StepKinds
<1>1. CASE Quiet
  BY <1>1 DEF Quiet, PendingResults
<1>2. CASE GivingUp \/ Expiring
  BY <1>2 DEF GivingUp, Expiring, PendingResults, OneEach
<1>3. ASSUME NEW w \in Worker, Claiming(w)
      PROVE  Batches'
  <2>1. PICK c \in claims[w] : claims'[w] = (claims[w] \ {c}) \cup {[c EXCEPT !.attempt = 1]}
    BY <1>3 DEF Claiming
  <2> DEFINE claimed == [c EXCEPT !.attempt = 1]
  <2>2. claimed.effect = c.effect /\ claims'[w] = (claims[w] \ {c}) \cup {claimed}
    BY <2>1 DEF Claim
  <2> HIDE DEF claimed
  <2>3. OneEach'
    <3>1. \A d, f \in claims'[w] : d.effect = f.effect => d = f
      BY <2>2 DEF OneEach
    <3> QED
      BY <1>3, <3>1 DEF Claiming, OthersKeep, OneEach
  <2>4. \A v \in Worker : PendingResults(v)' = PendingResults(v)
    BY <1>3 DEF Claiming, PendingResults
  <2>5. PendingResults(w) = {}
    BY <1>3 DEF Claiming
  <2> QED
    BY <1>3, <2>3, <2>4, <2>5 DEF Claiming, OthersKeep
<1>4. ASSUME NEW w \in Worker, Reclaiming(w)
      PROVE  Batches'
  <2>1. OneEach'
    BY <1>4 DEF Reclaiming, OthersKeep, OneEach
  <2>2. \A v \in Worker : PendingResults(v)' = PendingResults(v)
    BY <1>4 DEF Reclaiming, PendingResults
  <2>3. PendingResults(w) = {}
    BY <1>4 DEF Reclaiming
  <2> QED
    BY <1>4, <2>1, <2>2, <2>3 DEF Reclaiming, OthersKeep
<1>5. ASSUME NEW w \in Worker, Refraining(w)
      PROVE  Batches'
  <2>1. OneEach'
    BY <1>5 DEF Refraining, OneEach
  <2>2. /\ \A v \in Worker \ {w} : PendingResults(v)' = PendingResults(v)
        /\ \E c \in claims[w] : \A x \in PendingResults(w)' :
             x = [kind |-> "result", claim |-> c, status |-> "permanent_failure"]
    BY <1>5 DEF Refraining, OthersKeep, PendingResults
  <2>3. \A c \in claims[w] : c.attempt > 0
    BY <1>5 DEF Refraining, TypeInv, ReadyToSend
  <2> QED
    BY <1>5, <2>1, <2>2, <2>3 DEF Refraining, OthersKeep
<1>6. ASSUME NEW w \in Worker, Sending(w)
      PROVE  Batches'
  <2>1. OneEach'
    BY <1>6 DEF Sending, OneEach
  <2>2. /\ \A v \in Worker \ {w} : PendingResults(v)' = PendingResults(v)
        /\ \A x \in PendingResults(w)' : x.claim \in claims[w]
    BY <1>6 DEF Sending, OthersKeep, PendingResults
  <2>3. \A c \in claims[w] : c.attempt > 0
    BY <1>6 DEF Sending, TypeInv, ReadyToSend
  <2> QED
    BY <1>6, <2>1, <2>2, <2>3 DEF Sending, OthersKeep
<1>7. ASSUME NEW w \in Worker, Dropping(w) \/ \E x \in PendingResults(w) : Storing(w, x)
      PROVE  Batches'
  <2>1. \A v \in Worker :
          \/ /\ PendingResults(v)' \subseteq PendingResults(v)
             /\ claims'[v] = claims[v] /\ stage'[v] = stage[v]
          \/ PendingResults(v)' = {} /\ claims'[v] = {}
    <3>1. \A v \in Worker \ {w} : /\ PendingResults(v)' = PendingResults(v)
                                 /\ claims'[v] = claims[v] /\ stage'[v] = stage[v]
      BY <1>7 DEF Dropping, Storing, OthersKeep, PendingResults
    <3>2. /\ writes'[w] \subseteq writes[w]
          /\ \/ stage'[w] = stage[w] /\ claims'[w] = claims[w]
             \/ claims'[w] = {} /\ writes'[w] = {}
      BY <1>7 DEF Dropping, Storing
    <3> QED
      BY <3>1, <3>2 DEF PendingResults
  <2> QED
    BY <2>1 DEF OneEach
<1> QED
  BY <1>0, <1>1, <1>2, <1>3, <1>4, <1>5, <1>6, <1>7 DEF StepKind
LeaseInv == TypeInv /\ Counted /\ Batches /\ Leased /\ Kept

\* An open claim of an effect that a step leaves alone is open as before.
LEMMA OpenAsBefore ==
  ASSUME TypeInv, Leased, NEW w \in Worker, NEW c \in OpenClaims(w)', NEW d \in OpenClaims(w),
         Attempt(d) = Attempt(c), effect'[c.effect] = effect[c.effect]
  PROVE  HeldOpen(c)'
BY CountTypes DEF Leased, HeldOpen, InProgress, Exhausted

\* A step that stores nothing opens only the claims it makes.
LEMMA OpenedClaims ==
  ASSUME TypeInv, Batches,
         \/ Quiet \/ GivingUp \/ Expiring
         \/ \E w \in Worker : \/ Refraining(w) \/ Sending(w) \/ Dropping(w)
                              \/ \E x \in PendingResults(w) : Storing(w, x)
  PROVE  \A v \in Worker : \A c \in OpenClaims(v)' :
           \E d \in OpenClaims(v) : Attempt(d) = Attempt(c)
<1>1. CASE Quiet
  <2> SUFFICES ASSUME NEW v \in Worker, NEW c \in OpenClaims(v)'
               PROVE  \E d \in OpenClaims(v) : Attempt(d) = Attempt(c)
    OBVIOUS
  <2>1. c \in claims'[v] /\ c.attempt > 0 /\ PendingResults(v)' = PendingResults(v)
    BY <1>1 DEF Quiet, OpenClaims, PendingResults
  <2>2. CASE stage[v] = "store"
    BY <1>1, <2>1, <2>2 DEF Quiet, OpenClaims
  <2>3. CASE stage[v] # "store"
    <3>1. c.attempt # 0
      BY <2>1
    <3>2. PICK d \in claims[v] : Attempt(d) = Attempt(c)
      BY <1>1, <2>1, <3>1 DEF Quiet
    <3> QED
      BY <2>1, <2>3, <3>2, CountTypes DEF OpenClaims
  <2> QED
    BY <2>2, <2>3
<1>2. CASE GivingUp \/ Expiring
  BY <1>2 DEF GivingUp, Expiring, OpenClaims, PendingResults
<1>3. ASSUME NEW w \in Worker, Refraining(w) \/ Sending(w)
      PROVE  \A v \in Worker : OpenClaims(v)' \subseteq OpenClaims(v)
  <2>1. claims' = claims /\ stage[w] # "store"
        /\ \A v \in Worker \ {w} : stage'[v] = stage[v] /\ writes'[v] = writes[v]
    BY <1>3 DEF Refraining, Sending, OthersKeep
  <2> QED
    BY <2>1 DEF OpenClaims, PendingResults
<1>4. ASSUME NEW w \in Worker, Dropping(w) \/ \E x \in PendingResults(w) : Storing(w, x)
      PROVE  \A v \in Worker : OpenClaims(v)' \subseteq OpenClaims(v)
  <2>1. \A v \in Worker \ {w} :
          claims'[v] = claims[v] /\ stage'[v] = stage[v] /\ writes'[v] = writes[v]
    BY <1>4 DEF Dropping, Storing, OthersKeep
  <2>2. /\ writes'[w] \subseteq writes[w]
        /\ \/ stage'[w] = stage[w] /\ claims'[w] = claims[w]
           \/ claims'[w] = {}
    BY <1>4 DEF Dropping, Storing
  <2> QED
    BY <2>1, <2>2 DEF OpenClaims, PendingResults
<1> QED
  BY <1>1, <1>2, <1>3, <1>4
\* Every step keeps the effects of open claims out of the reach of other runs.
LEMMA LeasedStep ==
  ASSUME LongCalls = FALSE, LeaseInv, [Next]_vars
  PROVE  Leased'
<1> USE CountTypes DEF LeaseInv
<1>0. StepKind
  BY StepKinds
<1> SUFFICES ASSUME NEW v \in Worker, NEW c \in OpenClaims(v)'
             PROVE  HeldOpen(c)'
  BY DEF Leased
<1>1. c.effect \in Effect /\ c.attempt > 0 /\ c \in claims'[v]
  BY TypeStep DEF OpenClaims, TypeInv, DeliveryTypeOK, Claim
<1>2. CASE Quiet
  <2>1. PICK d \in OpenClaims(v) : Attempt(d) = Attempt(c)
    BY <1>2, OpenedClaims
  <2> QED
    BY <1>2, <2>1, OpenAsBefore DEF Quiet
<1>3. ASSUME NEW w \in Worker, Refraining(w) \/ Sending(w) \/ Dropping(w)
      PROVE  HeldOpen(c)'
  <2>1. PICK d \in OpenClaims(v) : Attempt(d) = Attempt(c)
    BY <1>3, OpenedClaims
  <2> QED
    BY <1>3, <2>1, OpenAsBefore DEF Refraining, Sending, Dropping
<1>4. CASE GivingUp
  <2>1. PICK d \in OpenClaims(v) : Attempt(d) = Attempt(c)
    BY <1>4, OpenedClaims
  <2>2. PICK e \in Effect : /\ Exhausted(e)
                            /\ effect' = [effect EXCEPT ![e].status = "permanent_failure"]
    BY <1>4 DEF GivingUp
  <2>3. CASE c.effect = e
    <3>1. /\ effect'[e].status = "permanent_failure"
          /\ effect'[e].attempts = effect[e].attempts
      BY <2>2 DEF TypeInv, DeliveryTypeOK, EffectDoc
    <3>2. c.attempt = effect[e].attempts
      BY <2>1, <2>3 DEF Leased, HeldOpen
    <3> QED
      BY <2>2, <2>3, <3>1, <3>2 DEF HeldOpen, Exhausted
  <2>4. CASE c.effect # e
    BY <1>1, <2>1, <2>2, <2>4, OpenAsBefore DEF TypeInv, DeliveryTypeOK
  <2> QED
    BY <2>3, <2>4
<1>5. CASE Expiring
  <2>1. PICK d \in OpenClaims(v) : Attempt(d) = Attempt(c)
    BY <1>5, OpenedClaims
  <2>2. PICK e \in Effect :
          /\ \A u \in Worker : \A f \in claims[u] : f.effect = e => f.attempt = 0
          /\ effect' = [effect EXCEPT ![e].lease = "expired"]
    BY <1>5 DEF Expiring
  <2>3. c.effect # e
    BY <2>1, <2>2 DEF OpenClaims
  <2> QED
    BY <1>1, <2>1, <2>2, <2>3, OpenAsBefore DEF TypeInv, DeliveryTypeOK
<1>6. ASSUME NEW w \in Worker, NEW x \in PendingResults(w), Storing(w, x)
      PROVE  HeldOpen(c)'
  <2>1. PICK d \in OpenClaims(v) : Attempt(d) = Attempt(c)
    BY <1>6, OpenedClaims
  <2>2. effect' = [effect EXCEPT ![x.claim.effect].status = x.status]
    BY <1>6 DEF Storing
  <2>3. c \in OpenClaims(v)
    <3>1. CASE v = w
      BY <1>6, <3>1 DEF Storing, OpenClaims, PendingResults
    <3>2. CASE v # w
      BY <1>6, <3>2 DEF Storing, OthersKeep, OpenClaims, PendingResults
    <3> QED
      BY <3>1, <3>2
  <2>4. CASE c.effect = x.claim.effect
    <3>1. v = w /\ c = x.claim
      BY <2>3, <2>4, PendingIsOpen, OneOpenClaim
    <3>2. stage'[w] = "store"
      BY <1>1, <1>6, <3>1 DEF Storing, Batches
    <3>3. PICK y \in PendingResults(w)' : y.claim = c
      BY <3>1, <3>2 DEF OpenClaims
    <3>4. y \in PendingResults(w) /\ y # x
      BY <1>6, <3>3 DEF Storing, PendingResults
    <3> QED
      BY <3>1, <3>3, <3>4 DEF Batches
  <2>5. CASE c.effect # x.claim.effect
    BY <1>1, <2>1, <2>2, <2>5, OpenAsBefore DEF TypeInv, DeliveryTypeOK
  <2> QED
    BY <2>4, <2>5
<1>7. ASSUME NEW w \in Worker, Claiming(w)
      PROVE  HeldOpen(c)'
  <2>1. PICK b \in claims[w] :
          /\ b.attempt = 0 /\ effect[b.effect].status = "absent"
          /\ claims'[w] = (claims[w] \ {b}) \cup {[b EXCEPT !.attempt = 1]}
          /\ effect' = [effect EXCEPT ![b.effect] =
               [status |-> "claimed", attempts |-> 1, version |-> b.version, lease |-> "held"]]
    BY <1>7 DEF Claiming
  <2> DEFINE claimed == [b EXCEPT !.attempt = 1]
  <2>2. claimed.effect = b.effect /\ claimed.attempt = 1
        /\ claims'[w] = (claims[w] \ {b}) \cup {claimed}
    BY <2>1 DEF Claim
  <2> HIDE DEF claimed
  <2>3. c \in OpenClaims(v) \/ c = claimed
    <3>1. CASE v = w
      BY <1>1, <1>7, <2>2, <3>1 DEF Claiming, OpenClaims
    <3>2. CASE v # w
      BY <1>7, <3>2 DEF Claiming, OthersKeep, OpenClaims, PendingResults
    <3> QED
      BY <3>1, <3>2
  <2>4. CASE c = claimed
    <3>1. /\ effect'[b.effect].status = "claimed" /\ effect'[b.effect].lease = "held"
          /\ effect'[b.effect].attempts = 1
      BY <1>1, <2>1, <2>2, <2>4 DEF TypeInv, DeliveryTypeOK
    <3> QED
      BY <2>2, <2>4, <3>1 DEF HeldOpen, InProgress
  <2>5. CASE c \in OpenClaims(v)
    <3>1. c.effect # b.effect
      BY <2>1, <2>5 DEF Leased, HeldOpen, InProgress
    <3> QED
      BY <1>1, <2>1, <2>5, <3>1, OpenAsBefore DEF TypeInv, DeliveryTypeOK
  <2> QED
    BY <2>3, <2>4, <2>5
<1>8. ASSUME NEW w \in Worker, Reclaiming(w)
      PROVE  HeldOpen(c)'
  <2>1. PICK e \in Effect :
          /\ ~Exhausted(e) /\ ~InProgress(e)
          /\ effect' = [effect EXCEPT ![e] = ClaimAgain(@)]
          /\ claims'[w] = {[effect |-> e, attempt |-> effect[e].attempts + 1, token |-> None,
                            version |-> effect[e].version]}
    BY <1>8 DEF Reclaiming
  <2>2. CASE v = w
    <3>1. c.effect = e /\ c.attempt = effect[e].attempts + 1
      BY <1>1, <2>1, <2>2
    <3>2. effect[e].attempts + 1 \in 1..MaxAttempts
      BY <2>1, DeliveryAssumption DEF Exhausted, EffectDoc
    <3>3. /\ effect'[e].status = "claimed" /\ effect'[e].lease = "held"
          /\ effect'[e].attempts = effect[e].attempts + 1
      BY <2>1, <3>2, ClaimAgainDoc DEF TypeInv, DeliveryTypeOK
    <3> QED
      BY <3>1, <3>3 DEF HeldOpen, InProgress
  <2>3. CASE v # w
    <3>1. c \in OpenClaims(v)
      BY <1>8, <2>3 DEF Reclaiming, OthersKeep, OpenClaims, PendingResults
    <3>2. c.effect # e
      BY <2>1, <3>1 DEF Leased, HeldOpen
    <3> QED
      BY <1>1, <2>1, <3>1, <3>2, OpenAsBefore DEF TypeInv, DeliveryTypeOK
  <2> QED
    BY <2>2, <2>3
<1> QED
  BY <1>0, <1>2, <1>3, <1>4, <1>5, <1>6, <1>7, <1>8 DEF StepKind
\* The pending acceptance of an attempt
PendingAccepted(p) ==
  \E w \in Worker : \E x \in PendingResults(w) : x.status = "accepted" /\ Attempt(x.claim) = p

\* What an attempt that got through and is known to have relies on
KnownReached(p) ==
  p[2] = effect[p[1]].attempts /\ (effect[p[1]].status = "accepted" \/ PendingAccepted(p))

\* Kept, attempt by attempt.
LEMMA KeptDef ==
  Kept <=> \A p \in reached : p[2] <= effect[p[1]].attempts /\ (p \notin lost => KnownReached(p))
BY DEF Kept, KnownReached, PendingAccepted

\* Nothing stands between an acceptance and its effect: while it is pending,
\* the effect is held for it.
LEMMA PendingHeld ==
  ASSUME LeaseInv, NEW p, PendingAccepted(p)
  PROVE  effect[p[1]].status \in {"claimed", "permanent_failure"}
         /\ (Exhausted(p[1]) \/ InProgress(p[1]))
<1>0. PICK w \in Worker : \E x \in PendingResults(w) :
        x.status = "accepted" /\ Attempt(x.claim) = p
  BY DEF PendingAccepted
<1>1. PICK x \in PendingResults(w) : x.status = "accepted" /\ Attempt(x.claim) = p
  BY <1>0
<1>2. x.claim \in OpenClaims(w)
  BY PendingIsOpen DEF LeaseInv
<1>3. HeldOpen(x.claim) /\ x.claim.effect = p[1]
  BY <1>1, <1>2 DEF LeaseInv, Leased, Attempt
<1> QED
  BY <1>3 DEF HeldOpen, InProgress

\* Every step keeps what is known to have got through.
LEMMA KeptStep ==
  ASSUME LeaseInv, [Next]_vars
  PROVE  Kept'
<1> USE CountTypes DEF LeaseInv
<1>0. StepKind
  BY StepKinds
<1>1. \A p \in reached : /\ p[1] \in Effect /\ p[2] \in Nat /\ p[2] > 0
                         /\ p[2] <= effect[p[1]].attempts
                         /\ p \notin lost => KnownReached(p)
  BY KeptDef, DeliveryAssumption DEF TypeInv, DeliveryTypeOK
<1> SUFFICES ASSUME NEW p \in reached'
             PROVE  p[2] <= effect'[p[1]].attempts /\ (p \notin lost' => KnownReached(p)')
  BY DEF Kept, KnownReached, PendingAccepted
<1>2. CASE Quiet
  BY <1>1, <1>2 DEF Quiet, KnownReached, PendingAccepted, PendingResults
<1>3. CASE GivingUp
  <2>1. PICK e \in Effect : /\ effect[e].status # "accepted"
                            /\ effect' = [effect EXCEPT ![e].status = "permanent_failure"]
    BY <1>3 DEF GivingUp
  <2>2. UNCHANGED <<reached, lost>> /\ (PendingAccepted(p)' <=> PendingAccepted(p))
    BY <1>3 DEF GivingUp, PendingAccepted, PendingResults
  <2>3. \A f \in Effect : /\ effect'[f].attempts = effect[f].attempts
                          /\ f # e => effect'[f].status = effect[f].status
    BY <2>1 DEF TypeInv, DeliveryTypeOK, EffectDoc
  <2> QED
    BY <1>1, <2>1, <2>2, <2>3 DEF KnownReached
<1>4. CASE Expiring
  <2>1. PICK e \in Effect : effect' = [effect EXCEPT ![e].lease = "expired"]
    BY <1>4 DEF Expiring
  <2>2. UNCHANGED <<reached, lost>> /\ (PendingAccepted(p)' <=> PendingAccepted(p))
    BY <1>4 DEF Expiring, PendingAccepted, PendingResults
  <2>3. \A f \in Effect : /\ effect'[f].attempts = effect[f].attempts
                          /\ effect'[f].status = effect[f].status
    BY <2>1 DEF TypeInv, DeliveryTypeOK, EffectDoc
  <2> QED
    BY <1>1, <2>2, <2>3 DEF KnownReached
<1>5. ASSUME NEW w \in Worker, Claiming(w)
      PROVE  p[2] <= effect'[p[1]].attempts /\ (p \notin lost' => KnownReached(p)')
  <2>1. PICK c \in claims[w] :
          /\ effect[c.effect].status = "absent"
          /\ effect' = [effect EXCEPT ![c.effect] =
               [status |-> "claimed", attempts |-> 1, version |-> c.version, lease |-> "held"]]
    BY <1>5 DEF Claiming
  <2>2. UNCHANGED <<reached, lost>> /\ (PendingAccepted(p)' <=> PendingAccepted(p))
    BY <1>5 DEF Claiming, PendingAccepted, PendingResults
  <2>3. p[1] # c.effect
    BY <1>1, <2>1, <2>2 DEF Counted
  <2>4. effect'[p[1]] = effect[p[1]]
    BY <1>1, <2>1, <2>2, <2>3 DEF TypeInv, DeliveryTypeOK
  <2> QED
    BY <1>1, <2>2, <2>4 DEF KnownReached
<1>6. ASSUME NEW w \in Worker, Reclaiming(w)
      PROVE  p[2] <= effect'[p[1]].attempts /\ (p \notin lost' => KnownReached(p)')
  <2>1. PICK e \in Effect : /\ effect[e].status # "accepted" /\ ~Exhausted(e) /\ ~InProgress(e)
                            /\ effect' = [effect EXCEPT ![e] = ClaimAgain(@)]
    BY <1>6 DEF Reclaiming
  <2>2. UNCHANGED <<reached, lost>> /\ (PendingAccepted(p)' <=> PendingAccepted(p))
    BY <1>6 DEF Reclaiming, PendingAccepted, PendingResults
  <2>3. CASE p[1] = e
    <3>1. p \in lost
      BY <1>1, <2>1, <2>2, <2>3, PendingHeld DEF KnownReached
    <3>2. effect[e].attempts + 1 \in 1..MaxAttempts
      BY <2>1, DeliveryAssumption DEF Exhausted, EffectDoc
    <3>3. effect'[e].attempts = effect[e].attempts + 1
      BY <2>1, <3>2, ClaimAgainDoc DEF TypeInv, DeliveryTypeOK
    <3> QED
      BY <1>1, <2>2, <2>3, <3>1, <3>3
  <2>4. CASE p[1] # e
    <3>1. effect'[p[1]] = effect[p[1]]
      BY <1>1, <2>1, <2>2, <2>4 DEF TypeInv, DeliveryTypeOK
    <3> QED
      BY <1>1, <2>2, <3>1 DEF KnownReached
  <2> QED
    BY <2>3, <2>4
<1>7. ASSUME NEW w \in Worker, Refraining(w)
      PROVE  p[2] <= effect'[p[1]].attempts /\ (p \notin lost' => KnownReached(p)')
  <2>1. UNCHANGED <<effect, reached, lost>>
        /\ \A v \in Worker \ {w} : PendingResults(v)' = PendingResults(v)
    BY <1>7 DEF Refraining, OthersKeep, PendingResults
  <2>2. PendingResults(w) = {}
    BY <1>7 DEF Refraining, Batches
  <2>3. PendingAccepted(p) => PendingAccepted(p)'
    BY <2>1, <2>2 DEF PendingAccepted
  <2> QED
    BY <1>1, <2>1, <2>3 DEF KnownReached
<1>8. ASSUME NEW w \in Worker, Sending(w)
      PROVE  p[2] <= effect'[p[1]].attempts /\ (p \notin lost' => KnownReached(p)')
  <2>1. /\ effect' = effect /\ lost \subseteq lost' /\ stage[w] = "send"
        /\ \A v \in Worker \ {w} : PendingResults(v)' = PendingResults(v)
    BY <1>8 DEF Sending, OthersKeep, PendingResults
  <2>2. CASE p \in reached
    <3>1. PendingResults(w) = {}
      BY <2>1 DEF Batches
    <3>2. PendingAccepted(p) => PendingAccepted(p)'
      BY <2>1, <3>1 DEF PendingAccepted
    <3> QED
      BY <1>1, <2>1, <2>2, <3>2 DEF KnownReached
  <2>3. CASE p \notin reached
    <3>1. PICK c \in claims[w] :
            /\ Attempt(c) = p
            /\ p \in lost' \/ \E x \in PendingResults(w)' : x.claim = c /\ x.status = "accepted"
      BY <1>8, <2>3 DEF Sending
    <3>2. c \in OpenClaims(w)
      BY <2>1 DEF OpenClaims, TypeInv, ReadyToSend
    <3>3. p[1] = c.effect /\ p[2] = c.attempt /\ c.attempt = effect[c.effect].attempts
      BY <3>1, <3>2 DEF Attempt, Leased, HeldOpen
    <3>4. p \notin lost' => PendingAccepted(p)'
      BY <3>1 DEF PendingAccepted
    <3> QED
      BY <2>1, <3>3, <3>4 DEF KnownReached
  <2> QED
    BY <2>2, <2>3
<1>9. ASSUME NEW w \in Worker, NEW x \in PendingResults(w), Storing(w, x)
      PROVE  p[2] <= effect'[p[1]].attempts /\ (p \notin lost' => KnownReached(p)')
  <2> DEFINE e == x.claim.effect
  <2>1. x.claim \in OpenClaims(w) /\ e \in Effect
    BY PendingIsOpen DEF OpenClaims
  <2>2. /\ UNCHANGED <<reached, lost>>
        /\ effect' = [effect EXCEPT ![e].status = x.status]
        /\ \A v \in Worker : \A y \in PendingResults(v) : y # x => y \in PendingResults(v)'
    BY <1>9 DEF Storing, OthersKeep, PendingResults
  <2>3. \A f \in Effect : /\ effect'[f].attempts = effect[f].attempts
                          /\ f # e => effect'[f] = effect[f]
    BY <2>2 DEF TypeInv, DeliveryTypeOK, EffectDoc
  <2>4. effect'[e].status = x.status
    BY <2>1, <2>2 DEF TypeInv, DeliveryTypeOK, EffectDoc
  <2>5. ASSUME NEW v \in Worker, NEW y \in PendingResults(v), y.claim.effect = e
        PROVE  y = x
    <3>1. y.claim \in OpenClaims(v)
      BY PendingIsOpen
    <3>2. v = w /\ y.claim = x.claim
      BY <2>1, <2>5, <3>1, OneOpenClaim
    <3> QED
      BY <3>2 DEF Batches
  <2> HIDE DEF e
  <2>6. CASE p[1] = e
    <3>1. p \notin lost => x.status = "accepted"
      <4>1. effect[e].status # "accepted"
        BY <2>1 DEF Leased, HeldOpen, InProgress, e
      <4>2. PendingAccepted(p) => x.status = "accepted"
        BY <2>5, <2>6 DEF PendingAccepted, Attempt
      <4> QED
        BY <1>1, <2>2, <2>6, <4>1, <4>2 DEF KnownReached
    <3> QED
      BY <1>1, <2>1, <2>2, <2>3, <2>4, <2>6, <3>1 DEF KnownReached
  <2>7. CASE p[1] # e
    <3>1. PendingAccepted(p) => PendingAccepted(p)'
      BY <2>2, <2>7 DEF PendingAccepted, Attempt, e
    <3> QED
      BY <1>1, <2>2, <2>3, <2>7, <3>1 DEF KnownReached
  <2> QED
    BY <2>6, <2>7
<1>10. ASSUME NEW w \in Worker, Dropping(w)
       PROVE  p[2] <= effect'[p[1]].attempts /\ (p \notin lost' => KnownReached(p)')
  <2>1. /\ UNCHANGED <<effect, reached>> /\ lost \subseteq lost'
        /\ \A v \in Worker \ {w} : PendingResults(v)' = PendingResults(v)
        /\ \A x \in PendingResults(w) : \/ x \in PendingResults(w)'
                                        \/ Attempt(x.claim) \notin reached
                                        \/ Attempt(x.claim) \in lost'
    BY <1>10 DEF Dropping, OthersKeep, PendingResults
  <2>2. p \notin lost' /\ PendingAccepted(p) => PendingAccepted(p)'
    BY <2>1 DEF PendingAccepted
  <2> QED
    BY <1>1, <2>1, <2>2 DEF KnownReached
<1> QED
  BY <1>0, <1>2, <1>3, <1>4, <1>5, <1>6, <1>7, <1>8, <1>9, <1>10 DEF StepKind
\* The leases keep workers apart throughout.
LEMMA LeaseInvariant ==
  ASSUME LongCalls = FALSE
  PROVE  Spec => []LeaseInv
<1>1. Init => Batches /\ Leased /\ Kept
  BY DEF Init, Batches, OneEach, Leased, Kept, OpenClaims, PendingResults
<1>2. LeaseInv /\ [Next]_vars => LeaseInv'
  BY TypeStep, CountedStep, BatchesStep, LeasedStep, KeptStep DEF LeaseInv
<1> QED
  BY <1>1, <1>2, TypeInit, CountedInit, PTL DEF Spec, LeaseInv

\* While invocations end before their leases, a push that got through is
\* repeated only if the answer was lost with its worker or on the way, for any
\* number of retry runs that overlap and die.
THEOREM RepeatsAreLosses ==
  ASSUME LongCalls = FALSE
  PROVE  Spec => []RepeatsNeedLoss
<1>1. LeaseInv => RepeatsNeedLoss
  <2> SUFFICES ASSUME LeaseInv, NEW x \in reached, NEW y \in reached,
                      x[1] = y[1], x[2] < y[2], x \notin lost
               PROVE  FALSE
    BY DEF RepeatsNeedLoss
  <2>1. x[2] = effect[x[1]].attempts /\ y[2] <= effect[x[1]].attempts
    BY DEF LeaseInv, Kept
  <2>2. x[2] \in Nat /\ y[2] \in Nat
    BY DeliveryAssumption DEF LeaseInv, TypeInv, DeliveryTypeOK
  <2> QED
    BY <2>1, <2>2
<1> QED
  BY <1>1, LeaseInvariant, PTL

\* Under the same condition no late outcome replaces an acceptance.
THEOREM AcceptancesStand ==
  ASSUME LongCalls = FALSE
  PROVE  Spec => AcceptedStands
<1>1. LeaseInv /\ [Next]_vars =>
        [\A e \in Effect : effect[e].status = "accepted" => effect'[e].status = "accepted"]_vars
  <2> SUFFICES ASSUME LeaseInv, [Next]_vars, NEW e \in Effect, effect[e].status = "accepted"
               PROVE  effect'[e].status = "accepted"
    OBVIOUS
  <2> USE DEF LeaseInv, TypeInv, DeliveryTypeOK
  <2>1. StepKind
    BY StepKinds
  <2>2. CASE Quiet
    BY <2>2 DEF Quiet
  <2>3. CASE GivingUp
    BY <2>3 DEF GivingUp
  <2>4. CASE Expiring
    BY <2>4 DEF Expiring, EffectDoc
  <2>5. ASSUME NEW w \in Worker, Claiming(w)
        PROVE  effect'[e].status = "accepted"
    <3>1. PICK c \in claims[w] :
            /\ effect[c.effect].status = "absent"
            /\ effect' = [effect EXCEPT ![c.effect] =
                 [status |-> "claimed", attempts |-> 1, version |-> c.version, lease |-> "held"]]
      BY <2>5 DEF Claiming
    <3> QED
      BY <3>1
  <2>6. ASSUME NEW w \in Worker, Reclaiming(w)
        PROVE  effect'[e].status = "accepted"
    <3>1. PICK f \in Effect : /\ effect[f].status # "accepted"
                              /\ effect' = [effect EXCEPT ![f] = ClaimAgain(@)]
      BY <2>6 DEF Reclaiming
    <3> QED
      BY <3>1
  <2>7. ASSUME NEW w \in Worker, Refraining(w) \/ Sending(w) \/ Dropping(w)
        PROVE  effect'[e].status = "accepted"
    BY <2>7 DEF Refraining, Sending, Dropping
  <2>8. ASSUME NEW w \in Worker, NEW x \in PendingResults(w), Storing(w, x)
        PROVE  effect'[e].status = "accepted"
    <3>1. HeldOpen(x.claim)
      BY PendingIsOpen DEF Leased
    <3>2. x.claim.effect # e
      BY <3>1 DEF HeldOpen, InProgress
    <3> QED
      BY <2>8, <3>2 DEF Storing
  <2> QED
    BY <2>1, <2>2, <2>3, <2>4, <2>5, <2>6, <2>7, <2>8 DEF StepKind
<1> QED
  BY <1>1, LeaseInvariant, PTL DEF Spec, AcceptedStands

\* A claim is settled by the worker that holds it, as long as its lease lasts
\* and the allowance is not used up.  (The last attempt may be given up by a run
\* with an older list of candidates: retryDelivery looks at the allowance before
\* it looks at the lease.)
ClaimsRespected ==
  [][\A e \in Effect :
       InProgress(e) /\ ~Exhausted(e) /\ effect'[e].status # "claimed" =>
         \E w \in Worker : \E x \in writes[w] :
           x.claim.effect = e /\ x.claim.attempt = effect[e].attempts /\ x \notin writes'[w]]_vars

\* What lifecycleNotifications.test.ts says of active claims (a run that finds
\* one skips it) holds of every attempt but the last, when invocations end
\* before their leases: so the order of the two tests in retryDelivery is the
\* only reason why it does not hold of the last.
THEOREM ClaimsAreRespected ==
  ASSUME LongCalls = FALSE
  PROVE  Spec => ClaimsRespected
<1> DEFINE Settled(e) ==
      \E w \in Worker : \E x \in writes[w] :
        x.claim.effect = e /\ x.claim.attempt = effect[e].attempts /\ x \notin writes'[w]
<1>1. LeaseInv /\ [Next]_vars =>
        [\A e \in Effect :
           InProgress(e) /\ ~Exhausted(e) /\ effect'[e].status # "claimed" => Settled(e)]_vars
  <2> SUFFICES ASSUME LeaseInv, [Next]_vars, NEW e \in Effect,
                      effect[e].status = "claimed", ~Exhausted(e), effect'[e].status # "claimed"
               PROVE  Settled(e)
    BY DEF InProgress
  <2> USE DEF LeaseInv, TypeInv, DeliveryTypeOK
  <2>1. StepKind
    BY StepKinds
  <2>2. ~Quiet
    BY DEF Quiet
  <2>3. ~GivingUp
    BY DEF GivingUp
  <2>4. ~Expiring
    BY DEF Expiring, EffectDoc
  <2>5. ASSUME NEW w \in Worker, Claiming(w)
        PROVE  FALSE
    BY <2>5 DEF Claiming
  <2>6. ASSUME NEW w \in Worker, Reclaiming(w)
        PROVE  FALSE
    BY <2>6 DEF Reclaiming, ClaimAgain, EffectDoc
  <2>7. ASSUME NEW w \in Worker, Refraining(w) \/ Sending(w) \/ Dropping(w)
        PROVE  FALSE
    BY <2>7 DEF Refraining, Sending, Dropping
  <2>8. ASSUME NEW w \in Worker, NEW x \in PendingResults(w), Storing(w, x)
        PROVE  Settled(e)
    <3>1. x.claim.effect = e
      BY <2>8 DEF Storing
    <3>2. HeldOpen(x.claim)
      BY PendingIsOpen DEF Leased
    <3>3. x \in writes[w] /\ x \notin writes'[w]
      BY <2>8 DEF Storing, PendingResults
    <3> QED
      BY <3>1, <3>2, <3>3 DEF HeldOpen
  <2> QED
    BY <2>1, <2>2, <2>3, <2>4, <2>5, <2>6, <2>7, <2>8 DEF StepKind
<1> QED
  BY <1>1, LeaseInvariant, PTL DEF Spec, ClaimsRespected
=============================================================================
