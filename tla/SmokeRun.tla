------------------------------ MODULE SmokeRun -------------------------------
(***************************************************************************)
(* The live smoke of the deployed safety callables.  The tool makes        *)
(* temporary accounts, shipments, a hold and a review in the development   *)
(* project, checks what the callables did, and deletes what it made: also  *)
(* when a step fails, and then only what it knows of.                      *)
(***************************************************************************)
EXTENDS Naturals, Sequences, FiniteSets

Account == {"userUid", "operationsAdminUid", "safetyAdminUid"}
Admin == Account \ {"userUid"}
Document == {"releaseShipment", "releaseHold", "placeAudit", "releaseAudit",
             "safetyShipment", "safetyReview", "safetyReviewAudit"}
Resource == Account \cup Document

\* The steps that change something, in their order: what each makes.  The
\* accounts' claims are set after both sign-ups; readings, refused requests and
\* repeated ones change nothing and are part of the step they follow.
Steps == <<
    {"userUid"}, {"operationsAdminUid"}, {"safetyAdminUid"}, {"releaseShipment"},
    {"releaseHold", "placeAudit"}, {"releaseAudit"}, {"safetyShipment"},
    {"safetyReview", "safetyReviewAudit"} >>

\* cleanupCreatedResources: the order of deletion.
Order == << "safetyReviewAudit", "safetyReview", "releaseAudit", "placeAudit", "releaseHold",
            "safetyShipment", "releaseShipment", "safetyAdminUid", "operationsAdminUid",
            "userUid" >>

VARIABLES exists,    \* what the run has made and not deleted
          roles,     \* accounts that have an administrator's claim
          resources, \* what the run knows of
          next,      \* the next step of the run, or of the clean-up
          phase,
          failed,    \* a step failed
          unanswered,\* history: made by a call whose answer was lost
          report     \* what the clean-up says of each resource

vars == <<exists, roles, resources, next, phase, failed, unanswered, report>>

TypeOK ==
    /\ exists \subseteq Resource /\ roles \subseteq exists /\ roles \subseteq Admin
    /\ resources \subseteq Resource /\ unanswered \subseteq Resource
    /\ phase \in {"running", "cleanup", "succeeded", "ended", "killed"}
    /\ next \in 1..Len(Order) + 1 /\ failed \in BOOLEAN
    /\ report \in [Resource -> {"none", "deleted", "skipped", "failed"}]

Init ==
    /\ exists = {} /\ roles = {} /\ resources = {} /\ next = 1 /\ phase = "running"
    /\ failed = FALSE /\ unanswered = {} /\ report = [r \in Resource |-> "none"]

Makes(made) == exists' = exists \cup made

\* createPrivilegedSession: an account that signed up is given its claim.
Privileged(made) == roles \cup (made \cap Admin)

StepMutant ==
    /\ phase = "running"
    /\ Makes(Steps[next])
    /\ resources' = resources \cup (Steps[next] \ {"placeAudit"})
    /\ roles' = Privileged(Steps[next])
    /\ IF next < Len(Steps) THEN next' = next + 1 /\ UNCHANGED phase
       ELSE next' = 1 /\ phase' = "cleanup"
    /\ UNCHANGED <<failed, unanswered, report>>

\* A step works and what the callable answered is as expected.
Step ==
    /\ phase = "running"
    /\ Makes(Steps[next])
    /\ resources' = resources \cup Steps[next]
    /\ roles' = Privileged(Steps[next])
    /\ IF next < Len(Steps) THEN next' = next + 1 /\ UNCHANGED phase
       ELSE next' = 1 /\ phase' = "cleanup"
    /\ UNCHANGED <<failed, unanswered, report>>

\* A step fails: before it changed anything, after (the answer is lost), or in
\* what follows it once its result is known (claims, readings, repetitions).
StepFails ==
    /\ phase = "running"
    /\ \/ UNCHANGED <<exists, roles, resources, unanswered>>
       \/ /\ Makes(Steps[next]) /\ unanswered' = unanswered \cup Steps[next]
          /\ UNCHANGED <<roles, resources>>
       \/ /\ Makes(Steps[next]) /\ resources' = resources \cup Steps[next]
          /\ roles' \in {roles, Privileged(Steps[next])}
          /\ UNCHANGED unanswered
    /\ failed' = TRUE /\ next' = 1 /\ phase' = "cleanup"
    /\ UNCHANGED report

\* isCurrentRunSmokeId, and what is needed to recognise the document.
Known(r) ==
    /\ r \in resources
    /\ r \in {"placeAudit", "releaseHold"} => "releaseShipment" \in resources
    /\ r = "releaseAudit" => "releaseHold" \in resources
    /\ r \in {"safetyReview", "safetyReviewAudit"} => "safetyShipment" \in resources

\* Documents are read, compared, deleted and read again; an account loses its
\* claims and its tokens before it is deleted.  The first failure ends it.
Delete(r) ==
    \/ report' = [report EXCEPT ![r] = "deleted"]
       /\ exists' = exists \ {r} /\ roles' = roles \ {r}
    \/ report' = [report EXCEPT ![r] = "failed"]
       /\ roles' \in {roles, roles \ {r}}
       /\ exists' \in {exists} \cup (IF r \in roles' THEN {} ELSE {exists \ {r}})

\* cleanupCreatedResources goes on after a failure.
Cleanup ==
    /\ phase = "cleanup"
    /\ LET r == Order[next] IN
       IF Known(r) THEN Delete(r)
       ELSE report' = [report EXCEPT ![r] = "skipped"] /\ UNCHANGED <<exists, roles>>
    /\ next' = next + 1
    /\ phase' = IF next < Len(Order) THEN phase
                ELSE IF failed \/ \E r \in Resource : report'[r] = "failed"
                THEN "ended" ELSE "succeeded"
    /\ UNCHANGED <<resources, failed, unanswered>>

\* The operator interrupts the tool.
Kill ==
    /\ phase \in {"running", "cleanup"}
    /\ phase' = "killed"
    /\ UNCHANGED <<exists, roles, resources, next, failed, unanswered, report>>

Next == Step \/ StepFails \/ Cleanup \/ Kill

Spec == Init /\ [][Next]_vars

(***************************************************************************)
(* Properties.                                                             *)
(***************************************************************************)
\* A run that reports success has left nothing in the project, and what it
\* says it deleted it made.
SuccessLeavesNothing ==
    phase = "succeeded" =>
        exists = {} /\ \A r \in Resource : report[r] = "deleted"

\* Whatever a run leaves that was not interrupted, one failure after another,
\* it has reported, unless the answer to the call that made it was lost.
LeftIsReported ==
    phase = "ended" =>
        \A r \in exists : report[r] = "failed" \/ r \in unanswered

\* An account that keeps an administrator's claim is one that the clean-up
\* reported: accounts whose sign-up was not answered were never given one.
NoSilentAdministrator ==
    phase = "ended" => \A a \in roles : report[a] = "failed"

SmokeLeavesNothing == SuccessLeavesNothing /\ LeftIsReported /\ NoSilentAdministrator
=============================================================================
