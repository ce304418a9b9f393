--------------------------- MODULE OfflineStatus ----------------------------
(***************************************************************************)
(* FirebaseOfflineStatusGateway: what the application says about writes    *)
(* that Firestore has not acknowledged, while the network comes and goes,  *)
(* writes begin and end in any order and a sync may be running.            *)
(***************************************************************************)
EXTENDS Naturals, FiniteSets

CONSTANT Write   \* writes that can be under way at one time

OfflineStatusAssumption == IsFiniteSet(Write)

VARIABLES network,        \* the network itself
          firstRead,      \* the reading asked for at the start, until it comes
          connection,     \* status.connection
          writes,         \* the tracked operations and whether their timer went off
          pendingWrites,  \* status.pendingWrites
          lastError,      \* status.lastError is set
          slowPending,
          phase,          \* status.phase
          sync            \* syncPromise, and the writes it waits for

vars == <<network, firstRead, connection, writes, pendingWrites, lastError,
          slowPending, phase, sync>>

NoSync == [running |-> FALSE, awaits |-> {}]
Waiting == {w \in Write : writes[w] # "idle"}

TypeOK ==
    /\ network \in {"online", "offline"}
    /\ firstRead \in {"online", "offline", "none"}
    /\ connection \in {"online", "offline", "unknown"}
    /\ writes \in [Write -> {"idle", "waiting", "slow"}]
    /\ pendingWrites = Cardinality(Waiting)
    /\ lastError \in BOOLEAN /\ slowPending \in BOOLEAN
    /\ phase \in {"error", "offline", "pending", "synced", "syncing"}
    /\ sync \in [running : BOOLEAN, awaits : SUBSET Write]
    /\ sync.awaits \subseteq Waiting

Init ==
    /\ network \in {"online", "offline"} /\ firstRead = network
    /\ connection = "unknown" /\ writes = [w \in Write |-> "idle"]
    /\ pendingWrites = 0 /\ lastError = FALSE /\ slowPending = FALSE
    /\ phase = "synced" /\ sync = NoSync

Phase(error, conn, pending, slow) ==
    CASE error            -> "error"
      [] ~error /\ conn = "offline" -> "offline"
      [] ~error /\ conn # "offline" /\ pending > 0 -> IF slow THEN "pending" ELSE "syncing"
      [] OTHER            -> "synced"

refreshPhase == phase' = Phase(lastError', connection', pendingWrites', slowPending')

(***************************************************************************)
(* trackWrite.                                                             *)
(***************************************************************************)

Begin(w) ==
    /\ writes[w] = "idle"
    /\ writes' = [writes EXCEPT ![w] = "waiting"]
    /\ lastError' = FALSE /\ pendingWrites' = pendingWrites + 1
    /\ slowPending' = (pendingWrites # 0 /\ slowPending)
    /\ UNCHANGED <<network, firstRead, connection, sync>>
    /\ refreshPhase

SlowTimer(w) ==
    /\ writes[w] = "waiting"
    /\ writes' = [writes EXCEPT ![w] = "slow"]
    /\ slowPending' = TRUE
    /\ UNCHANGED <<network, firstRead, connection, pendingWrites, lastError, sync>>
    /\ refreshPhase

\* The server acknowledges or refuses the write.
Finish(w, ok) ==
    /\ writes[w] # "idle" /\ network = "online"
    /\ writes' = [writes EXCEPT ![w] = "idle"]
    /\ lastError' = (lastError \/ ~ok)
    /\ pendingWrites' = pendingWrites - 1
    /\ slowPending' = (pendingWrites' # 0 /\ slowPending)
    /\ sync' = [sync EXCEPT !.awaits = @ \ {w}]
    /\ UNCHANGED <<network, firstRead, connection>>
    /\ refreshPhase

(***************************************************************************)
(* retryPendingWrites.                                                     *)
(***************************************************************************)
\* A sync that is running is shared by whoever asks for one.
StartSync ==
    IF sync.running THEN UNCHANGED <<sync, lastError>> /\ refreshPhase
    ELSE /\ sync' = [running |-> TRUE, awaits |-> Waiting]
         /\ lastError' = FALSE /\ phase' = "syncing"

\* The banner's button.
RetrySync ==
    /\ connection = "online" /\ pendingWrites > 0 /\ phase \in {"pending", "error"}
    /\ ~sync.running
    /\ StartSync
    /\ UNCHANGED <<network, firstRead, connection, writes, pendingWrites, slowPending>>

SyncDone ==
    /\ sync.running /\ sync.awaits = {}
    /\ sync' = NoSync /\ lastError' = FALSE
    /\ UNCHANGED <<network, firstRead, connection, writes, pendingWrites, slowPending>>
    /\ refreshPhase

\* Firestore gives the wait up, as it does when the user changes.
SyncFails ==
    /\ sync.running
    /\ sync' = NoSync /\ lastError' = TRUE /\ phase' = "error"
    /\ UNCHANGED <<network, firstRead, connection, writes, pendingWrites, slowPending>>

(***************************************************************************)
(* The network.                                                            *)
(***************************************************************************)
updateConnectionMutant(conn) ==
    /\ connection' = conn
    /\ UNCHANGED <<network, writes, pendingWrites, slowPending>>
    /\ IF connection = "offline" /\ conn = "online" /\ pendingWrites > 0
       THEN StartSync
       ELSE UNCHANGED <<sync, lastError, phase>>

updateConnection(conn) ==
    /\ connection' = conn
    /\ UNCHANGED <<network, writes, pendingWrites, slowPending>>
    /\ IF connection = "offline" /\ conn = "online" /\ pendingWrites > 0
       THEN StartSync
       ELSE UNCHANGED <<sync, lastError>> /\ refreshPhase

\* The listener is told, of the network as it is or without saying.
Report ==
    /\ connection # network
    /\ \E conn \in {network, "unknown"} \ {connection} : updateConnection(conn)
    /\ UNCHANGED firstRead

\* The reading asked for at the start comes late, or not at all.
FirstReadComes ==
    /\ firstRead # "none" /\ firstRead' = "none"
    /\ \/ updateConnection(firstRead)
       \/ UNCHANGED <<network, connection, writes, pendingWrites, lastError, slowPending, phase, sync>>

NetworkChanges ==
    /\ network' \in {"online", "offline"} \ {network}
    /\ UNCHANGED <<firstRead, connection, writes, pendingWrites, lastError, slowPending, phase, sync>>

Next ==
    \/ \E w \in Write : \/ Begin(w) \/ SlowTimer(w)
                        \/ \E ok \in BOOLEAN : Finish(w, ok)
    \/ RetrySync \/ SyncDone \/ SyncFails
    \/ Report \/ FirstReadComes \/ NetworkChanges

Spec == Init /\ [][Next]_vars

(***************************************************************************)
(* Properties.                                                             *)
(***************************************************************************)
\* What the screen says is what the last error, the connection and the
\* waiting writes add up to, except that a running sync may say so.
PhaseTellsState ==
    \/ phase = Phase(lastError, connection, pendingWrites, slowPending)
    \/ sync.running /\ phase = "syncing"

\* A write that takes longer than 1.5 seconds is said to, whatever other
\* writes began or ended in the meantime.
SlowShown ==
    (\E w \in Write : writes[w] = "slow") /\ ~lastError /\ connection # "offline"
        => phase = "pending" \/ (sync.running /\ phase = "syncing")

\* The banner of synchronization says what is the case.
SyncTold == PhaseTellsState /\ SlowShown

\* A failure is shown until another write or another sync begins (the gateway
\* "surfaces failures").
FailureShown ==
    [][lastError /\ ~lastError' =>
         \/ pendingWrites' > pendingWrites
         \/ ~sync.running /\ sync'.running]_vars
=============================================================================
