---------------------------- MODULE ParcelPromise ----------------------------
(***************************************************************************)
(* What the booking system promises the sender of a parcel, without        *)
(* requests, trips, ledgers, documents or codes.  A parcel is offered on   *)
(* some terms; one carrier at a time takes it, on the terms offered, which *)
(* then stand; it changes hands only on a proof shown for that handover;   *)
(* and while it is barred nobody takes it or collects it.                  *)
(***************************************************************************)
CONSTANTS
  Parcel,
  Carrier,
  Terms,
  Nobody             \* no carrier, and no terms agreed

VARIABLES
  offer,             \* [Parcel -> Terms], what the sender offers
  stage,             \* open, accepted, in_transit, delivered or completed
  carrier,           \* [Parcel -> Carrier \cup {Nobody}]
  terms,             \* [Parcel -> Terms \cup {Nobody}], what was agreed
  proof,             \* [Parcel -> SUBSET Handover], the proofs shown
  barred             \* the parcels that may not be taken or collected

vars == <<offer, stage, carrier, terms, proof, barred>>

Handover == {"pickup", "delivery"}

-----------------------------------------------------------------------------
Init ==
  /\ offer \in [Parcel -> Terms]
  /\ stage = [p \in Parcel |-> "open"]
  /\ carrier = [p \in Parcel |-> Nobody]
  /\ terms = [p \in Parcel |-> Nobody]
  /\ proof = [p \in Parcel |-> {}]
  /\ barred = {}

\* The sender offers the parcel on other terms
Revise(p, t) ==
  /\ stage[p] = "open"
  /\ offer' = [offer EXCEPT ![p] = t]
  /\ UNCHANGED <<stage, carrier, terms, proof, barred>>

Take(p, c) ==
  /\ stage[p] = "open" /\ p \notin barred
  /\ stage' = [stage EXCEPT ![p] = "accepted"]
  /\ carrier' = [carrier EXCEPT ![p] = c]
  /\ terms' = [terms EXCEPT ![p] = offer[p]]
  /\ UNCHANGED <<offer, proof, barred>>

\* Before the parcel changes hands the carriage may be called off
CallOff(p) ==
  /\ stage[p] = "accepted"
  /\ stage' = [stage EXCEPT ![p] = "open"]
  /\ carrier' = [carrier EXCEPT ![p] = Nobody]
  /\ terms' = [terms EXCEPT ![p] = Nobody]
  /\ proof' = [proof EXCEPT ![p] = {}]
  /\ UNCHANGED <<offer, barred>>

\* The proof of a handover is shown when that handover is next
Show(p, h) ==
  /\ stage[p] = IF h = "pickup" THEN "accepted" ELSE "in_transit"
  /\ proof' = [proof EXCEPT ![p] = @ \cup {h}]
  /\ UNCHANGED <<offer, stage, carrier, terms, barred>>

Collect(p) ==
  /\ stage[p] = "accepted" /\ "pickup" \in proof[p] /\ p \notin barred
  /\ stage' = [stage EXCEPT ![p] = "in_transit"]
  /\ UNCHANGED <<offer, carrier, terms, proof, barred>>

Deliver(p) ==
  /\ stage[p] = "in_transit" /\ "delivery" \in proof[p]
  /\ stage' = [stage EXCEPT ![p] = "delivered"]
  /\ UNCHANGED <<offer, carrier, terms, proof, barred>>

Complete(p) ==
  /\ stage[p] = "delivered"
  /\ stage' = [stage EXCEPT ![p] = "completed"]
  /\ UNCHANGED <<offer, carrier, terms, proof, barred>>

\* Operators bar a parcel and clear it at any time
Bar ==
  /\ barred' \in SUBSET Parcel
  /\ UNCHANGED <<offer, stage, carrier, terms, proof>>

Next ==
  \/ \E p \in Parcel :
       \/ \E t \in Terms : Revise(p, t)
       \/ \E c \in Carrier : Take(p, c)
       \/ CallOff(p)
       \/ \E h \in Handover : Show(p, h)
       \/ Collect(p) \/ Deliver(p) \/ Complete(p)
  \/ Bar

Spec == Init /\ [][Next]_vars
=============================================================================
