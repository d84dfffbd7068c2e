------------------------------ MODULE MCOutbox ------------------------------
(* Outbox for an order whose parcel goes to a store without a mobile       *)
(* number, and which is refunded in two parts under one dedupe key.        *)
EXTENDS Outbox, TLC

CONSTANTS handoff, refund, again, parcel, refunded

OrderKeys == (handoff :> parcel) @@ (refund :> refunded) @@ (again :> refunded)
=============================================================================
